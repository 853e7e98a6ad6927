------------------------------ MODULE StatusLine ------------------------------
(***************************************************************************)
(* statusline (src/desktop-environment/utilities/statusline.c): once a     *)
(* second it prints what StatusText computes.  A file of indicators, which *)
(* other programs replace as the usage asks, is read when its modification *)
(* time changes; SIGUSR1 makes it pause for 1.5 s.                         *)
(*                                                                         *)
(* Time passes in half seconds.  Every version of the file has a time of   *)
(* modification of its own.  The clock is not set back.                    *)
(***************************************************************************)
EXTENDS StatusText

CONSTANTS
  Settings,    \* the command lines and surroundings of interest
  Contents     \* what the versions of the file hold, a sequence

\* settings.signals bounds how often SIGUSR1 is sent.
ASSUME SignalAssumption == \A s \in Settings : s.signals \in Nat

\* The clocks show about the time of the place that is given: the sun rises after
\* midnight and sets before it.
ASSUME PlaceAssumption ==
  \A s \in Settings : s.coordinates # None /\ strtolatlong(s.coordinates) # None =>
    /\ s.longitude \in Int /\ s.longitude = strtolatlong(s.coordinates).longitude
    /\ s.now \in 24 .. 47 /\ s.light \in 1 .. 11 /\ s.summer \in BOOLEAN
    /\ s.local.offset \in -12 .. 14
    /\ s.longitude - s.local.offset + s.light <= 12
    /\ s.local.offset - s.longitude + s.light <= 12

\* zones is a sequence, the name of each too, and what strftime() returns for one is
\* a text.
ASSUME ZonesAssumption ==
  \A s \in Settings :
    /\ s.zones \in Seq(ToSet(s.zones))
    /\ \A i \in DOMAIN s.zones : /\ s.zones[i].name \in Seq(STRING)
                                 /\ Clock(s.now, s.zones[i]) # None

Pause == 3
Versions == DOMAIN Contents

VARIABLES
  pc,
  settings,    \* the command line, and what the texts depend on
  first,       \* no line was shown yet
  pause_updates,
  status_file_mt,       \* the version of the file by its time; 0 if missing
  indicators_from_file,
  timer,       \* half seconds until select() returns
  line,        \* the last line shown
  file,        \* the version at the path; 0 if there is none
  written,     \* how many versions there were
  half,        \* whether the second half of a second has begun
  fresh,       \* history: a second began since the last line
  signals,     \* how many signals came
  quiet,       \* history: half seconds since the last one, up to Pause
  busy         \* history: lines since the first one of a series

programVars == <<pc, settings, first, pause_updates, status_file_mt,
                 indicators_from_file, timer, line>>
worldVars == <<file, written, half, fresh, signals, quiet, busy>>
vars == <<programVars, worldVars>>

Init ==
  /\ pc = "options" /\ settings \in Settings /\ first = TRUE /\ pause_updates = FALSE
  /\ status_file_mt = 0 /\ indicators_from_file = <<>> /\ timer = 0 /\ line = None
  /\ file \in {0, 1} /\ written = file /\ (file = 1 => settings.status_file)
  /\ half \in {0, 1} /\ fresh = TRUE /\ signals = 0 /\ quiet = Pause /\ busy = 0

-----------------------------------------------------------------------------
\* The place of -c has to make sense; signals are handled from here on.
Options ==
  /\ pc = "options"
  /\ pc' = IF settings.coordinates # None /\ strtolatlong(settings.coordinates) = None
           THEN "ended" ELSE "stat"
  /\ UNCHANGED <<settings, first, pause_updates, status_file_mt, indicators_from_file,
                 timer, line, worldVars>>

\* A bug of the kind the properties are for: the indicators of a file that went
\* away stay.
StatAndKeep ==
  /\ pc = "stat" /\ status_file_mt' = file
  /\ pc' = IF status_file_mt = file \/ file = 0 THEN "sleep" ELSE "load"
  /\ UNCHANGED <<settings, first, pause_updates, indicators_from_file, timer, line, worldVars>>

\* Has the file changed?
Stat ==
  /\ pc = "stat"
  /\ status_file_mt' = IF settings.status_file THEN file ELSE 0
  /\ IF status_file_mt = status_file_mt' THEN pc' = "sleep" /\ UNCHANGED indicators_from_file
     ELSE /\ indicators_from_file' = <<>>
          /\ pc' = IF file = 0 THEN "sleep" ELSE "load"
  /\ UNCHANGED <<settings, first, pause_updates, timer, line, worldVars>>

\* It may have changed again, or be gone.
Load ==
  /\ pc = "load" /\ pc' = "sleep"
  /\ indicators_from_file' =
       IF file = 0 THEN <<>> ELSE load_indicators_from_file(Contents[file])
  /\ UNCHANGED <<settings, first, pause_updates, status_file_mt, timer, line, worldVars>>

\* Until the turn of the second, but for the first line.
Sleep ==
  /\ pc = "sleep" /\ first' = FALSE
  /\ IF first THEN pc' = "check" /\ UNCHANGED timer ELSE pc' = "turn" /\ timer' = 2 - half
  /\ UNCHANGED <<settings, pause_updates, status_file_mt, indicators_from_file, line, worldVars>>

\* A bug of the kind the properties are for: the pause is not repeated.
WakeOnce ==
  /\ pc \in {"turn", "pause"} /\ timer = 0
  /\ pc' = IF pc = "pause" THEN "show" ELSE "check"
  /\ UNCHANGED <<settings, first, pause_updates, status_file_mt, indicators_from_file,
                 timer, line, worldVars>>

\* select() is over.
Wake ==
  /\ pc \in {"turn", "pause"} /\ timer = 0 /\ pc' = "check"
  /\ UNCHANGED <<settings, first, pause_updates, status_file_mt, indicators_from_file,
                 timer, line, worldVars>>

\* A signal during a pause begins another one.
Check ==
  /\ pc = "check"
  /\ IF pause_updates THEN pc' = "clear" ELSE pc' = "show"
  /\ UNCHANGED <<settings, first, pause_updates, status_file_mt, indicators_from_file,
                 timer, line, worldVars>>

ClearAndPause ==
  /\ \/ pc = "clear" /\ pause_updates' = FALSE /\ pc' = "cleared" /\ UNCHANGED timer
     \/ pc = "cleared" /\ timer' = Pause /\ pc' = "pause" /\ UNCHANGED pause_updates
  /\ UNCHANGED <<settings, first, status_file_mt, indicators_from_file, line, worldVars>>

Text ==
  [indicators |-> indicators_from_file,
   battery |-> battery_indicator(settings.battery),
   sun |-> IF settings.coordinates = None THEN None
           ELSE sunrise_sunset_info(settings.now, settings.local.offset,
                  strtolatlong(settings.coordinates).longitude, settings.light, settings.summer),
   moon |-> moon_icon(settings.phase, settings.southern, settings.invert),
   day |-> dow_with_ordinal_dom(settings.day),
   clocks |-> AltClocks(settings.now, settings.local, settings.zones)]

\* A line is printed, if anybody reads it.
Show ==
  /\ pc = "show"
  /\ \/ /\ line' = Text /\ pc' = IF settings.run_once THEN "ended" ELSE "stat"
        /\ fresh' = FALSE /\ busy' = IF quiet < Pause THEN busy + 1 ELSE 0
     \/ pc' = "ended" /\ UNCHANGED <<line, fresh, busy>>
  /\ UNCHANGED <<settings, first, pause_updates, status_file_mt, indicators_from_file,
                 timer, file, written, half, signals, quiet>>

-----------------------------------------------------------------------------
(* The world                                                                *)

\* Half a second passes.
Tick ==
  /\ half' = 1 - half /\ fresh' = (fresh \/ half = 1)
  /\ timer' = IF timer > 0 THEN timer - 1 ELSE 0
  /\ quiet' = IF quiet < Pause THEN quiet + 1 ELSE quiet
  /\ busy' = IF quiet' = Pause THEN 0 ELSE busy
  /\ UNCHANGED <<pc, settings, first, pause_updates, status_file_mt, indicators_from_file,
                 line, file, written, signals>>

\* SIGUSR1: the handler sets a flag, and select() returns.
Signal ==
  /\ pc \notin {"options", "ended"} /\ signals < settings.signals
  /\ signals' = signals + 1 /\ quiet' = 0 /\ pause_updates' = TRUE
  /\ timer' = 0
  /\ UNCHANGED <<pc, settings, first, status_file_mt, indicators_from_file, line,
                 file, written, half, fresh, busy>>

\* A program renames a new version over the file, or deletes it.
Write ==
  /\ settings.status_file
  /\ \/ written < Len(Contents) /\ written' = written + 1 /\ file' = written'
     \/ file # 0 /\ file' = 0 /\ UNCHANGED written
  /\ UNCHANGED <<programVars, half, fresh, signals, quiet, busy>>

Program == Options \/ Stat \/ Load \/ Sleep \/ Wake \/ Check \/ ClearAndPause \/ Show
World == Tick \/ Signal \/ Write

Next == Program \/ World

\* The program runs when it can, and time passes.
Spec == Init /\ [][Next]_vars /\ WF_vars(Program) /\ WF_vars(Tick)

-----------------------------------------------------------------------------
\* From the first of some signals on, each less than 1.5 s after the one before,
\* at most the line that was on its way is shown until 1.5 s after the last
\* (the usage of PAUSE_DURATION_SEC, statusline.c:77).
PausesFully == busy <= 1

\* Every line shows a second later than that of the line before, whatever the
\* signals did to the sleep until the turn of the second.
NewSecondEachLine == pc = "show" => fresh

\* What the file holds when it is left alone is shown at last, even if it was
\* replaced or deleted between the look at its time and the reading.
Holds(version) ==
  IF version = 0 THEN <<>> ELSE load_indicators_from_file(Contents[version])
ShownEventually ==
  \A version \in Versions \cup {0} :
    <>[](file = version /\ pc # "ended") =>
      <>[](line # None /\ line.indicators = Holds(version))

\* The clocks are those of the zones asked for that differ from the local one, each
\* once, in the order they were asked for; none for the one zone XXX.  So says the
\* usage (statusline.c:955), but for one exception: a clock is also left out if an
\* earlier one at the same time has a name that merely begins with its name, as with
\* ABCD0 and ABC0 (line 1225), although they are no duplicates.
ClocksOnceInOrder ==
  line # None =>
    LET zones == settings.zones
        Of(i) == Clock(settings.now, zones[i])
        asked == {i \in DOMAIN zones :
                    ~zones[i].long /\ Of(i) # Clock(settings.now, settings.local)}
        wanted == {i \in asked : \A j \in asked : j < i => ~Within(Of(i), Of(j))}
    IN IF Len(zones) = 1 /\ zones[1].name = <<"XXX">> THEN line.clocks = <<>>
       ELSE line.clocks = [n \in 1 .. Cardinality(wanted) |->
              Of(CHOOSE i \in wanted : Cardinality({j \in wanted : j <= i}) = n)]

\* What comes next at the place that is meant.
NextEvent(now, longitude, light) ==
  LET events == UNION {{<<"sunrise", 24 * day + 12 - longitude - light>>,
                        <<"sunset", 24 * day + 12 - longitude + light>>} : day \in -2 .. 3}
  IN CHOOSE e \in events : e[2] > now /\ \A d \in events : d[2] > now => e[2] <= d[2]

NextShown ==
  line # None /\ settings.coordinates # None =>
    line.sun = NextEvent(settings.now, settings.longitude, settings.light)

\* The sunrise or sunset shown is the next one (statusline.c:687) where clocks
\* are at least an hour behind Greenwich.  Where they are ahead, midnight falls on
\* the UTC day before, and the times of that day are taken for today's.
NextEventShown == settings.local.offset < 0 => NextShown

\* The texts as they are documented.  The day has its English ending.  The battery
\* (statusline.c:216) is shown as missing, unreadable, unknown, or with its charge and
\* whether it rises or falls; though charging, a full one is shown as neither.
BatteryDocumented(node) ==
  LET Of(key) == {l.value : l \in {k \in ToSet(node.lines) : k.key = key}}
      charge == Of("capacity") \cap (0 .. 100)
      rises == "Charging" \in Of("status") /\ charge # {100}
  IN IF ~node.exists THEN <<"-">>
     ELSE IF charge = {} THEN <<IF node.whole THEN "?" ELSE "!">>
     ELSE <<IF rises THEN "up" ELSE IF "Discharging" \in Of("status") THEN "down" ELSE "",
            Max(charge)>>

DayDocumented(day) ==
  <<day, IF day \in {1, 21, 31} THEN "st" ELSE IF day \in {2, 22} THEN "nd"
         ELSE IF day \in {3, 23} THEN "rd" ELSE "th">>

\* The moon (statusline.c:533): a picture is how many quarters are lit and from which
\* side, in the north from the right while it waxes.  The other hemisphere sees the
\* other side lit, and an inverted picture has light and dark changed.  The sign is
\* there within twelve hours of the new and of the full moon.
MoonDocumented(phase, southern, invert) ==
  LET nearest == CHOOSE k \in 0 .. 7 : (phase - 30 * k + 15) % 240 \in 0 .. 29
      quarters == IF nearest > 4 THEN 8 - nearest ELSE nearest
      lit == IF invert THEN 4 - quarters ELSE quarters
      right == ((nearest <= 4) # southern) # invert
      turning == phase \in 116 .. 124 \/ phase < 4 \/ phase >= 236
  IN <<IF ~turning THEN "" ELSE IF phase <= 120 THEN "+" ELSE "-",
       IF right \/ lit = 0 THEN lit ELSE 8 - lit>>

\* Two numbers, both with a letter and no sign or both without one, in range.
WellFormed(text) ==
  /\ Len(text) = 2
  /\ \A i \in {1, 2} :
       /\ text[i].number # None /\ text[i].number <= (IF i = 1 THEN 90 ELSE 12)
       /\ text[i].letter \in (IF i = 1 THEN {"", "N", "S"} ELSE {"", "E", "W"})
       /\ text[i].letter # "" => ~text[i].minus
  /\ text[1].letter = "" <=> text[2].letter = ""

\* Each part of a line is what the comment of its function promises, and no line is
\* shown for a place that is not well-formed.
TextsAsDocumented ==
  line # None =>
    /\ line.battery = BatteryDocumented(settings.battery)
    /\ line.day = DayDocumented(settings.day)
    /\ line.moon = MoonDocumented(settings.phase, settings.southern, settings.invert)
    /\ settings.coordinates # None => WellFormed(settings.coordinates)
=============================================================================
