-------------------------- MODULE StatusLine_proofs --------------------------
(***************************************************************************)
(* When lines are shown, for every command line, file and order of signals *)
(* and ticks: never two in a second, and none in a pause but one that was  *)
(* on its way.  And that the sunrise or sunset shown is the next one, for  *)
(* every place whose clocks are behind Greenwich; that the clocks are      *)
(* those of the zones asked for, each once and in order; and that no       *)
(* change of the file of indicators is overlooked.                         *)
(***************************************************************************)
EXTENDS StatusLine, FunctionTheorems, FiniteSetTheorems, SequenceTheorems, TLAPS

\* What the properties depend on.
FlagsOK == pause_updates \in BOOLEAN /\ first \in BOOLEAN /\ fresh \in BOOLEAN

TimesOK ==
  /\ pc \in {"options", "stat", "load", "sleep", "turn", "check", "clear", "cleared",
             "pause", "show", "ended"}
  /\ timer \in 0 .. Pause /\ quiet \in 0 .. Pause /\ half \in {0, 1} /\ busy \in Nat

\* As long as no second has begun since the last line, the program has not decided
\* to show another: select() waits at least for the turn of the second, unless a
\* signal woke it, which the next check notices.
SecondInv ==
  /\ first => fresh /\ pc \in {"options", "stat", "load", "sleep", "ended"}
  /\ pc = "check" => fresh \/ pause_updates
  /\ pc = "show" => fresh
  /\ pc \in {"turn", "pause"} => fresh \/ pause_updates \/ timer >= 2 - half

\* A signal less than a pause ago is either not noticed yet or being waited for.
PauseInv ==
  \/ quiet = Pause \/ pause_updates \/ pc = "cleared"
  \/ pc = "pause" /\ timer + quiet >= Pause

\* In a series of signals one line was shown at most, and no other is on its way.
SeriesInv == busy # 0 => busy = 1 /\ quiet < Pause /\ pc # "show"

TimeInv == FlagsOK /\ TimesOK /\ SecondInv /\ PauseInv /\ SeriesInv

-----------------------------------------------------------------------------
USE DEF Pause

LEMMA InitTimes == ASSUME Init PROVE TimeInv
<1>1. FlagsOK
  BY DEF Init, FlagsOK
<1>2. TimesOK
  BY DEF Init, TimesOK
<1>3. SecondInv /\ PauseInv /\ SeriesInv
  BY DEF Init, SecondInv, PauseInv, SeriesInv
<1> QED
  BY <1>1, <1>2, <1>3 DEF TimeInv

LEMMA FlagsStep == ASSUME TimeInv, [Next]_vars PROVE FlagsOK'
<1> USE DEF TimeInv, FlagsOK, worldVars
<1>1. CASE Options
  BY <1>1 DEF Options
<1>2. CASE Stat
  BY <1>2 DEF Stat
<1>3. CASE Load
  BY <1>3 DEF Load
<1>4. CASE Sleep
  BY <1>4 DEF Sleep
<1>5. CASE Wake
  BY <1>5 DEF Wake
<1>6. CASE Check
  BY <1>6 DEF Check
<1>7. CASE ClearAndPause
  BY <1>7 DEF ClearAndPause
<1>8. CASE Show
  BY <1>8 DEF Show
<1>9. CASE Tick
  BY <1>9 DEF Tick
<1>10. CASE Signal
  BY <1>10 DEF Signal
<1>11. CASE Write
  BY <1>11 DEF Write, programVars
<1>12. CASE UNCHANGED vars
  BY <1>12 DEF vars, programVars
<1> QED
  BY <1>1, <1>2, <1>3, <1>4, <1>5, <1>6, <1>7, <1>8, <1>9, <1>10, <1>11, <1>12
  DEF Next, Program, World

LEMMA TimesStep == ASSUME TimeInv, [Next]_vars PROVE TimesOK'
<1> USE DEF TimeInv, TimesOK, worldVars
<1>1. CASE Options
  BY <1>1 DEF Options
<1>2. CASE Stat
  BY <1>2 DEF Stat
<1>3. CASE Load
  BY <1>3 DEF Load
<1>4. CASE Sleep
  BY <1>4 DEF Sleep
<1>5. CASE Wake
  BY <1>5 DEF Wake
<1>6. CASE Check
  BY <1>6 DEF Check
<1>7. CASE ClearAndPause
  BY <1>7 DEF ClearAndPause
<1>8. CASE Show
  BY <1>8 DEF Show
<1>9. CASE Tick
  BY <1>9 DEF Tick
<1>10. CASE Signal
  BY <1>10 DEF Signal
<1>11. CASE Write
  BY <1>11 DEF Write, programVars
<1>12. CASE UNCHANGED vars
  BY <1>12 DEF vars, programVars
<1> QED
  BY <1>1, <1>2, <1>3, <1>4, <1>5, <1>6, <1>7, <1>8, <1>9, <1>10, <1>11, <1>12
  DEF Next, Program, World

LEMMA SecondStep == ASSUME TimeInv, [Next]_vars PROVE SecondInv'
<1> USE DEF TimeInv, TimesOK, SecondInv, worldVars
<1>1. CASE Options
  BY <1>1 DEF Options
<1>2. CASE Stat
  BY <1>2 DEF Stat
<1>3. CASE Load
  BY <1>3 DEF Load
<1>4. CASE Sleep
  BY <1>4 DEF Sleep
<1>5. CASE Wake
  BY <1>5 DEF Wake
<1>6. CASE Check
  BY <1>6 DEF Check
<1>7. CASE ClearAndPause
  BY <1>7 DEF ClearAndPause
<1>8. CASE Show
  BY <1>8 DEF Show
<1>9. CASE Tick
  <2>1. pc' = pc /\ first' = first /\ pause_updates' = pause_updates /\ (fresh => fresh')
    BY <1>9 DEF Tick
  <2>2. half = 1 => fresh'
    BY <1>9 DEF Tick
  <2>3. half = 0 => half' = 1
    BY <1>9 DEF Tick
  <2>4. timer >= 2 => timer' = timer - 1
    BY <1>9 DEF Tick
  <2> QED
    BY <2>1, <2>2, <2>3, <2>4
<1>10. CASE Signal
  BY <1>10 DEF Signal
<1>11. CASE Write
  BY <1>11 DEF Write, programVars
<1>12. CASE UNCHANGED vars
  BY <1>12 DEF vars, programVars
<1> QED
  BY <1>1, <1>2, <1>3, <1>4, <1>5, <1>6, <1>7, <1>8, <1>9, <1>10, <1>11, <1>12
  DEF Next, Program, World

LEMMA PauseStep == ASSUME TimeInv, [Next]_vars PROVE PauseInv'
<1> USE DEF TimeInv, TimesOK, PauseInv, worldVars
<1>1. CASE Options
  BY <1>1 DEF Options
<1>2. CASE Stat
  BY <1>2 DEF Stat
<1>3. CASE Load
  BY <1>3 DEF Load
<1>4. CASE Sleep
  BY <1>4 DEF Sleep
<1>5. CASE Wake
  BY <1>5 DEF Wake
<1>6. CASE Check
  BY <1>6 DEF Check
<1>7. CASE ClearAndPause
  BY <1>7 DEF ClearAndPause
<1>8. CASE Show
  BY <1>8 DEF Show
<1>9. CASE Tick
  BY <1>9 DEF Tick
<1>10. CASE Signal
  BY <1>10 DEF Signal
<1>11. CASE Write
  BY <1>11 DEF Write, programVars
<1>12. CASE UNCHANGED vars
  BY <1>12 DEF vars, programVars
<1> QED
  BY <1>1, <1>2, <1>3, <1>4, <1>5, <1>6, <1>7, <1>8, <1>9, <1>10, <1>11, <1>12
  DEF Next, Program, World

LEMMA SeriesStep == ASSUME TimeInv, [Next]_vars PROVE SeriesInv'
<1> USE DEF TimeInv, TimesOK, PauseInv, SeriesInv, worldVars
<1>1. CASE Options
  BY <1>1 DEF Options
<1>2. CASE Stat
  BY <1>2 DEF Stat
<1>3. CASE Load
  BY <1>3 DEF Load
<1>4. CASE Sleep
  BY <1>4 DEF Sleep
<1>5. CASE Wake
  BY <1>5 DEF Wake
<1>6. CASE Check
  BY <1>6 DEF Check
<1>7. CASE ClearAndPause
  BY <1>7 DEF ClearAndPause
<1>8. CASE Show
  BY <1>8 DEF Show
<1>9. CASE Tick
  BY <1>9 DEF Tick
<1>10. CASE Signal
  BY <1>10 DEF Signal
<1>11. CASE Write
  BY <1>11 DEF Write, programVars
<1>12. CASE UNCHANGED vars
  BY <1>12 DEF vars, programVars
<1> QED
  BY <1>1, <1>2, <1>3, <1>4, <1>5, <1>6, <1>7, <1>8, <1>9, <1>10, <1>11, <1>12
  DEF Next, Program, World

LEMMA TimeInvariant == Spec => []TimeInv
<1>1. TimeInv /\ [Next]_vars => TimeInv'
  BY FlagsStep, TimesStep, SecondStep, PauseStep, SeriesStep DEF TimeInv
<1> QED
  BY InitTimes, <1>1, PTL DEF Spec

\* Between two lines a second begins, whatever signals interrupted the sleep and
\* the pauses.
THEOREM NewSecondAlways == Spec => []NewSecondEachLine
<1>1. TimeInv => NewSecondEachLine
  BY DEF TimeInv, SecondInv, NewSecondEachLine
<1> QED
  BY <1>1, TimeInvariant, PTL

\* However many signals come, and at whatever moments, no more than the line that
\* was on its way is shown before 1.5 s have passed without one.
THEOREM PausesFullyAlways == Spec => []PausesFully
<1>1. TimeInv => PausesFully
  BY DEF TimeInv, SeriesInv, TimesOK, PausesFully
<1> QED
  BY <1>1, TimeInvariant, PTL

-----------------------------------------------------------------------------
(* The file of indicators                                                   *)

\* Behind ShownEventually: outside of a load, if the version at the path is the one
\* whose time is remembered, its indicators are those shown.  So a change that
\* the lines do not show yet is one that the next look at the time finds, also
\* when the file was replaced or deleted between that look and the reading.
ChangeNoticed ==
  pc # "load" /\ status_file_mt = file => indicators_from_file = Holds(file)

\* A version that comes later is not the one remembered, and without a file
\* remembered there is nothing to show.
VersionInv ==
  /\ written \in Nat /\ file \in 0 .. written /\ status_file_mt \in 0 .. written
  /\ ~settings.status_file => file = 0
  /\ pc = "load" => status_file_mt # 0
  /\ pc # "load" /\ status_file_mt = 0 => indicators_from_file = <<>>

LEMMA NothingHeld == Holds(0) = <<>>
BY DEF Holds

LEMMA VersionStep ==
  ASSUME VersionInv, ChangeNoticed, [Next]_vars PROVE VersionInv' /\ ChangeNoticed'
<1> USE DEF VersionInv, ChangeNoticed
<1>1. CASE Stat
  <2>1. /\ pc = "stat" /\ UNCHANGED <<settings, file, written>>
        /\ status_file_mt' = IF settings.status_file THEN file ELSE 0
    BY <1>1 DEF Stat, worldVars
  <2>2. status_file_mt' = file
    BY <2>1
  <2>3. CASE status_file_mt = file
    BY <1>1, <2>1, <2>2, <2>3 DEF Stat, Holds
  <2>4. CASE status_file_mt # file
    <3>1. indicators_from_file' = <<>> /\ pc' = IF file = 0 THEN "sleep" ELSE "load"
      BY <1>1, <2>2, <2>4 DEF Stat
    <3> QED BY <2>1, <2>2, <3>1 DEF Holds
  <2> QED BY <2>3, <2>4
<1>2. CASE Load
  <2>1. UNCHANGED <<settings, file, written, status_file_mt>> /\ pc = "load"
    BY <1>2 DEF Load, worldVars
  <2>2. pc' = "sleep" /\ indicators_from_file' = Holds(file)
    BY <1>2 DEF Load, Holds
  <2> QED BY <2>1, <2>2 DEF Holds
<1>3. CASE Write
  <2>1. UNCHANGED <<pc, settings, status_file_mt, indicators_from_file>> /\ settings.status_file
    BY <1>3 DEF Write, programVars
  <2>2. CASE file' = 0 /\ UNCHANGED written
    BY <2>1, <2>2, NothingHeld
  <2>3. CASE written' = written + 1 /\ file' = written'
    <3>1. file' # status_file_mt /\ file' # 0
      BY <2>3
    <3> QED BY <2>1, <2>3, <3>1
  <2> QED BY <1>3, <2>2, <2>3 DEF Write
<1>4. CASE Options \/ Sleep \/ Wake \/ Check \/ ClearAndPause \/ Show
  <2>1. UNCHANGED <<settings, file, written, status_file_mt, indicators_from_file>>
    BY <1>4 DEF Options, Sleep, Wake, Check, ClearAndPause, Show, worldVars
  <2>2. pc # "load" /\ pc' # "load"
    BY <1>4 DEF Options, Sleep, Wake, Check, ClearAndPause, Show
  <2> QED BY <2>1, <2>2 DEF Holds
<1>5. CASE Tick \/ Signal \/ UNCHANGED vars
  <2>1. UNCHANGED <<pc, settings, file, written, status_file_mt, indicators_from_file>>
    BY <1>5 DEF Tick, Signal, vars, programVars, worldVars
  <2> QED BY <2>1 DEF Holds
<1> QED BY <1>1, <1>2, <1>3, <1>4, <1>5 DEF Next, Program, World

\* What a file holds is never overlooked, however it is replaced, deleted and
\* written again around the looks at its time.
THEOREM ChangeNoticedAlways == Spec => []ChangeNoticed
<1>1. ASSUME Init PROVE VersionInv /\ ChangeNoticed
  <2>1. /\ pc = "options" /\ file \in {0, 1} /\ written = file /\ status_file_mt = 0
        /\ indicators_from_file = <<>> /\ (file = 1 => settings.status_file)
    BY <1>1 DEF Init
  <2> QED BY <2>1, NothingHeld DEF VersionInv, ChangeNoticed
<1>2. VersionInv /\ ChangeNoticed /\ [Next]_vars => (VersionInv /\ ChangeNoticed)'
  BY VersionStep
<1> QED BY <1>1, <1>2, PTL DEF Spec

-----------------------------------------------------------------------------
(* The sun                                                                  *)

\* Where clocks are behind Greenwich, midnight is found on the UTC day that has the
\* date of the local one, even when an hour is taken away for summer time.
LEMMA Midnight ==
  ASSUME NEW when \in Int, NEW offset \in -12 .. -1, NEW summer \in BOOLEAN,
         NEW q \in Int, 24 * q <= when + offset, when + offset < 24 * q + 24
  PROVE  /\ round_down_to_midnight(when, offset, summer) \in
              {24 * q - offset, 24 * q - offset - 1}
<1>1. (when + offset) % 24 = when + offset - 24 * q
  OBVIOUS
<1> QED
  BY <1>1 DEF round_down_to_midnight

\* A sunrise or sunset of the day q or the sunrise after it, nearer than a night
\* and a day are long.
Comes(e, q, now, longitude, light) ==
  /\ e \in {<<"sunrise", 24 * q + 12 - longitude - light>>,
           <<"sunset", 24 * q + 12 - longitude + light>>,
           <<"sunrise", 24 * (q + 1) + 12 - longitude - light>>}
  /\ now < e[2]
  /\ e[1] = "sunrise" => e[2] - now <= 24 - 2 * light
  /\ e[1] = "sunset" => e[2] - now <= 2 * light

\* No other comes before it.
LEMMA NextOf ==
  ASSUME NEW now \in Int, NEW longitude \in Int, NEW light \in 1 .. 11,
         NEW q \in {0, 1}, NEW e, Comes(e, q, now, longitude, light)
  PROVE  NextEvent(now, longitude, light) = e
<1> USE DEF Comes
<1> DEFINE events == UNION {{<<"sunrise", 24 * day + 12 - longitude - light>>,
                             <<"sunset", 24 * day + 12 - longitude + light>>} : day \in -2 .. 3}
<1>1. e \in events
  OBVIOUS
<1>2. ASSUME NEW d \in events, d[2] > now
      PROVE  e[2] <= d[2] /\ (e[2] = d[2] => d = e)
  <2>1. PICK day \in -2 .. 3 : d \in {<<"sunrise", 24 * day + 12 - longitude - light>>,
                                     <<"sunset", 24 * day + 12 - longitude + light>>}
    OBVIOUS
  <2>2. CASE d = <<"sunrise", 24 * day + 12 - longitude - light>>
    BY <1>2, <2>2
  <2>3. CASE d = <<"sunset", 24 * day + 12 - longitude + light>>
    BY <1>2, <2>3
  <2> QED
    BY <2>1, <2>2, <2>3
<1>3. \A d \in events : d[2] \in Int
  OBVIOUS
<1> HIDE DEF events
<1>4. PICK r \in events : r[2] > now /\ \A d \in events : d[2] > now => r[2] <= d[2]
  BY <1>1, <1>2
<1> QED
  BY <1>1, <1>2, <1>3 DEF NextEvent, events

LEMMA InfoIsNext ==
  ASSUME NEW now \in 24 .. 47, NEW offset \in -12 .. -1, NEW summer \in BOOLEAN,
         NEW longitude \in Int, NEW light \in 1 .. 11,
         longitude - offset + light <= 12, offset - longitude + light <= 12
  PROVE  sunrise_sunset_info(now, offset, longitude, light, summer)
           = NextEvent(now, longitude, light)
<1>1. PICK q \in {0, 1} : 24 * q <= now + offset /\ now + offset < 24 * q + 24
  OBVIOUS
<1> DEFINE noon == 24 * q + 12 - longitude
           e == IF noon + light <= now THEN <<"sunrise", noon + 24 - light>>
                ELSE IF noon - light > now THEN <<"sunrise", noon - light>>
                ELSE <<"sunset", noon + light>>
<1>2. sunrise_sunset_info(now, offset, longitude, light, summer) = e
  <2> DEFINE midnight == round_down_to_midnight(now, offset, summer)
             next == round_down_to_midnight(midnight + 36, offset, summer)
  <2>1. midnight \in {24 * q - offset, 24 * q - offset - 1} /\ midnight \in Int
    BY <1>1, Midnight
  <2>2. next \in {24 * (q + 1) - offset, 24 * (q + 1) - offset - 1} /\ next \in Int
    <3>1. /\ 24 * (q + 1) <= midnight + 36 + offset
          /\ midnight + 36 + offset < 24 * (q + 1) + 24
      BY <2>1
    <3> HIDE DEF midnight
    <3>2. midnight + 36 \in Int /\ q + 1 \in Int
      BY <2>1
    <3>3. next \in {24 * (q + 1) - offset, 24 * (q + 1) - offset - 1}
      BY <3>1, <3>2, Midnight, Zenon
    <3> QED
      BY <3>2, <3>3
  <2> HIDE DEF midnight, next
  <2>3. midnight - (midnight % 24) = 24 * q /\ next - (next % 24) = 24 * q + 24
    BY <2>1, <2>2
  <2>4. sunrise_sunset_times(midnight, longitude, light) =
          [sunrise |-> noon - light, sunset |-> noon + light]
    BY <2>3 DEF sunrise_sunset_times
  <2>5. sunrise_sunset_times(next, longitude, light) =
          [sunrise |-> noon + 24 - light, sunset |-> noon + 24 + light]
    BY <2>3 DEF sunrise_sunset_times
  <2>6. sunrise_sunset_info(now, offset, longitude, light, summer) =
          IF sunrise_sunset_times(midnight, longitude, light).sunset <= now
          THEN <<"sunrise", sunrise_sunset_times(next, longitude, light).sunrise>>
          ELSE IF sunrise_sunset_times(midnight, longitude, light).sunrise > now
          THEN <<"sunrise", sunrise_sunset_times(midnight, longitude, light).sunrise>>
          ELSE <<"sunset", sunrise_sunset_times(midnight, longitude, light).sunset>>
    BY DEF sunrise_sunset_info, midnight, next
  <2> HIDE DEF noon
  <2> QED
    BY <2>4, <2>5, <2>6
<1>3. NextEvent(now, longitude, light) = e
  <2>1. Comes(e, q, now, longitude, light)
    <3> USE DEF Comes
    <3>1. noon + 24 - light = 24 * (q + 1) + 12 - longitude - light
      OBVIOUS
    <3>2. CASE noon + light <= now
      BY <1>1, <3>1, <3>2
    <3>3. CASE now < noon + light /\ noon - light > now
      BY <1>1, <3>3
    <3>4. CASE now < noon + light /\ noon - light <= now
      BY <1>1, <3>4
    <3>5. \/ noon + light <= now
          \/ now < noon + light /\ noon - light > now
          \/ now < noon + light /\ noon - light <= now
      OBVIOUS
    <3> HIDE DEF e, noon
    <3> QED
      BY <3>2, <3>3, <3>4, <3>5
  <2> HIDE DEF e
  <2>2. now \in Int
    OBVIOUS
  <2> QED
    BY <2>1, <2>2, NextOf, Zenon
<1> QED
  BY <1>2, <1>3

\* What a line says of the sun.
Sun ==
  sunrise_sunset_info(settings.now, settings.local.offset,
    strtolatlong(settings.coordinates).longitude, settings.light, settings.summer)

\* Lines are shown only if the place makes sense.
SunInv ==
  /\ settings \in Settings
  /\ settings.coordinates # None /\ (line # None \/ pc \notin {"options", "ended"}) =>
       strtolatlong(settings.coordinates) # None
  /\ settings.coordinates # None /\ line # None => line.sun = Sun

LEMMA NextSun == ASSUME SunInv, [Next]_vars PROVE SunInv'
<1> USE DEF SunInv, Sun, worldVars
<1>1. CASE Options
  BY <1>1 DEF Options
<1>2. CASE Show
  <2>1. settings' = settings /\ pc = "show"
    BY <1>2 DEF Show
  <2>2. CASE line' = Text
    <3>1. settings.coordinates # None => Text.sun = Sun
      BY DEF Text
    <3> QED
      BY <2>1, <2>2, <3>1
  <2>3. CASE line' = line
    BY <2>1, <2>3
  <2> QED
    BY <1>2, <2>2, <2>3 DEF Show
<1>3. CASE Stat \/ Load \/ Sleep \/ Wake \/ Check \/ ClearAndPause
  BY <1>3 DEF Stat, Load, Sleep, Wake, Check, ClearAndPause
<1>4. CASE World
  BY <1>4 DEF World, Tick, Signal, Write, programVars
<1>5. CASE UNCHANGED vars
  BY <1>5 DEF vars, programVars
<1> QED
  BY <1>1, <1>2, <1>3, <1>4, <1>5 DEF Next, Program

\* Where clocks are behind Greenwich, the sunrise or sunset shown is the next one,
\* for every place, length of the day and hour, and also if the structure given
\* to mktime() happens to say that it is summer.
THEOREM NextEventShownAlways == Spec => []NextEventShown
<1>1. Init => SunInv
  BY DEF Init, SunInv
<1>2. SunInv => NextEventShown
  <2> SUFFICES ASSUME SunInv, settings.local.offset < 0, line # None,
                      settings.coordinates # None
               PROVE  line.sun = NextEvent(settings.now, settings.longitude, settings.light)
    BY DEF NextEventShown, NextShown
  <2>1. /\ settings.longitude \in Int
        /\ settings.longitude = strtolatlong(settings.coordinates).longitude
        /\ settings.now \in 24 .. 47 /\ settings.light \in 1 .. 11 /\ settings.summer \in BOOLEAN
        /\ settings.local.offset \in -12 .. 14
        /\ settings.longitude - settings.local.offset + settings.light <= 12
        /\ settings.local.offset - settings.longitude + settings.light <= 12
    BY PlaceAssumption DEF SunInv
  <2>2. settings.local.offset \in -12 .. -1
    BY <2>1
  <2>3. sunrise_sunset_info(settings.now, settings.local.offset, settings.longitude,
                            settings.light, settings.summer)
          = NextEvent(settings.now, settings.longitude, settings.light)
    BY <2>1, <2>2, InfoIsNext, Zenon
  <2> QED
    BY <2>1, <2>3 DEF SunInv, Sun
<1> QED
  BY <1>1, <1>2, NextSun, PTL DEF Spec

-----------------------------------------------------------------------------
(* The clocks                                                               *)

\* Numbers have a smallest one.
LEMMA Smallest ==
  ASSUME NEW T, T \subseteq Nat, T # {}
  PROVE  \E i \in T : \A j \in T : i <= j
<1> DEFINE below == {k \in Nat : \A t \in T : k < t}
           i == Cardinality(below)
<1>1. ASSUME NEW t \in T PROVE IsFiniteSet(below) /\ i <= t
  <2>1. IsFiniteSet(0 .. t - 1) /\ Cardinality(0 .. t - 1) = t
    <3>1. t \in Nat /\ t - 1 \in Int /\ 0 \in Int
      OBVIOUS
    <3>2. Cardinality(0 .. t - 1) = IF 0 > t - 1 THEN 0 ELSE t - 1 - 0 + 1
      BY <3>1, FS_Interval
    <3> QED
      BY <3>1, <3>2, FS_Interval
  <2>2. below \subseteq 0 .. t - 1
    OBVIOUS
  <2> QED
    BY <2>1, <2>2, FS_Subset
<1>2. i \in Nat
  BY <1>1, FS_CardinalityType
<1>3. i \notin below
  <2> SUFFICES ASSUME i \in below PROVE FALSE
    OBVIOUS
  <2>1. IsFiniteSet(0 .. i) /\ Cardinality(0 .. i) = i + 1
    <3> HIDE DEF i
    <3> QED
      BY <1>2, FS_Interval
  <2>2. 0 .. i \subseteq below
    BY <1>2
  <2>3. Cardinality(0 .. i) <= i
    BY <1>1, <2>2, FS_Subset
  <2> HIDE DEF i
  <2> QED
    BY <1>2, <2>1, <2>3
<1>4. PICK t \in T : t <= i
  <2> HIDE DEF i
  <2> QED
    BY <1>2, <1>3
<1>5. i = t
  <2>1. i <= t /\ t \in Nat
    BY <1>1
  <2> HIDE DEF i
  <2> QED
    BY <1>2, <1>4, <2>1
<1> QED
  BY <1>1, <1>5

Place(S, i) == Cardinality({j \in S : j <= i})

\* The elements of a finite set of numbers have the places from 1 on, in order.
LEMMA Places ==
  ASSUME NEW S \in SUBSET Nat, IsFiniteSet(S)
  PROVE  /\ \A i \in S : Place(S, i) \in 1 .. Cardinality(S)
         /\ \A i, j \in S : i < j => Place(S, i) < Place(S, j)
         /\ \A n \in 1 .. Cardinality(S) : \E i \in S : Place(S, i) = n
<1> DEFINE Upto(i) == {j \in S : j <= i}
           N == Cardinality(S)
           at == [i \in S |-> Place(S, i)]
<1>1. ASSUME NEW i \in S
      PROVE  /\ IsFiniteSet(Upto(i)) /\ Upto(i) \in SUBSET S
             /\ Place(S, i) \in 1 .. N
  <2>1. Upto(i) \in SUBSET S /\ i \in Upto(i)
    OBVIOUS
  <2>2. IsFiniteSet(Upto(i)) /\ Cardinality(Upto(i)) <= N
    BY <2>1, FS_Subset
  <2>3. Cardinality(Upto(i)) \in Nat /\ Cardinality(Upto(i)) # 0 /\ N \in Nat
    BY <2>1, <2>2, FS_CardinalityType, FS_EmptySet
  <2> QED BY <2>1, <2>2, <2>3 DEF Place
<1>2. ASSUME NEW i \in S, NEW j \in S, i < j PROVE Place(S, i) < Place(S, j)
  <2>0. i \in Int /\ j \in Int
    OBVIOUS
  <2>1. Upto(i) \in SUBSET Upto(j) /\ j \in Upto(j) /\ j \notin Upto(i)
    <3>1. \A k \in S : k \in Int
      OBVIOUS
    <3>2. \A k \in S : k <= i => k <= j
      BY <1>2, <2>0, <3>1
    <3>3. ~(j <= i) /\ j <= j
      BY <1>2, <2>0
    <3> QED BY <3>2, <3>3
  <2>2. /\ Cardinality(Upto(i)) <= Cardinality(Upto(j))
        /\ Cardinality(Upto(i)) # Cardinality(Upto(j))
    <3> HIDE DEF Upto
    <3> QED BY <2>1, <1>1, FS_Subset
  <2>3. Cardinality(Upto(i)) \in Nat /\ Cardinality(Upto(j)) \in Nat
    BY <1>1, FS_CardinalityType
  <2> QED BY <2>2, <2>3 DEF Place
<1>3. ASSUME NEW n \in 1 .. N PROVE \E i \in S : Place(S, i) = n
  <2>1. N \in Nat
    BY FS_CardinalityType
  <2>2. IsFiniteSet(1 .. N) /\ Cardinality(1 .. N) = N
    BY <2>1, FS_Interval
  <2>3. at \in [S -> 1 .. N]
    BY <1>1
  <2>4. \A i, j \in S : at[i] = at[j] => i = j
    <3>1. SUFFICES ASSUME NEW i \in S, NEW j \in S, Place(S, i) = Place(S, j)
                   PROVE  i = j
      OBVIOUS
    <3>2. Place(S, i) \in Nat
      <4>1. Place(S, i) \in 1 .. N
        BY <1>1
      <4> QED BY <4>1, <2>1
    <3>3. ~(i < j) /\ ~(j < i)
      BY <1>2, <3>1, <3>2
    <3> QED BY <3>3
  <2>5. at \in Injection(S, 1 .. N)
    <3>1. IsInjective(at)
      BY <2>3, <2>4 DEF IsInjective
    <3> QED BY <2>3, <3>1 DEF Injection
  <2>6. at \in Surjection(S, 1 .. N)
    BY <2>2, <2>5, FS_Injection
  <2> QED BY <2>6 DEF Surjection
<1> QED BY <1>1, <1>2, <1>3

\* AltClocks() is a function of the zones looked at, defined from itself by leaving
\* out the last one; Clocks is one step of it.
Clocks(now, local, zones, f) ==
  [S \in SUBSET DOMAIN zones |->
     IF S = {} THEN <<>>
     ELSE AddClock(now, local, f[S \ {Max(S)}], zones[Max(S)])]

\* A zone has a clock, and one that is not the local one.
Asked(now, local, zones, i) == ~zones[i].long /\ Clock(now, zones[i]) # Clock(now, local)

\* Of the zones of S, those to show; and the clocks of some zones, in order.
Wanted(now, local, zones, S) ==
  {i \in S : /\ Asked(now, local, zones, i)
             /\ \A j \in S : Asked(now, local, zones, j) /\ j < i =>
                  ~Within(Clock(now, zones[i]), Clock(now, zones[j]))}
Row(now, zones, W) ==
  [n \in 1 .. Cardinality(W) |-> Clock(now, zones[CHOOSE i \in W : Place(W, i) = n])]

\* Max is the largest of some numbers.
LEMMA LargestOf ==
  ASSUME NEW n \in Nat, NEW S \in SUBSET (1 .. n), S # {}
  PROVE  Max(S) \in S /\ \A i \in S : i <= Max(S)
<1> DEFINE T == {n - i : i \in S}
<1>1. T \subseteq Nat /\ T # {}
  <2>1. ASSUME NEW i \in S PROVE n - i \in Nat
    <3>1. i \in 1 .. n
      OBVIOUS
    <3> QED
      BY <3>1
  <2>2. PICK i : i \in S
    OBVIOUS
  <2>3. n - i \in T
    BY <2>2
  <2> QED
    BY <2>1, <2>3, Zenon
<1>2. PICK t \in T : \A u \in T : t <= u
  <2> HIDE DEF T
  <2> QED
    BY <1>1, Smallest
<1>3. PICK i \in S : t = n - i
  OBVIOUS
<1>4. \A j \in S : i >= j
  BY <1>2, <1>3
<1>5. Max(S) \in S /\ \A y \in S : Max(S) >= y
  BY <1>4 DEF Max
<1> QED
  BY <1>5

\* A row shows the clocks of its zones, and nothing else.
LEMMA RowShows ==
  ASSUME NEW now, NEW zones, NEW W \in SUBSET Nat, IsFiniteSet(W)
  PROVE  ToSet(Row(now, zones, W)) = {Clock(now, zones[i]) : i \in W}
<1> DEFINE N == Cardinality(W)
           at(n) == CHOOSE i \in W : Place(W, i) = n
<1>1. \A n \in 1 .. N : at(n) \in W /\ Place(W, at(n)) = n
  BY Places
<1>2. ASSUME NEW i \in W PROVE Place(W, i) \in 1 .. N /\ at(Place(W, i)) = i
  <2>1. Place(W, i) \in 1 .. N /\ N \in Nat
    BY Places, FS_CardinalityType
  <2> DEFINE j == at(Place(W, i))
  <2>2. j \in W /\ Place(W, j) = Place(W, i)
    BY <1>1, <2>1
  <2>3. i < j => Place(W, i) < Place(W, j)
    <3> HIDE DEF j
    <3> QED
      BY <2>2, Places
  <2>4. j < i => Place(W, j) < Place(W, i)
    <3> HIDE DEF j
    <3> QED
      BY <2>2, Places
  <2>5. ~(i < j) /\ ~(j < i)
    <3> HIDE DEF j
    <3> QED
      BY <2>1, <2>2, <2>3, <2>4
  <2>6. i = j
    <3>1. i \in Nat /\ j \in Nat
      BY <2>2
    <3> HIDE DEF j
    <3> QED
      BY <2>5, <3>1
  <2> QED
    BY <2>1, <2>6
<1>3. ToSet(Row(now, zones, W)) = {Clock(now, zones[at(n)]) : n \in 1 .. N}
  BY DEF ToSet, Row
<1> HIDE DEF at, N
<1> QED
  BY <1>1, <1>2, <1>3

\* A later zone comes last.
LEMMA RowGrows ==
  ASSUME NEW now, NEW zones, NEW W \in SUBSET Nat, IsFiniteSet(W), NEW x \in Nat,
         \A i \in W : i < x
  PROVE  Row(now, zones, W \cup {x}) = Append(Row(now, zones, W), Clock(now, zones[x]))
<1> DEFINE V == W \cup {x}
           N == Cardinality(W)
           r == Row(now, zones, W)
           q == Row(now, zones, V)
<1>1. x \notin W /\ V \in SUBSET Nat
  OBVIOUS
<1>2. IsFiniteSet(V) /\ Cardinality(V) = N + 1 /\ N \in Nat
  BY <1>1, FS_AddElement, FS_CardinalityType
<1>3. ASSUME NEW i \in W PROVE Place(V, i) = Place(W, i)
  <2>1. {j \in V : j <= i} = {j \in W : j <= i}
    <3>1. i < x /\ i \in Nat
      OBVIOUS
    <3>2. ~(x <= i)
      BY <3>1
    <3> QED
      BY <3>2
  <2> QED
    BY <2>1 DEF Place
<1>4. Place(V, x) = N + 1
  <2>1. {j \in V : j <= x} = V
    <3>1. \A j \in V : j <= x
      OBVIOUS
    <3> HIDE DEF V
    <3> QED
      BY <3>1
  <2> HIDE DEF V
  <2> QED
    BY <1>2, <2>1 DEF Place
<1> HIDE DEF V
<1>5. ASSUME NEW i \in V, NEW j \in V, Place(V, i) = Place(V, j) PROVE i = j
  <2>1. i < j => Place(V, i) < Place(V, j)
    BY <1>1, <1>2, Places
  <2>2. j < i => Place(V, j) < Place(V, i)
    BY <1>1, <1>2, Places
  <2>3. Place(V, i) \in 1 .. N + 1 /\ i \in Nat /\ j \in Nat
    BY <1>1, <1>2, Places
  <2>4. ~(i < j) /\ ~(j < i)
    BY <1>2, <1>5, <2>1, <2>2, <2>3
  <2> QED
    BY <2>3, <2>4
<1>6. ASSUME NEW n \in 1 .. N
      PROVE  (CHOOSE i \in V : Place(V, i) = n) = CHOOSE i \in W : Place(W, i) = n
  <2> DEFINE c == CHOOSE i \in W : Place(W, i) = n
             d == CHOOSE i \in V : Place(V, i) = n
  <2>1. c \in W /\ Place(W, c) = n
    BY Places
  <2>2. c \in V /\ Place(V, c) = n
    BY <1>3, <2>1 DEF V
  <2>3. d \in V /\ Place(V, d) = n
    BY <2>2
  <2> HIDE DEF c, d
  <2>4. d = c
    BY <1>5, <2>2, <2>3
  <2> QED
    BY <2>4 DEF c, d
<1>7. (CHOOSE i \in V : Place(V, i) = N + 1) = x
  <2> DEFINE d == CHOOSE i \in V : Place(V, i) = N + 1
  <2>1. x \in V
    BY DEF V
  <2>2. d \in V /\ Place(V, d) = N + 1
    BY <1>4, <2>1
  <2> HIDE DEF d
  <2>3. d = x
    BY <1>4, <1>5, <2>1, <2>2
  <2> QED
    BY <2>3 DEF d
<1>8. /\ q = [n \in 1 .. N + 1 |-> Clock(now, zones[CHOOSE i \in V : Place(V, i) = n])]
      /\ r = [n \in 1 .. N |-> Clock(now, zones[CHOOSE i \in W : Place(W, i) = n])]
  BY <1>2 DEF Row
<1> DEFINE X == {Clock(now, zones[CHOOSE i \in W : Place(W, i) = n]) : n \in 1 .. N}
             \cup {Clock(now, zones[x])}
<1>9. r \in Seq(X) /\ Len(r) = N /\ Clock(now, zones[x]) \in X
  <2>1. \A n \in 1 .. N : r[n] \in X
    <3> SUFFICES ASSUME NEW n \in 1 .. N PROVE r[n] \in X
      OBVIOUS
    <3>1. r[n] = Clock(now, zones[CHOOSE i \in W : Place(W, i) = n])
      BY <1>8, Zenon
    <3> QED
      BY <3>1, Zenon
  <2>2. r = [n \in 1 .. N |-> r[n]]
    BY <1>8
  <2> HIDE DEF r, X
  <2>3. r \in [1 .. N -> X]
    BY <2>1, <2>2
  <2>4. r \in Seq(X) /\ Len(r) = N
    BY <1>2, <2>3, SeqDef, LenProperties
  <2> QED
    BY <2>4 DEF X
<1> DEFINE a == Append(r, Clock(now, zones[x]))
<1>10. /\ a \in Seq(X) /\ Len(a) = N + 1
       /\ \A n \in 1 .. N : a[n] = r[n]
       /\ a[N + 1] = Clock(now, zones[x])
  <2> HIDE DEF r, X
  <2> QED
    BY <1>9, AppendProperties
<1>11. DOMAIN a = 1 .. N + 1 /\ a = [n \in 1 .. N + 1 |-> a[n]]
  <2> HIDE DEF a, X
  <2> QED
    BY <1>2, <1>10, LenProperties
<1>12. \A n \in 1 .. N + 1 : q[n] = a[n]
  <2> SUFFICES ASSUME NEW n \in 1 .. N + 1 PROVE q[n] = a[n]
    OBVIOUS
  <2>1. CASE n = N + 1
    <3>1. q[N + 1] = Clock(now, zones[x])
      <4>1. N + 1 \in 1 .. N + 1
        BY <1>2
      <4>2. q[N + 1] = Clock(now, zones[CHOOSE i \in V : Place(V, i) = N + 1])
        BY <1>8, <4>1, Zenon
      <4> QED
        BY <1>7, <4>2, Zenon
    <3> HIDE DEF q, a, r
    <3> QED
      BY <1>10, <2>1, <3>1
  <2>2. CASE n # N + 1
    <3>1. n \in 1 .. N
      BY <1>2, <2>2
    <3>2. q[n] = r[n]
      BY <1>6, <1>8, <3>1
    <3> HIDE DEF q, a, r
    <3> QED
      BY <1>10, <3>1, <3>2
  <2> QED
    BY <2>1, <2>2
<1>13. q = [n \in 1 .. N + 1 |-> q[n]]
  BY <1>8
<1> HIDE DEF q, a, r, X
<1>14. q = a
  BY <1>11, <1>12, <1>13
<1> QED
  BY <1>14 DEF q, a, r, V

\* What a beginning begins with is a beginning too.
LEMMA PrefixTransitive ==
  ASSUME NEW Parts, NEW p \in Seq(Parts), NEW q \in Seq(Parts), NEW r \in Seq(Parts),
         IsPrefix(p, q), IsPrefix(q, r)
  PROVE  IsPrefix(p, r)
<1>1. Len(p) \in Nat /\ Len(q) \in Nat /\ Len(r) \in Nat
  BY LenProperties
<1>2. Len(p) <= Len(q) /\ Len(q) <= Len(r)
  BY DEF IsPrefix
<1>3. ASSUME NEW s \in Seq(Parts), NEW t \in Seq(Parts), Len(s) <= Len(t)
      PROVE  IsPrefix(s, t) <=> \A i \in 1 .. Len(s) : s[i] = t[i]
  <2>1. Len(s) \in Nat /\ Len(t) \in Nat
    BY LenProperties
  <2>2. /\ SubSeq(s, 1, Len(s)) \in Seq(Parts) /\ SubSeq(t, 1, Len(s)) \in Seq(Parts)
        /\ Len(SubSeq(s, 1, Len(s))) = Len(s) /\ Len(SubSeq(t, 1, Len(s))) = Len(s)
        /\ \A i \in 1 .. Len(s) : SubSeq(s, 1, Len(s))[i] = s[i] /\ SubSeq(t, 1, Len(s))[i] = t[i]
    <3>1. \A u \in Seq(Parts) : Len(u) >= Len(s) =>
            /\ SubSeq(u, 1, Len(s)) \in Seq(Parts)
            /\ Len(SubSeq(u, 1, Len(s))) = Len(s)
            /\ \A i \in 1 .. Len(s) : SubSeq(u, 1, Len(s))[i] = u[i]
      <4>1. TAKE u \in Seq(Parts)
      <4>2. HAVE Len(u) >= Len(s)
      <4>3. Len(u) \in Nat /\ \A i \in 1 .. Len(u) : u[i] \in Parts
        BY LenProperties, ElementOfSeq
      <4>4. \A i \in 1 .. Len(s) : u[i] \in Parts
        BY <2>1, <4>2, <4>3
      <4>5. /\ SubSeq(u, 1, Len(s)) \in Seq(Parts)
            /\ Len(SubSeq(u, 1, Len(s))) = IF 1 <= Len(s) THEN Len(s) - 1 + 1 ELSE 0
            /\ \A i \in 1 .. Len(s) - 1 + 1 : SubSeq(u, 1, Len(s))[i] = u[1 + i - 1]
        BY <2>1, <4>4, SubSeqProperties
      <4> QED BY <2>1, <4>5
    <3>2. Len(s) >= Len(s) /\ Len(t) >= Len(s)
      BY <1>3, <2>1
    <3> QED BY <3>1, <3>2
  <2>3. IsPrefix(s, t) <=> SubSeq(s, 1, Len(s)) = SubSeq(t, 1, Len(s))
    BY <1>3 DEF IsPrefix
  <2> QED BY <2>1, <2>2, <2>3, SeqEqual
<1>4. Len(p) <= Len(r)
  BY <1>1, <1>2
<1>5. /\ \A i \in 1 .. Len(p) : p[i] = q[i]
      /\ \A i \in 1 .. Len(q) : q[i] = r[i]
  BY <1>2, <1>3
<1>6. \A i \in 1 .. Len(p) : p[i] = r[i]
  BY <1>1, <1>2, <1>5
<1> QED BY <1>3, <1>4, <1>6

\* A clock that is found in one that is found in a third is found in that.
LEMMA WithinTransitive ==
  ASSUME NEW now, NEW z1, NEW z2, NEW z3,
         z1.name \in Seq(STRING), z2.name \in Seq(STRING), z3.name \in Seq(STRING),
         Within(Clock(now, z1), Clock(now, z2)), Within(Clock(now, z2), Clock(now, z3))
  PROVE  Within(Clock(now, z1), Clock(now, z3))
<1> DEFINE Parts == STRING \cup {"UTC"}
           n1 == Clock(now, z1).name
           n2 == Clock(now, z2).name
           n3 == Clock(now, z3).name
<1>1. ASSUME NEW z, z.name \in Seq(STRING)
      PROVE  Clock(now, z).name \in Seq(Parts)
  <2>1. /\ Len(z.name) \in Nat /\ DOMAIN z.name = 1 .. Len(z.name)
        /\ \A i \in DOMAIN z.name : z.name[i] \in STRING
    BY <1>1, LenProperties, ElementOfSeq
  <2>2. \A i \in 1 .. Len(z.name) :
          (IF z.name[i] = "GMT" THEN "UTC" ELSE z.name[i]) \in Parts
    <3>1. "UTC" \in Parts /\ STRING \subseteq Parts
      OBVIOUS
    <3>2. \A i \in 1 .. Len(z.name) : z.name[i] \in STRING
      BY <2>1
    <3> HIDE DEF Parts
    <3> QED
      BY <3>1, <3>2, Zenon
  <2>3. Clock(now, z).name =
          [i \in 1 .. Len(z.name) |-> IF z.name[i] = "GMT" THEN "UTC" ELSE z.name[i]]
    BY <2>1 DEF Clock
  <2>4. Clock(now, z).name \in [1 .. Len(z.name) -> Parts]
    BY <2>2, <2>3
  <2>5. Clock(now, z).name \in UNION {[1 .. k -> Parts] : k \in Nat}
    BY <2>1, <2>4, Zenon
  <2> QED BY <2>5, SeqDef, Zenon
<1>2. n1 \in Seq(Parts) /\ n2 \in Seq(Parts) /\ n3 \in Seq(Parts)
  BY <1>1
<1>3. Clock(now, z1).hour = Clock(now, z3).hour /\ IsPrefix(n1, n2) /\ IsPrefix(n2, n3)
  BY DEF Within
<1> HIDE DEF n1, n2, n3
<1>4. IsPrefix(n1, n3)
  BY <1>2, <1>3, PrefixTransitive
<1> QED BY <1>3, <1>4 DEF Within, n1, n3

\* What of the zones S are wanted (V) beside what of those but x are (W): the same,
\* if x is not asked for or found in one of W, and x more otherwise.
Grown(now, local, zones, x, V, W) ==
  /\ W \in SUBSET Nat /\ \A i \in W : i < x
  /\ ~Asked(now, local, zones, x) => V = W
  /\ (\E i \in W : Within(Clock(now, zones[x]), Clock(now, zones[i]))) => V = W
  /\ Asked(now, local, zones, x)
     /\ ~(\E i \in W : Within(Clock(now, zones[x]), Clock(now, zones[i]))) =>
       V = W \cup {x}

\* The last of some zones is wanted if it is not too long, and neither the local
\* clock shows the same nor is it found in an earlier one.
LEMMA WantedGrows ==
  ASSUME NEW now, NEW local, NEW zones, NEW S, NEW x, S \in SUBSET Nat, x \in S,
         NEW V, NEW W, \A i \in S : i <= x, \A i \in S : zones[i].name \in Seq(STRING),
         V = Wanted(now, local, zones, S), W = Wanted(now, local, zones, S \ {x})
  PROVE  Grown(now, local, zones, x, V, W)
<1> DEFINE R == S \ {x}
           asked(i) == Asked(now, local, zones, i)
           in(i, j) == Within(Clock(now, zones[i]), Clock(now, zones[j]))
<1>1. \A i \in R : i < x /\ i \in Nat /\ x \in Nat
  OBVIOUS
<1>2. /\ \A i : i \in W <=> i \in R /\ asked(i) /\ \A j \in R : asked(j) /\ j < i => ~in(i, j)
      /\ \A i : i \in V <=> i \in S /\ asked(i) /\ \A j \in S : asked(j) /\ j < i => ~in(i, j)
  BY Zenon DEF Wanted
<1>3. \A i : i \in S <=> i \in R \/ i = x
  OBVIOUS
<1>0. \A i, j, k \in S : in(i, j) /\ in(j, k) => in(i, k)
  BY WithinTransitive
<1> HIDE DEF asked, in, R
<1>4. \A i \in R : ~(x < i) /\ i # x
  BY <1>1
<1>5. \A i \in R : i \in V <=> i \in W
  BY <1>2, <1>3, <1>4, Zenon
<1>6. x \in V <=> asked(x) /\ \A j \in R : asked(j) => ~in(x, j)
  <2>1. ~(x < x)
    BY <1>1
  <2> QED
    BY <1>1, <1>2, <1>3, <2>1
<1>7. x \notin W
  BY <1>2, <1>4
<1>8. ASSUME NEW j \in R, asked(j), in(x, j)
      PROVE  \E i \in W : in(x, i)
  <2> DEFINE T == {k \in R : asked(k) /\ in(x, k)}
  <2>1. j \in T /\ T \subseteq Nat
    BY <1>1, <1>8
  <2>2. PICK i \in T : \A k \in T : i <= k
    <3> HIDE DEF T
    <3> QED
      BY <2>1, Smallest
  <2>3. i \in R /\ asked(i) /\ in(x, i)
    BY <2>2
  <2>4. \A k \in R : asked(k) /\ k < i => ~in(i, k)
    <3> SUFFICES ASSUME NEW k \in R, asked(k), k < i, in(i, k) PROVE FALSE
      OBVIOUS
    <3>1. in(x, k)
      BY <1>0, <1>3, <2>3
    <3>2. k \in T
      BY <3>1
    <3>3. i <= k
      BY <2>2, <3>2
    <3>4. i \in Nat /\ k \in Nat
      BY <1>1, <2>3
    <3> QED
      BY <3>3, <3>4
  <2>5. i \in W
    BY <1>2, <2>3, <2>4
  <2> QED
    BY <2>3, <2>5
<1>9. x \in V <=> asked(x) /\ \A i \in W : ~in(x, i)
  <2>1. \A i \in W : i \in R /\ asked(i)
    BY <1>2
  <2> QED
    BY <1>6, <1>8, <2>1
<1>10. V = IF x \in V THEN W \cup {x} ELSE W
  <2>1. \A i : i \in V => i \in R \/ i = x
    BY <1>2, <1>3
  <2>2. \A i : i \in W => i \in R
    BY <1>2
  <2>3. CASE x \in V
    <3>1. V = W \cup {x}
      BY <1>5, <2>1, <2>2, <2>3
    <3> QED
      BY <2>3, <3>1
  <2>4. CASE x \notin V
    <3>1. V = W
      BY <1>5, <2>1, <2>2, <2>4
    <3> QED
      BY <2>4, <3>1
  <2> QED
    BY <2>3, <2>4
<1>11. W \in SUBSET Nat /\ \A i \in W : i < x
  BY <1>1, <1>2
<1>12. /\ ~asked(x) => V = W
       /\ (\E i \in W : in(x, i)) => V = W
       /\ asked(x) /\ ~(\E i \in W : in(x, i)) => V = W \cup {x}
  BY <1>9, <1>10
<1> QED
  BY <1>11, <1>12 DEF asked, in, R, Grown

\* No zone, no clock.
LEMMA RowOfNone == ASSUME NEW now, NEW zones PROVE Row(now, zones, {}) = <<>>
<1>1. Cardinality({}) = 0
  BY FS_EmptySet
<1>2. 1 .. 0 = {}
  OBVIOUS
<1>3. Row(now, zones, {}) =
        [n \in {} |-> Clock(now, zones[CHOOSE i \in {} : Place({}, i) = n])]
  BY <1>1, <1>2 DEF Row
<1>4. [n \in {} |-> Clock(now, zones[CHOOSE i \in {} : Place({}, i) = n])] = <<>>
  OBVIOUS
<1> QED
  BY <1>3, <1>4

\* Looking at one more zone shows its clock if it is wanted.
LEMMA AddedIsRow ==
  ASSUME NEW now, NEW local, NEW zones, NEW n \in Nat, NEW S \in SUBSET (1 .. n), S # {},
         \A i \in 1 .. n : zones[i].name \in Seq(STRING) /\ Clock(now, zones[i]) # None
  PROVE  AddClock(now, local, Row(now, zones, Wanted(now, local, zones, S \ {Max(S)})),
                  zones[Max(S)])
         = Row(now, zones, Wanted(now, local, zones, S))
<1> DEFINE x == Max(S)
           R == S \ {x}
           W == Wanted(now, local, zones, R)
           V == Wanted(now, local, zones, S)
           shown == Row(now, zones, W)
           c == Clock(now, zones[x])
           here == Clock(now, local)
<1>1. x \in S /\ \A i \in S : i <= x
  BY LargestOf
<1> HIDE DEF x
<1>2. S \in SUBSET Nat /\ x \in Nat
  <2>1. \A i \in 1 .. n : i \in Nat
    OBVIOUS
  <2> QED
    BY <1>1, <2>1
<1>3. /\ W \in SUBSET Nat /\ \A i \in W : i < x
      /\ zones[x].long => V = W
      /\ c = here => V = W
      /\ (\E i \in W : Within(c, Clock(now, zones[i]))) => V = W
      /\ ~zones[x].long /\ c # here /\ ~(\E i \in W : Within(c, Clock(now, zones[i]))) =>
           V = W \cup {x}
  <2>1. V = Wanted(now, local, zones, S) /\ W = Wanted(now, local, zones, S \ {x})
    BY Zenon
  <2> HIDE DEF V, W, R, c
  <2>2. \A i \in S : zones[i].name \in Seq(STRING)
    OBVIOUS
  <2>4. V = Wanted(now, local, zones, S)
    BY <2>1
  <2>5. W = Wanted(now, local, zones, S \ {x})
    BY <2>1
  <2>6. x \in S
    BY <1>1
  <2>7. \A i \in S : i <= x
    BY <1>1
  <2>3. Grown(now, local, zones, x, V, W)
    BY <1>2, <2>2, <2>4, <2>5, <2>6, <2>7, WantedGrows, Zenon
  <2> QED
    BY <2>3 DEF c, Asked, Grown
<1>4. IsFiniteSet(W)
  <2>1. W \subseteq 1 .. n
    BY DEF Wanted
  <2>2. IsFiniteSet(1 .. n)
    <3>1. 1 \in Int /\ n \in Int
      OBVIOUS
    <3> QED
      BY <3>1, FS_Interval
  <2> HIDE DEF W
  <2> QED
    BY <2>1, <2>2, FS_Subset
<1>5. ToSet(shown) = {Clock(now, zones[i]) : i \in W}
  <2> HIDE DEF W
  <2> QED
    BY <1>3, <1>4, RowShows
<1>6. Row(now, zones, W \cup {x}) = Append(shown, c)
  <2> HIDE DEF W
  <2> QED
    BY <1>2, <1>3, <1>4, RowGrows
<1>7. c # None
  BY <1>1
<1> DEFINE text == IF zones[x].long THEN None ELSE c
<1>8. AddClock(now, local, shown, zones[x]) =
        IF text \in {None, here} \/ \E other \in ToSet(shown) : Within(text, other)
        THEN shown ELSE Append(shown, text)
  BY Zenon DEF AddClock, tzstrftime
<1> HIDE DEF V, W, c, here
<1>9. AddClock(now, local, shown, zones[x]) = Row(now, zones, V)
  <2>1. CASE zones[x].long \/ c = here
    <3>1. V = W
      BY <1>3, <2>1
    <3>2. text \in {None, here}
      BY <2>1
    <3> QED
      BY <1>8, <3>1, <3>2, Zenon
  <2>2. ASSUME ~zones[x].long, c # here, NEW i \in W, Within(c, Clock(now, zones[i]))
        PROVE  AddClock(now, local, shown, zones[x]) = Row(now, zones, V)
    <3>1. V = W
      BY <1>3, <2>2
    <3>2. \E other \in ToSet(shown) : Within(text, other)
      <4>1. Clock(now, zones[i]) \in ToSet(shown)
        BY <1>5, <2>2
      <4>2. text = c
        BY <2>2
      <4> QED BY <2>2, <4>1, <4>2, Zenon
    <3> QED
      BY <1>8, <3>1, <3>2, Zenon
  <2>3. CASE ~zones[x].long /\ c # here /\ ~(\E i \in W : Within(c, Clock(now, zones[i])))
    <3>1. V = W \cup {x}
      BY <1>3, <2>3
    <3>2. text = c /\ ~(text \in {None, here})
      BY <1>7, <2>3
    <3>3. ~(\E other \in ToSet(shown) : Within(text, other))
      BY <1>5, <2>3, <3>2
    <3>4. AddClock(now, local, shown, zones[x]) = Append(shown, c)
      BY <1>8, <3>2, <3>3, Zenon
    <3> QED
      BY <1>6, <3>1, <3>4, Zenon
  <2> QED
    BY <2>1, <2>2, <2>3
<1> QED
  BY <1>9 DEF x, V, W

\* The clocks shown of the zones looked at so far are those wanted of them.
LEMMA FoldIsRow ==
  ASSUME NEW now, NEW local, NEW zones, NEW n \in Nat, DOMAIN zones = 1 .. n,
         \A i \in 1 .. n : zones[i].name \in Seq(STRING) /\ Clock(now, zones[i]) # None
  PROVE  FoldLeft(LAMBDA shown, zone : AddClock(now, local, shown, zone), <<>>, zones)
         = Row(now, zones, Wanted(now, local, zones, 1 .. n))
<1> DEFINE g == [S \in SUBSET (1 .. n) |-> Row(now, zones, Wanted(now, local, zones, S))]
<1>1. Wanted(now, local, zones, {}) = {}
  BY DEF Wanted
<1>2. g[{}] = <<>>
  BY <1>1, RowOfNone
<1>3. ASSUME NEW S \in SUBSET (1 .. n), S # {}
      PROVE  g[S] = AddClock(now, local, g[S \ {Max(S)}], zones[Max(S)])
  <2>1. g[S \ {Max(S)}] = Row(now, zones, Wanted(now, local, zones, S \ {Max(S)}))
    <3>1. S \ {Max(S)} \in SUBSET (1 .. n)
      OBVIOUS
    <3> QED
      BY <3>1, Zenon
  <2>2. g[S] = Row(now, zones, Wanted(now, local, zones, S))
    BY Zenon
  <2>3. AddClock(now, local, Row(now, zones, Wanted(now, local, zones, S \ {Max(S)})),
                  zones[Max(S)])
         = Row(now, zones, Wanted(now, local, zones, S))
    BY <1>3, AddedIsRow
  <2> QED
    BY <2>1, <2>2, <2>3, Zenon
<1>4. g = [S \in SUBSET (1 .. n) |-> g[S]]
  BY Zenon
<1> HIDE DEF g
<1>5. g = Clocks(now, local, zones, g)
  <2>1. \A S \in SUBSET (1 .. n) :
          g[S] = IF S = {} THEN <<>>
                 ELSE AddClock(now, local, g[S \ {Max(S)}], zones[Max(S)])
    BY <1>2, <1>3, Zenon
  <2>2. Clocks(now, local, zones, g) =
          [S \in SUBSET (1 .. n) |->
             IF S = {} THEN <<>>
             ELSE AddClock(now, local, g[S \ {Max(S)}], zones[Max(S)])]
    BY Zenon DEF Clocks
  <2> QED
    BY <1>4, <2>1, <2>2, Zenon
<1> DEFINE f == CHOOSE h : h = Clocks(now, local, zones, h)
<1>6. f = Clocks(now, local, zones, f)
  BY <1>5, Zenon
<1> HIDE DEF f
<1>7. /\ f = [S \in SUBSET (1 .. n) |-> f[S]]
      /\ \A S \in SUBSET (1 .. n) :
           f[S] = IF S = {} THEN <<>>
                  ELSE AddClock(now, local, f[S \ {Max(S)}], zones[Max(S)])
  <2> DEFINE step(S) == IF S = {} THEN <<>>
                        ELSE AddClock(now, local, f[S \ {Max(S)}], zones[Max(S)])
  <2>1. f = [S \in SUBSET (1 .. n) |-> step(S)]
    BY <1>6, Zenon DEF Clocks
  <2> HIDE DEF step
  <2>2. /\ f = [S \in SUBSET (1 .. n) |-> f[S]]
        /\ \A S \in SUBSET (1 .. n) : f[S] = step(S)
    BY <2>1
  <2> QED
    BY <2>2 DEF step
<1>8. ASSUME NEW S \in SUBSET (1 .. n)
      PROVE  IsFiniteSet(S) /\ Cardinality(S) \in Nat
  <2>1. IsFiniteSet(1 .. n)
    <3>1. 1 \in Int /\ n \in Int
      OBVIOUS
    <3> QED
      BY <3>1, FS_Interval
  <2> QED
    BY <2>1, FS_Subset, FS_CardinalityType
<1>9. \A S \in SUBSET (1 .. n) : f[S] = g[S]
  <2> DEFINE bad == {Cardinality(S) : S \in {T \in SUBSET (1 .. n) : f[T] # g[T]}}
  <2> SUFFICES ASSUME bad # {} PROVE FALSE
    OBVIOUS
  <2>1. bad \subseteq Nat
    BY <1>8
  <2>2. PICK k \in bad : \A m \in bad : k <= m
    <3> HIDE DEF bad
    <3> QED
      BY <2>1, Smallest
  <2>3. PICK S \in SUBSET (1 .. n) : f[S] # g[S] /\ Cardinality(S) = k
    OBVIOUS
  <2>4. S # {}
    BY <1>2, <1>7, <2>3
  <2>5. Max(S) \in S
    BY <2>4, LargestOf
  <2> DEFINE R == S \ {Max(S)}
  <2>6. R \in SUBSET (1 .. n)
    OBVIOUS
  <2>7. Cardinality(R) = k - 1 /\ k \in Nat
    BY <1>8, <2>3, <2>5, FS_RemoveElement
  <2>8. f[R] = g[R]
    <3> SUFFICES ASSUME f[R] # g[R] PROVE FALSE
      OBVIOUS
    <3>1. Cardinality(R) \in bad
      BY <2>6
    <3>2. k <= Cardinality(R)
      BY <2>2, <3>1
    <3> HIDE DEF R
    <3> QED
      BY <2>7, <3>2
  <2>9. f[S] = g[S]
    BY <1>3, <1>7, <2>4, <2>8, Zenon
  <2> QED
    BY <2>3, <2>9
<1> DEFINE folded == FoldLeft(LAMBDA shown, zone : AddClock(now, local, shown, zone), <<>>, zones)
<1>10. folded = f[1 .. n]
  <2>1. folded = f[DOMAIN zones]
    BY Zenon DEF FoldLeft, MapThenFoldSet, Clocks, f
  <2> HIDE DEF folded
  <2> QED
    BY <2>1
<1>11. 1 .. n \in SUBSET (1 .. n)
  OBVIOUS
<1>12. f[1 .. n] = g[1 .. n]
  BY <1>9, <1>11, Zenon
<1>13. g[1 .. n] = Row(now, zones, Wanted(now, local, zones, 1 .. n))
  BY <1>11, Zenon DEF g
<1> QED
  BY <1>10, <1>12, <1>13, Zenon

\* What a line says of the clocks.
ClocksInv ==
  /\ settings \in Settings
  /\ line # None =>
       line.clocks = AltClocks(settings.now, settings.local, settings.zones)

LEMMA NextClocks == ASSUME ClocksInv, [Next]_vars PROVE ClocksInv'
<1> USE DEF ClocksInv, worldVars
<1>1. CASE Show
  <2>1. settings' = settings
    BY <1>1 DEF Show
  <2>2. CASE line' = Text
    <3>1. Text.clocks = AltClocks(settings.now, settings.local, settings.zones)
      BY DEF Text
    <3> QED
      BY <2>1, <2>2, <3>1
  <2>3. CASE line' = line
    BY <2>1, <2>3
  <2> QED
    BY <1>1, <2>2, <2>3 DEF Show
<1>2. CASE Options \/ Stat \/ Load \/ Sleep \/ Wake \/ Check \/ ClearAndPause
  BY <1>2 DEF Options, Stat, Load, Sleep, Wake, Check, ClearAndPause
<1>3. CASE World
  BY <1>3 DEF World, Tick, Signal, Write, programVars
<1>4. CASE UNCHANGED vars
  BY <1>4 DEF vars, programVars
<1> QED
  BY <1>1, <1>2, <1>3, <1>4 DEF Next, Program

\* However many zones are asked for, whichever of them show the same, have names that
\* are too long or that begin another's, the clocks shown are those the usage promises
\* but for these last, each once and in order.
THEOREM ClocksOnceInOrderAlways == Spec => []ClocksOnceInOrder
<1>1. Init => ClocksInv
  BY DEF Init, ClocksInv
<1>2. ClocksInv => ClocksOnceInOrder
  <2> DEFINE zones == settings.zones
             Of(i) == Clock(settings.now, zones[i])
             asked == {i \in DOMAIN zones :
                         ~zones[i].long /\ Of(i) # Clock(settings.now, settings.local)}
             wanted == {i \in asked : \A j \in asked : j < i => ~Within(Of(i), Of(j))}
             n == Len(zones)
             row == [m \in 1 .. Cardinality(wanted) |->
                       Of(CHOOSE i \in wanted : Cardinality({j \in wanted : j <= i}) = m)]
  <2> SUFFICES ASSUME ClocksInv, line # None
               PROVE  IF Len(zones) = 1 /\ zones[1].name = <<"XXX">> THEN line.clocks = <<>>
                      ELSE line.clocks = row
    BY Zenon DEF ClocksOnceInOrder
  <2>1. line.clocks = AltClocks(settings.now, settings.local, zones)
    BY DEF ClocksInv
  <2>2. zones \in Seq(ToSet(zones)) /\ \A i \in DOMAIN zones : zones[i].name \in Seq(STRING) /\ Of(i) # None
    BY ZonesAssumption DEF ClocksInv
  <2>3. n \in Nat /\ DOMAIN zones = 1 .. n
    <3> HIDE DEF zones
    <3> QED
      BY <2>2, LenProperties
  <2>4. FoldLeft(LAMBDA shown, zone : AddClock(settings.now, settings.local, shown, zone),
                 <<>>, zones)
        = Row(settings.now, zones, Wanted(settings.now, settings.local, zones, 1 .. n))
    <3> HIDE DEF zones, n
    <3> QED
      BY <2>2, <2>3, FoldIsRow
  <2>5. Wanted(settings.now, settings.local, zones, 1 .. n) = wanted
    <3> HIDE DEF zones, n
    <3> QED
      BY <2>3, Zenon DEF Wanted, Asked
  <2>6. Row(settings.now, zones, wanted) = row
    BY Zenon DEF Row, Place
  <2>7. AltClocks(settings.now, settings.local, zones) =
          IF Len(zones) = 1 /\ zones[1].name = <<"XXX">> THEN <<>>
          ELSE FoldLeft(LAMBDA shown, zone :
                          AddClock(settings.now, settings.local, shown, zone), <<>>, zones)
    BY Zenon DEF AltClocks
  <2>8. AltClocks(settings.now, settings.local, zones) =
          IF Len(zones) = 1 /\ zones[1].name = <<"XXX">> THEN <<>> ELSE row
    BY <2>4, <2>5, <2>6, <2>7, Zenon
  <2> HIDE DEF row, zones
  <2> QED
    BY <2>1, <2>8
<1> QED
  BY <1>1, <1>2, NextClocks, PTL DEF Spec

=============================================================================
