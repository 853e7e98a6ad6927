----------------------------- MODULE MCStatusLine -----------------------------
(***************************************************************************)
(* statusline without options, running on and on, and single lines (-1)    *)
(* with every kind of option and surroundings.                             *)
(***************************************************************************)
EXTENDS StatusLine

Zone(name, offset) == [name |-> name, offset |-> offset, long |-> FALSE]
Zones == {Zone(<<"UTC">>, 0), Zone(<<"GMT">>, 0), Zone(<<"CKT">>, -10), Zone(<<"HST">>, -10),
          Zone(<<"HST", "D">>, -10), Zone(<<"HST", "D", "T">>, -10), Zone(<<"XXX">>, 0),
          [name |-> <<"long">>, offset |-> 1, long |-> TRUE]}

Battery(exists, whole, lines) == [exists |-> exists, whole |-> whole, lines |-> lines]
Capacity(n) == [key |-> "capacity", value |-> n]
State(s) == [key |-> "status", value |-> s]

Basic ==
  [run_once |-> FALSE, status_file |-> TRUE, signals |-> 3, coordinates |-> None, longitude |-> 0, light |-> 6, summer |-> FALSE,
   local |-> Zone(<<"HST">>, -10), zones |-> <<>>, now |-> 36, day |-> 1,
   battery |-> Battery(FALSE, FALSE, <<>>),
   phase |-> 60, southern |-> FALSE, invert |-> FALSE]
Once == [Basic EXCEPT !.run_once = TRUE, !.status_file = FALSE, !.signals = 0]

ClockSettings ==
  {[Once EXCEPT !.zones = z, !.local = l, !.now = n] :
     z \in UNION {[1 .. k -> Zones] : k \in 1 .. 3}, n \in {5}, l \in {Zone(<<"GMT">>, 0), Zone(<<"HST">>, -10), Zone(<<"HST", "D">>, -10)}}

\* A place and how it may be written.
Part(number, minus, letter) == [number |-> number, minus |-> minus, letter |-> letter]
Written(longitude) ==
  IF longitude < 0
  THEN {<<Part(50, FALSE, ""), Part(-longitude, TRUE, "")>>,
        <<Part(50, FALSE, "S"), Part(-longitude, FALSE, "W")>>}
  ELSE {<<Part(90, TRUE, ""), Part(longitude, FALSE, "")>>,
        <<Part(50, FALSE, "N"), Part(longitude, FALSE, "E")>>}

Malformed ==
  {<<Part(50, FALSE, "")>>, <<Part(None, FALSE, ""), Part(3, FALSE, "")>>,
   <<Part(50, FALSE, "N"), Part(3, FALSE, "")>>, <<Part(50, TRUE, "N"), Part(3, FALSE, "E")>>,
   <<Part(91, FALSE, ""), Part(3, FALSE, "")>>, <<Part(50, FALSE, "E"), Part(3, FALSE, "N")>>,
   <<Part(50, FALSE, ""), Part(13, TRUE, "")>>, <<Part(50, FALSE, "S"), Part(3, TRUE, "W")>>}

SunSettings ==
  UNION {{[Once EXCEPT !.coordinates = text, !.longitude = offset + east, !.now = n,
                       !.local = Zone(<<"local">>, offset), !.light = h, !.summer = s] :
            text \in Written(offset + east)} :
          offset \in {-11, -5, -1}, east \in {0, 1}, n \in 24 .. 47, h \in {4, 7},
          s \in BOOLEAN}
  \cup {[Once EXCEPT !.coordinates = text] : text \in Malformed}

\* The file of a battery names each key once at most.
BatteryLines ==
  {<<>>} \cup {<<Capacity(n)>> : n \in {0, 100, 101}}
  \cup UNION {{<<State(s), Capacity(n)>>, <<Capacity(n), State(s)>>} :
               s \in {"Charging", "Discharging", "Full"}, n \in {0, 99, 100, 101, -1}}

\* Every phase of the moon and every day of a month.
OtherSettings ==
  {[Once EXCEPT !.phase = p, !.southern = s, !.invert = i] :
     p \in 0 .. 239, s \in BOOLEAN, i \in BOOLEAN}
  \cup {[Once EXCEPT !.day = d] : d \in 1 .. 31}
  \cup {[Once EXCEPT !.battery = Battery(TRUE, w, l)] : w \in BOOLEAN, l \in BatteryLines}

MCSettings == {Basic, [Basic EXCEPT !.run_once = TRUE]} \cup ClockSettings \cup SunSettings \cup OtherSettings

MCContents == <<<<"mail", "", "rain">>, <<"rain", "long", "mail">>>>
=============================================================================
