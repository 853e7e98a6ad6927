------------------------------ MODULE StatusText ------------------------------
(***************************************************************************)
(* What statusline (src/desktop-environment/utilities/statusline.c) shows, *)
(* as functions of what it reads: the indicators of a file, the battery,   *)
(* the next sunrise or sunset, the moon and the clocks.                    *)
(*                                                                         *)
(* Times are whole hours since a midnight UTC, longitudes hours east of    *)
(* Greenwich, latitudes degrees.  The sun crosses the meridian at the same *)
(* time every day and its days have one length.  The phase of the moon is  *)
(* counted in 240ths of a cycle, 4 of which pass in twelve hours.          *)
(***************************************************************************)
EXTENDS Integers, SequencesExt

CONSTANT None \* nothing to show

-----------------------------------------------------------------------------
(* The file of indicators and the battery                                   *)

\* Lines up to the first one that does not fit, without the empty ones.  The
\* buffer is compared with one line at a time: files that exceed it with all
\* their lines are left out here.
load_indicators_from_file(lines) ==
  LET long == {i \in DOMAIN lines : lines[i] = "long"}
      fitting == IF long = {} THEN lines ELSE SubSeq(lines, 1, Min(long) - 1)
  IN SelectSeq(fitting, LAMBDA text : text # "")

\* A line is [key, value]: the capacity, if it is a number, or the status.
BatteryLine(found, line) ==
  IF line.key = "capacity"
  THEN IF line.value \in 0 .. 100 THEN [found EXCEPT !.percent = line.value] ELSE found
  ELSE IF line.value \in {"Charging", "Discharging"}
  THEN [found EXCEPT !.trend = line.value] ELSE found

\* A sign and a percentage.  The file may be missing or break off.
battery_indicator(file) ==
  LET found == FoldLeft(BatteryLine, [percent |-> -1, trend |-> ""], file.lines)
      sign == IF found.trend = "Charging" /\ found.percent < 100 THEN "up"
              ELSE IF found.trend = "Discharging" THEN "down" ELSE ""
  IN IF ~file.exists THEN <<"-">>
     ELSE IF found.percent = -1 THEN IF file.whole THEN <<"?">> ELSE <<"!">>
     ELSE <<sign, found.percent>>

-----------------------------------------------------------------------------
(* Coordinates: parts between commas, each one what strtod() reads, a number *)
(* or None after a sign, and perhaps a letter.  The range of the longitude,  *)
(* 180 degrees, is 12 hours.                                                 *)

\* The factor that a letter stands for; 0 without one.
SuffixSign(letter, negative, positive) ==
  IF letter = negative THEN -1 ELSE IF letter = positive THEN 1 ELSE 0

Coordinate(part, sign) ==
  (IF part.minus THEN -part.number ELSE part.number) * (IF sign = 0 THEN 1 ELSE sign)

\* The place, or None.
strtolatlong(text) ==
  IF Len(text) # 2 THEN None
  ELSE LET latsuffix == SuffixSign(text[1].letter, "S", "N")
           longsuffix == SuffixSign(text[2].letter, "W", "E")
           latitude == Coordinate(text[1], latsuffix)
           longitude == Coordinate(text[2], longsuffix)
           unknown == \E i \in {1, 2} :
                        text[i].letter \notin (IF i = 1 THEN {"", "S", "N"} ELSE {"", "W", "E"})
       IN IF \/ unknown \/ (latsuffix = 0) # (longsuffix = 0)
             \/ \E i \in {1, 2} : \/ text[i].number = None
                                  \/ text[i].letter # "" /\ text[i].minus
             \/ latitude \notin -90 .. 90 \/ longitude \notin -12 .. 12
          THEN None
          ELSE [latitude |-> IF latitude < -89 THEN -89 ELSE IF latitude > 89 THEN 89 ELSE latitude,
                longitude |-> longitude]

-----------------------------------------------------------------------------
(* The sun                                                                  *)

\* A bug of the kind the properties are for: midnight elsewhere.
MidnightUTC(when, offset, summer) == when - (when % 24)

\* Local midnight.  The structure given to mktime() does not say whether it is
\* summer time, but holds what was in memory: if that says yes, the result is
\* an hour early.
round_down_to_midnight(when, offset, summer) ==
  LET hour == (when + offset) % 24
  IN IF hour = 0 THEN when ELSE when - hour - (IF summer THEN 1 ELSE 0)

\* The sun's times on the day, in UTC, that a time belongs to; light is half
\* the length of a day.
sunrise_sunset_times(when, longitude, light) ==
  LET noon == (when - (when % 24)) + 12 - longitude
  IN [sunrise |-> noon - light, sunset |-> noon + light]

\* What comes next, as it is believed.
sunrise_sunset_info(when, offset, longitude, light, summer) ==
  LET midnight == round_down_to_midnight(when, offset, summer)
      today == sunrise_sunset_times(midnight, longitude, light)
      tomorrow == sunrise_sunset_times(
                    round_down_to_midnight(midnight + 36, offset, summer), longitude, light)
  IN IF today.sunset <= when THEN <<"sunrise", tomorrow.sunrise>>
     ELSE IF today.sunrise > when THEN <<"sunrise", today.sunrise>>
     ELSE <<"sunset", today.sunset>>

-----------------------------------------------------------------------------
(* The moon                                                                 *)

\* A sign within twelve hours of the new and the full moon, and one of eight
\* pictures.
moon_icon(phase, southern_hemisphere, invert) ==
  LET before == (phase - 4) % 240
      after == (phase + 4) % 240
      sign == IF (phase <= 120 /\ 120 <= after) \/ before > phase THEN "+"
              ELSE IF (before <= 120 /\ 120 <= phase) \/ after < phase THEN "-" ELSE ""
      nearest == ((8 * phase + 120) \div 240) % 8
      lit == IF invert THEN (nearest + 4) % 8 ELSE nearest
  IN <<sign, IF southern_hemisphere THEN (8 - lit) % 8 ELSE lit>>

-----------------------------------------------------------------------------
(* Clocks                                                                   *)

\* A bug of the kind the properties are for: the eleventh is like the first.
OrdinalPlain(day) ==
  <<day, IF day % 10 = 1 THEN "st" ELSE IF day % 10 = 2 THEN "nd"
         ELSE IF day % 10 = 3 THEN "rd" ELSE "th">>

\* The day of the month with its ending.
dow_with_ordinal_dom(day) ==
  <<day, IF day \in 11 .. 13 THEN "th"
         ELSE IF day % 10 = 1 THEN "st" ELSE IF day % 10 = 2 THEN "nd"
         ELSE IF day % 10 = 3 THEN "rd" ELSE "th">>

\* The time in a zone, and the zone's name with every GMT in it called UTC.  A name
\* is a sequence of parts, because one may begin with another.
Clock(now, zone) ==
  [hour |-> (now + zone.offset) % 24,
   name |-> [i \in DOMAIN zone.name |-> IF zone.name[i] = "GMT" THEN "UTC" ELSE zone.name[i]]]

\* It fails for a name that is too long.  TZ is afterwards what it was.
tzstrftime(now, zone) == IF zone.long THEN None ELSE Clock(now, zone)

\* strstr() finds a clock in the text of another that shows the same time and whose
\* name begins with its name, the same one included.
Within(clock, other) == clock.hour = other.hour /\ IsPrefix(clock.name, other.name)

\* One more clock, unless it shows what the local one does, or is found in the text
\* of those before it.
AddClockAlways(now, local, shown, zone) ==
  IF tzstrftime(now, zone) \in {None, Clock(now, local)} THEN shown
  ELSE Append(shown, tzstrftime(now, zone))

AddClock(now, local, shown, zone) ==
  IF \/ tzstrftime(now, zone) \in {None, Clock(now, local)}
     \/ \E other \in ToSet(shown) : Within(tzstrftime(now, zone), other)
  THEN shown
  ELSE Append(shown, tzstrftime(now, zone))

AltClocks(now, local, zones) ==
  IF Len(zones) = 1 /\ zones[1].name = <<"XXX">> THEN <<>>
  ELSE FoldLeft(LAMBDA shown, zone : AddClock(now, local, shown, zone), <<>>, zones)
=============================================================================
