------------------------------- MODULE TimeFn -------------------------------
(***************************************************************************)
(* src/timefn.c: the clock in milliseconds and in seconds, and dates       *)
(* between milliseconds, fields and text; and the age test of              *)
(* src/filesystem.c, which asks the clock.  A date's number of             *)
(* milliseconds is the pair <<day, millisecond of the day>>, days counted  *)
(* from 1970.  A character of a text is a digit or one of the codes below. *)
(***************************************************************************)
EXTENDS Integers, Sequences

CONSTANTS
  LastSecond, \* bound: the clock runs from 0 to here, which is before an int
              \* begins again at 0 (2106)
  Nanos,      \* what tv_nsec is seen to be
  IntHalf,    \* an int goes from -IntHalf to IntHalf - 1 (2^31)
  Stamps      \* the dates that are formatted, of the years up to 54000
              \* before and after 1970

ASSUME TimeAssumption ==
  /\ LastSecond \in Nat /\ IntHalf \in Nat \ {0} /\ LastSecond < 2 * IntHalf
  /\ \A n \in Nanos : n \in Nat /\ n < 1000000000
  /\ \A t \in Stamps : /\ t \in Int \X Nat /\ t[2] < 86400000
                        /\ -20000000 < t[1] /\ t[1] < 20000000

Dash == 10
Sep  == 11   \* 'T'
Colon == 12

VARIABLES
  sec, ns,  \* the clock
  millis,   \* what timefn_getcurrentunixtimemillis returned last,
  readAt,    \* history: and the clock at that moment
  stamp,    \* a date,
  shown,    \* its text
  reading   \* and what timefn_parsetimetomillis makes of that

clock    == <<sec, ns, millis, readAt>>
dateVars == <<stamp, shown, reading>>
timeVars == <<clock, dateVars>>

(* An int that sscanf did not assign, and what is computed from it.        *)
Unknown == <<>>

TimeInit == /\ sec = 0 /\ ns \in Nanos /\ millis = 0 /\ readAt = <<0, 0>>
            /\ stamp \in Stamps /\ shown = <<>> /\ reading = Unknown

-----------------------------------------------------------------------------
(* The clock.                                                              *)

(* CLOCK_REALTIME goes on, or is set to another time, also back.           *)
Tick ==
  /\ sec' \in 0..LastSecond /\ ns' \in Nanos
  /\ UNCHANGED <<millis, readAt, dateVars>>

(* Slip: a full thousand milliseconds is not carried.                      *)
CurrentMillis_NoCarry ==
  LET ms == (ns + 500000) \div 1000000
  IN  sec * 1000 + IF ms > 999 THEN 0 ELSE ms

(* round() of the nanoseconds, carried into the second.                    *)
CurrentMillis ==
  LET ms == (ns + 500000) \div 1000000
  IN  IF ms > 999 THEN (sec + 1) * 1000 ELSE sec * 1000 + ms

ReadClock ==
  /\ millis' = CurrentMillis /\ readAt' = <<sec, ns>>
  /\ UNCHANGED <<sec, ns, dateVars>>

(* filesystem.c does not include timefn.h, so to the compiler the clock    *)
(* returns an int.                                                         *)
ToInt(x) == ((x + IntHalf) % (2 * IntHalf)) - IntHalf

(* The difference of two ints.  Where it does not fit, which is undefined, *)
(* the build makes it wrap, or takes it as the long that st_mtime is.      *)
Difference(x, y) == {x - y, ToInt(x - y)}

(* Slip: "<=".                                                             *)
IsFileOlderThan_AtLeast(found, mtime, seconds) ==
  IF ~found THEN {-1}
  ELSE {IF mtime <= limit THEN 1 ELSE 0 : limit \in Difference(ToInt(sec), seconds)}

(* What it may return.  Not found: lstat fails.                            *)
IsFileOlderThan(found, mtime, seconds) ==
  IF ~found THEN {-1}
  ELSE {IF mtime < limit THEN 1 ELSE 0 : limit \in Difference(ToInt(sec), seconds)}

-----------------------------------------------------------------------------
(* Dates.                                                                  *)

(* gmtime_r: the Gregorian calendar, counted in years that begin in March. *)
DateOf(day) ==
  LET z   == day + 719468
      doe == z % 146097
      yoe == (doe - doe \div 1460 + doe \div 36524 - doe \div 146096) \div 365
      doy == doe - (365 * yoe + yoe \div 4 - yoe \div 100)
      mp  == (5 * doy + 2) \div 153
      m   == IF mp < 10 THEN mp + 3 ELSE mp - 9
  IN  [year  |-> yoe + 400 * (z \div 146097) + (IF m <= 2 THEN 1 ELSE 0),
       month |-> m,
       day   |-> doy - (153 * mp + 2) \div 5 + 1]

(* mktime in the zone "".                                                  *)
DayOf(year, month, day) ==
  LET y   == IF month <= 2 THEN year - 1 ELSE year
      mp  == (month + 9) % 12
      yoe == y % 400
  IN  400 * 365 * (y \div 400) + 97 * (y \div 400)
        + 365 * yoe + yoe \div 4 - yoe \div 100 + (153 * mp + 2) \div 5 + day - 1 - 719468

(* The division by 1000 cuts towards 1970.  The fields are uint16_t.       *)
GetTime(time) ==
  LET ms   == time[2]
      s    == ms \div 1000 + (IF time[1] < 0 /\ ms % 1000 # 0 THEN 1 ELSE 0)
      date == DateOf(time[1] + s \div 86400)
      sod  == s % 86400
  IN  [year |-> date.year % 65536, month |-> date.month, day |-> date.day,
       hour |-> sod \div 3600, minute |-> (sod \div 60) % 60, second |-> sod % 60]

(* Slip: tm_mon counts from 1.                                             *)
GetUnixMillis_MonthFromOne(f) ==
  {<<DayOf(f.year, f.month + 1, f.day), (f.hour * 3600 + f.minute * 60 + f.second) * 1000>>}

(* tm_isdst is not assigned.  A libc may take it for summer time, and then *)
(* the result is an hour less.                                             *)
GetUnixMillis(f) ==
  LET day  == DayOf(f.year, f.month, f.day)
      ms   == (f.hour * 3600 + f.minute * 60 + f.second) * 1000
      hour == 3600000
  IN  {<<day, ms>>, IF ms >= hour THEN <<day, ms - hour>> ELSE <<day - 1, ms - hour + 86400000>>}

(* "%0wd"                                                                  *)
Padded(n, w) ==
  LET k     == IF n > 9999 THEN 5 ELSE w
      power == <<10000, 1000, 100, 10, 1>>
  IN  [i \in 1..k |-> (n \div power[5 - k + i]) % 10]

(* snprintf of 20 bytes.                                                   *)
Formatted(f) ==
  SubSeq(Padded(f.year, 4) \o <<Dash>> \o Padded(f.month, 2) \o <<Dash>> \o Padded(f.day, 2)
           \o <<Sep>> \o Padded(f.hour, 2) \o <<Colon>> \o Padded(f.minute, 2)
           \o <<Colon>> \o Padded(f.second, 2), 1, 19)

(* sscanf of such a text; where a sign it expects is missing, the fields   *)
(* behind it are left as they are.                                         *)
Parsed(t) ==
  LET two(i) == 10 * t[i] + t[i + 1] IN
  IF t[5] # Dash THEN {Unknown}
  ELSE GetUnixMillis([year |-> 100 * two(1) + two(3), month |-> two(6), day |-> two(9),
                      hour |-> two(12), minute |-> two(15), second |-> two(18)])

FormatTime ==
  /\ shown = <<>>
  /\ shown' = Formatted(GetTime(stamp))
  /\ UNCHANGED <<clock, stamp, reading>>

ParseTime ==
  /\ shown # <<>> /\ reading = Unknown
  /\ reading' \in Parsed(shown)
  /\ UNCHANGED <<clock, stamp, shown>>

TimeNext == Tick \/ ReadClock \/ FormatTime \/ ParseTime

TimeSpec == TimeInit /\ [][TimeNext]_timeVars

-----------------------------------------------------------------------------

Later(s, t) == s[1] > t[1] \/ (s[1] = t[1] /\ s[2] > t[2])

(* The millisecond clock keeps the order of the clock it reads: of two     *)
(* readings that differ the greater one is of the later time.  So it goes  *)
(* back only if that clock was set back.  And it is half a millisecond off *)
(* at most, the carry at the end of a second included.                     *)
ClockKeepsUp ==
  [][LET ahead == (millis' - sec * 1000) * 1000000 - ns IN
     millis' # millis =>
       /\ millis' > millis <=> Later(<<sec, ns>>, readAt)
       /\ -500000 <= ahead /\ ahead <= 500000]_timeVars

(* No file is said to be older than some seconds that is not, whatever the *)
(* clock and however an overflow ends; and as long as the clock fits an    *)
(* int the answer is right.  (From then on the answer may be no for a file *)
(* that is older, against the promise of filesystem.h.)  A file that is    *)
(* not found is never taken for one that is.                               *)
AgeTells ==
  \A found \in BOOLEAN, mtime \in -LastSecond..LastSecond, seconds \in 0..(IntHalf - 1) :
    LET answers == IsFileOlderThan(found, mtime, seconds)
        older   == sec - mtime > seconds
    IN  /\ found <=> -1 \notin answers
        /\ 1 \in answers => older
        /\ found /\ sec < IntHalf => answers = {IF older THEN 1 ELSE 0}

(* The text of a date is read as the second it was made from, or the hour  *)
(* before, for every year of four digits.  (Before 1970 it is the second   *)
(* behind.)                                                                *)
ReadsBack ==
  reading # Unknown =>
    LET off == 86400 * (stamp[1] - reading[1]) + (stamp[2] - reading[2]) \div 1000
    IN  /\ reading[2] % 1000 = 0
        /\ off \in IF stamp[1] < 0 /\ stamp[2] % 1000 # 0 THEN {-1, 3599} ELSE {0, 3600}
=============================================================================
