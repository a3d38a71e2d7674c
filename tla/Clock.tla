------------------------------- MODULE Clock ---------------------------------
(***************************************************************************)
(* The time of day: rtc_read_time of src/devices/rtc/rtc.c reads it once,  *)
(* at boot, and pit_callback of src/devices/pit/pit.c carries it on.       *)
(***************************************************************************)
EXTENDS Integers

CONSTANTS
  PIT_HZ,        \* ticks per second
  BLINK,         \* 500: ticks between two changes of the cursor
  MaxTicks,      \* bound: ticks that are followed
  BootTimes      \* the times at which the machine may be started

\* The tick count has 32 bits, and is not followed beyond its end.
ASSUME ClockAssumption ==
  /\ PIT_HZ \in Nat \ {0} /\ BLINK \in Nat \ {0}
  /\ MaxTicks \in Nat /\ MaxTicks \div 65536 < 65536

VARIABLES
  ticks,
  curr_time,
  rtc          \* the registers of the RTC as they were read

clockVars == <<ticks, curr_time, rtc>>

-----------------------------------------------------------------------------
(***************************************************************************)
(* The RTC.  Register B says whether the others are binary or BCD and      *)
(* whether hours go to 24 or to 12 with bit 7 for p.m.  External: this is  *)
(* what the chip delivers for a time t.                                    *)
(***************************************************************************)
Bcd(n) == ((n \div 10) * 16) + (n % 10)

RtcHours(h, binary, mode24) ==
  LET h12 == IF h % 12 = 0 THEN 12 ELSE h % 12
      raw == IF mode24 THEN h ELSE h12
  IN  (IF binary THEN raw ELSE Bcd(raw)) + (IF ~mode24 /\ h >= 12 THEN 128 ELSE 0)

RtcRegisters(t, binary, mode24) ==
  LET code(n) == IF binary THEN n ELSE Bcd(n) IN
  [seconds |-> code(t.seconds), minutes |-> code(t.minutes),
   hours   |-> RtcHours(t.hours, binary, mode24),
   day     |-> code(t.day), month |-> code(t.month), year |-> code(t.year % 100),
   binary  |-> binary, mode24 |-> mode24]

bcd_to_binary(b) == (((b \div 16) * 10) + (b % 16)) % 256

\* rtc_read_time: BCD first, then the p.m. bit of what is left, then the century.
rtc_read_time(r) ==
  LET from(b) == IF r.binary THEN b ELSE bcd_to_binary(b)
      hours   == from(r.hours)
  IN  [seconds |-> from(r.seconds),
       minutes |-> from(r.minutes),
       hours   |-> IF ~r.mode24 /\ hours >= 128 THEN ((hours % 128) + 12) % 24 ELSE hours,
       day     |-> from(r.day),
       month   |-> from(r.month),
       year    |-> from(r.year) + 2000]

-----------------------------------------------------------------------------
days_in_month == <<31, 28, 31, 30, 31, 30, 31, 31, 30, 31, 30, 31>>

\* A mutant of leap_year: no year of a century.
leap_year_short(year) == year % 4 = 0 /\ year % 100 # 0

leap_year(year) == (year % 4 = 0 /\ year % 100 # 0) \/ year % 400 = 0

get_days_in_month(month, year) ==
  IF month = 2 /\ leap_year(year) THEN 29 ELSE days_in_month[month]

\* The fields of rtc_time_t are bytes, the year has 16 bits.
uint8(n)  == n % 256
uint16(n) == n % 65536

\* The carries of pit_callback, in its order.
CarrySeconds(t) ==
  IF t.seconds >= 60 THEN [t EXCEPT !.minutes = uint8(@ + 1), !.seconds = 0] ELSE t
CarryMinutes(t) ==
  IF t.minutes >= 60 THEN [t EXCEPT !.hours = uint8(@ + 1), !.minutes = 0] ELSE t
CarryHours(t) ==
  IF t.hours >= 24 THEN [t EXCEPT !.day = uint8(@ + 1), !.hours = 0] ELSE t
CarryDay(t) ==
  IF t.day <= get_days_in_month(t.month, t.year) THEN t
  ELSE IF t.month + 1 > 12
  THEN [t EXCEPT !.day = 1, !.month = 1, !.year = uint16(@ + 1)]
  ELSE [t EXCEPT !.day = 1, !.month = @ + 1]

Carried(t) == CarryDay(CarryHours(CarryMinutes(CarrySeconds(t))))

Tick(t, n) ==
  Carried(IF n % PIT_HZ = 0 THEN [t EXCEPT !.seconds = uint8(@ + 1)] ELSE t)

-----------------------------------------------------------------------------
ClockInit ==
  /\ ticks = 0
  /\ \E t \in BootTimes, binary, mode24 \in BOOLEAN :
       rtc = [time |-> t, registers |-> RtcRegisters(t, binary, mode24)]
  /\ curr_time = rtc_read_time(rtc.registers)

\* pit_callback, but for schedule_pending (see Kthread) and what it draws: the
\* cursor is toggled when Blinks.
Blinks == (ticks + 1) % BLINK = 0

pit_callback ==
  /\ ticks < MaxTicks
  /\ ticks' = ticks + 1
  /\ curr_time' = Tick(curr_time, ticks + 1)
  /\ UNCHANGED rtc

ClockSpec == ClockInit /\ [][pit_callback]_clockVars

-----------------------------------------------------------------------------
(***************************************************************************)
(* Reference: days counted from 1 January of year 0 of the Gregorian       *)
(* calendar, by the formula for years that begin in March.                 *)
(***************************************************************************)
DayNumber(t) ==
  LET y == IF t.month <= 2 THEN t.year - 1 ELSE t.year
      k == (t.month + 9) % 12
  IN  (365 * y) + (y \div 4) - (y \div 100) + (y \div 400) + ((153 * k + 2) \div 5) + t.day

FirstOfNextMonth(t) ==
  IF t.month = 12 THEN [t EXCEPT !.year = @ + 1, !.month = 1, !.day = 1]
  ELSE [t EXCEPT !.month = @ + 1, !.day = 1]

\* The machine is started at times that an RTC can show, in the century that
\* rtc_read_time takes for granted.
RtcTime == [seconds : 0 .. 59, minutes : 0 .. 59, hours : 0 .. 23,
            day : 1 .. 31, month : 1 .. 12, year : 2000 .. 2099]

ASSUME BootTimesAssumption ==
  \A t \in BootTimes : t \in RtcTime /\ DayNumber(t) < DayNumber(FirstOfNextMonth(t))

SecondOfDay(t) == (t.hours * 60 + t.minutes) * 60 + t.seconds

\* The RTC is understood whenever it runs in 24-hour mode, and in 12-hour mode
\* for the hours from 1 a.m. on that have no p.m. bit, or that have one in
\* binary and are not noon.  (In BCD the conversion destroys the bit.)
RtcUnderstood(r) ==
  \/ r.registers.mode24
  \/ r.time.hours \in 1 .. 11
  \/ r.registers.binary /\ r.time.hours \in 13 .. 23

\* The kernel's time is the RTC's time at boot, in every mode that
\* RtcUnderstood names, plus one second for every PIT_HZ ticks, by the
\* calendar: across the ends of days, months and years, in leap years and in
\* others, no second and no day is lost or counted twice.
KeepsTime ==
  RtcUnderstood(rtc) =>
    LET s == SecondOfDay(rtc.time) + (ticks \div PIT_HZ) IN
    /\ DayNumber(curr_time) = DayNumber(rtc.time) + (s \div 86400)
    /\ SecondOfDay(curr_time) = s % 86400
    /\ curr_time.month \in 1 .. 12 /\ curr_time.day >= 1
    /\ DayNumber(curr_time) < DayNumber(FirstOfNextMonth(curr_time))

=============================================================================
