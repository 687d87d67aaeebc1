--------------------------------- MODULE Rtc ---------------------------------
(***************************************************************************)
(* The clock of src/rtc.c: the time is read from the CMOS chip once, while *)
(* the chip's interrupt is already enabled, and is counted on by the       *)
(* interrupt from then on.  Registers are reached through an index port    *)
(* and a data port that the interrupt handler uses as well.                *)
(*                                                                         *)
(* The chip announces an update (bit 7 of register A) 244 microseconds     *)
(* before it changes the time; the reads of read_startup_time take less,   *)
(* and all of read_startup_time takes less than a second.                  *)
(***************************************************************************)
EXTENDS Integers, Sequences, Functions

CONSTANTS Starts,    \* the times at which the machine is started
          Modes,     \* the formats the chip may keep them in
          MaxTicks,  \* bound on the seconds that pass
          MaxShown   \* bound on the times the time is displayed

VARIABLES now,       \* the time the chip keeps
          mode,      \* its format: register B
          updating,  \* bit 7 of register A
          uf,        \* the update flag of register C
          uie,       \* update interrupts are enabled
          irq,       \* IRQ 8 is requested and not yet accepted
          index,     \* the register that is selected
          time,      \* second, minute, hour, day, month, year
          is_24_hrs, is_BCD,
          pc, k,     \* where the program is, and at which field
          shown,     \* the arguments display_time has read
          quiet,     \* the chip was not updating when register A was read
          held,      \* history: the values of time since display_time began
          drifted,   \* history: the chip has passed a moment the code does not count right
          ticks, shows

chip == <<now, mode, updating, uf, uie, irq>>
vars == <<now, mode, updating, uf, uie, irq, index, time, is_24_hrs, is_BCD,
          pc, k, shown, quiet, held, drifted, ticks, shows>>

Fields == <<"second", "minute", "hour", "day", "month", "year">>

-----------------------------------------------------------------------------
(* The chip *)

Leap(y) == y % 4 = 0
DaysIn(m, y) == IF m = 2 THEN IF Leap(y) THEN 29 ELSE 28
                ELSE IF m \in {4, 6, 9, 11} THEN 30 ELSE 31

Calendar == {t \in [second : 0..59, minute : 0..59, hour : 0..23, day : 1..31,
                    month : 1..12, year : 0..99] : t.day <= DaysIn(t.month, t.year)}

ASSUME RtcAssumption == /\ Starts \subseteq Calendar
                        /\ Modes \subseteq [bcd : BOOLEAN, h24 : BOOLEAN]
                        /\ MaxTicks \in Nat /\ MaxShown \in Nat

\* The next second of the calendar, field by field.
LastOfDay(t) == t.hour = 23 /\ t.minute = 59 /\ t.second = 59
LastOfMonth(t) == LastOfDay(t) /\ t.day = DaysIn(t.month, t.year)
NextSecond(t) ==
  [second |-> (t.second + 1) % 60,
   minute |-> IF t.second = 59 THEN (t.minute + 1) % 60 ELSE t.minute,
   hour   |-> IF t.second = 59 /\ t.minute = 59 THEN (t.hour + 1) % 24 ELSE t.hour,
   day    |-> IF LastOfMonth(t) THEN 1 ELSE IF LastOfDay(t) THEN t.day + 1 ELSE t.day,
   month  |-> IF LastOfMonth(t) THEN (t.month % 12) + 1 ELSE t.month,
   year   |-> IF LastOfMonth(t) /\ t.month = 12 THEN (t.year + 1) % 100 ELSE t.year]

\* Where the code's time leaves the chip's for good: at the end of February,
\* which it has ended a day before, and at the end of a year 99.
Miscounted(t) == LastOfMonth(t) /\ (t.month = 2 \/ (t.month = 12 /\ t.year = 99))

\* A field as the chip stores it: BCD or binary, the hour with 128 for PM.
Bcd(n) == (n \div 10) * 16 + (n % 10)
Hour12(h) == IF h % 12 = 0 THEN 12 ELSE h % 12
Stored(f) ==
  LET v == IF f = "hour" /\ ~mode.h24 THEN Hour12(now.hour) ELSE now[f]
      pm == f = "hour" /\ ~mode.h24 /\ now.hour >= 12
  IN  (IF mode.bcd THEN Bcd(v) ELSE v) + (IF pm THEN 128 ELSE 0)

Starting == pc \notin {"idle", "display"}
Reading == pc \in {"select_field", "read_field", "convert"}

\* An update is announced; another is a second away.
BeginUpdate ==
  /\ ~updating /\ ~irq /\ ticks < MaxTicks
  /\ Starting => ticks = 0
  /\ updating' = TRUE
  /\ UNCHANGED <<now, mode, uf, uie, irq, index, time, is_24_hrs, is_BCD, pc, k, shown,
                 quiet, held, drifted, ticks, shows>>

\* The time changes, and the interrupt line rises unless it is still up.
EndUpdate ==
  /\ updating /\ ~(Reading /\ quiet)
  /\ now' = NextSecond(now) /\ updating' = FALSE /\ ticks' = ticks + 1
  /\ uf' = TRUE /\ irq' = (irq \/ (uie /\ ~uf))
  /\ drifted' = (drifted \/ Miscounted(now))
  /\ UNCHANGED <<mode, uie, index, time, is_24_hrs, is_BCD, pc, k, shown, quiet, held, shows>>

-----------------------------------------------------------------------------
(* The interrupt: update_time *)

Seconds(t) == IF t.second + 1 >= 60 THEN [t EXCEPT !.second = 0, !.minute = @ + 1]
              ELSE [t EXCEPT !.second = @ + 1]
Minutes(t) == IF t.minute >= 60 THEN [t EXCEPT !.minute = 0, !.hour = @ + 1] ELSE t
Hours(t) == IF t.hour >= 24 THEN [t EXCEPT !.hour = 0, !.day = (@ + 1) % 256] ELSE t
NextMonth(t) == [t EXCEPT !.day = 1, !.month = @ + 1]
February(t) == IF t.month = 2 /\ t.day = (IF t.year % 4 = 0 THEN 29 ELSE 28)
               THEN NextMonth(t) ELSE t

\* Mutant: the 31st is one day too many.
MutLongMonths(t) == IF t.day >= 31 /\ t.month \in {1, 3, 5, 7, 8, 10, 12} THEN NextMonth(t) ELSE t

LongMonths(t) == IF t.day > 31 /\ t.month \in {1, 3, 5, 7, 8, 10, 12} THEN NextMonth(t) ELSE t

ShortMonths(t) == IF t.day > 30 /\ t.month \in {4, 6, 9, 11} THEN NextMonth(t) ELSE t

Years(t) == IF t.month > 12 THEN [t EXCEPT !.month = 1, !.year = (@ + 1) % 256] ELSE t
Advance(t) == Years(ShortMonths(LongMonths(February(Hours(Minutes(Seconds(t)))))))

\* Register C is read, so that the line falls and can rise again.
update_time ==
  /\ irq /\ irq' = FALSE
  /\ time' = Advance(time)
  /\ held' = IF pc = "display" THEN held \cup {time'} ELSE {}
  /\ index' = "C" /\ uf' = FALSE
  /\ UNCHANGED <<now, mode, updating, uie, is_24_hrs, is_BCD, pc, k, shown, quiet, drifted, ticks, shows>>

-----------------------------------------------------------------------------
(* The program: read_startup_time *)

\* It goes on when no interrupt waits: they are enabled all the time.
At(label) == pc = label /\ ~irq
Goto(label) == pc' = label
Select(reg) == index' = reg

enable_rtc_interrupts ==
  /\ At("enable") /\ Goto("select_B")
  /\ uie' = TRUE /\ irq' = uf
  /\ Select("B")
  /\ UNCHANGED <<now, mode, updating, uf, time, is_24_hrs, is_BCD, k, shown, quiet, held, drifted, ticks, shows>>

SelectStatus ==
  /\ At("select_B") /\ Goto("read_B")
  /\ Select("B")
  /\ UNCHANGED <<chip, time, is_24_hrs, is_BCD, k, shown, quiet, held, drifted, ticks, shows>>

\* After an interrupt register C answers, with all its flags cleared.
check_status ==
  /\ At("read_B") /\ Goto("select_A")
  /\ is_24_hrs' = (index = "B" /\ mode.h24)
  /\ is_BCD' = (index = "B" => mode.bcd)
  /\ UNCHANGED <<chip, index, time, k, shown, quiet, held, drifted, ticks, shows>>

SelectUpdate ==
  /\ At("select_A") /\ Goto("read_A")
  /\ Select("A")
  /\ UNCHANGED <<chip, time, is_24_hrs, is_BCD, k, shown, quiet, held, drifted, ticks, shows>>

\* Mutant: the loop is left although an update has been announced.
MutNoWait ==
  /\ At("read_A")
  /\ quiet' = ~updating
  /\ Goto("select_field")
  /\ UNCHANGED <<chip, index, time, is_24_hrs, is_BCD, k, shown, held, drifted, ticks, shows>>

\* The loop does not select register A again.
check_for_updates ==
  /\ At("read_A")
  /\ quiet' = ~updating
  /\ IF index = "A" /\ updating THEN Goto("read_A") ELSE Goto("select_field")
  /\ UNCHANGED <<chip, index, time, is_24_hrs, is_BCD, k, shown, held, drifted, ticks, shows>>

SelectField ==
  /\ At("select_field") /\ Goto("read_field")
  /\ Select(Fields[k])
  /\ UNCHANGED <<chip, time, is_24_hrs, is_BCD, k, shown, quiet, held, drifted, ticks, shows>>

\* Twelve at night in 12 hour mode is read as noon.
ReadField ==
  /\ At("read_field") /\ k' = k + 1
  /\ time' = [time EXCEPT ![Fields[k]] = IF index = "C" THEN 0 ELSE Stored(index)]
  /\ Goto(IF k = Len(Fields) THEN "convert" ELSE "select_field")
  /\ drifted' = (drifted \/ (index = "hour" /\ ~mode.h24 /\ now.hour = 0))
  /\ UNCHANGED <<chip, index, is_24_hrs, is_BCD, shown, quiet, held, ticks, shows>>

bcd_to_binary(v) == (v % 16) + (v \div 16) * 10
Binary(v) == IF is_BCD THEN bcd_to_binary(v) ELSE v
BinaryHour(h) == IF h >= 128 /\ ~is_24_hrs
                 THEN LET v == Binary(h - 128) IN IF v # 12 THEN v + 12 ELSE v
                 ELSE Binary(h)

Convert ==
  /\ At("convert") /\ Goto("idle")
  /\ time' = [f \in DOMAIN time |-> IF f = "hour" THEN BinaryHour(time.hour) ELSE Binary(time[f])]
  /\ Select("year")
  /\ UNCHANGED <<chip, is_24_hrs, is_BCD, k, shown, quiet, held, drifted, ticks, shows>>

-----------------------------------------------------------------------------
(* display_time: the arguments are read one by one, in any order *)

StartDisplay ==
  /\ At("idle") /\ Goto("display") /\ shows < MaxShown /\ shows' = shows + 1
  /\ shown' = <<>> /\ held' = {time}
  /\ UNCHANGED <<chip, index, time, is_24_hrs, is_BCD, k, quiet, drifted, ticks>>

ReadArgument ==
  /\ At("display")
  /\ \E f \in Range(Fields) \ DOMAIN shown :
       shown' = [g \in DOMAIN shown \cup {f} |-> IF g = f THEN time[f] ELSE shown[g]]
  /\ UNCHANGED <<chip, index, time, is_24_hrs, is_BCD, pc, k, quiet, held, drifted, ticks, shows>>

Complete == pc = "display" /\ DOMAIN shown = Range(Fields)
display_time ==
  /\ At("display") /\ Complete /\ Goto("idle")
  /\ shown' = <<>> /\ held' = {}
  /\ UNCHANGED <<chip, index, time, is_24_hrs, is_BCD, k, quiet, drifted, ticks, shows>>

-----------------------------------------------------------------------------
Init ==
  /\ now \in Starts /\ mode \in Modes /\ updating \in BOOLEAN /\ uf \in BOOLEAN
  /\ uie = FALSE /\ irq = FALSE /\ index = "B"
  /\ time = [f \in Range(Fields) |-> 0]
  /\ is_24_hrs = FALSE /\ is_BCD = FALSE
  /\ pc = "enable" /\ k = 1
  /\ shown = <<>> /\ quiet = FALSE /\ held = {} /\ drifted = FALSE /\ ticks = 0 /\ shows = 0

Next == \/ BeginUpdate \/ EndUpdate \/ update_time
        \/ enable_rtc_interrupts \/ SelectStatus \/ check_status
        \/ SelectUpdate \/ check_for_updates \/ SelectField \/ ReadField \/ Convert
        \/ StartDisplay \/ ReadArgument \/ display_time

Spec == Init /\ [][Next]_vars

-----------------------------------------------------------------------------
(* Properties *)

\* Types, and that the fields keep the ranges the display needs.
TypeOK ==
  /\ pc \in {"enable", "select_B", "read_B", "select_A", "read_A", "select_field",
             "read_field", "convert", "idle", "display"}
  /\ k \in 1..Len(Fields) + 1
  /\ \A f \in Range(Fields) : time[f] \in 0..255
  /\ ~Starting => time.month \in 1..12

\* On the last day of February the first interrupt already begins March: the
\* test at rtc.c:120 is for the last day, not for the day after it.
MarchEarly == /\ now.month = 2 /\ now.day = DaysIn(2, now.year)
              /\ time = [now EXCEPT !.month = 3, !.day = 1]

\* Once read, the time is the chip's whenever no interrupt is waiting, if the
\* format was read correctly, but for the last day of February; until the chip
\* passes one of the moments that are not counted right (read_startup_time and
\* update_time, rtc.c:57-141).
InStep == ~Starting /\ ~irq /\ ~drifted /\ is_24_hrs = mode.h24 /\ is_BCD = mode.bcd =>
            time = now \/ MarchEarly

\* What is displayed was the time at some moment of the display, unless the
\* minute changed, or February ended, while its arguments were read
\* (rtc.c:142-146): then they may be of different times.
SameMinute(s, t) == s.minute = t.minute /\ (s.month = 2) = (t.month = 2)
TornAtMinute == Complete /\ (\A s, t \in held : SameMinute(s, t)) => shown \in held
=============================================================================
