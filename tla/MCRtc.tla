------------------------------- MODULE MCRtc -------------------------------
(* The clock, started at chosen seconds. *)
EXTENDS Rtc

At3(d, m, y, times) == {[second |-> t[3], minute |-> t[2], hour |-> t[1],
                         day |-> d, month |-> m, year |-> y] : t \in times}

Midday == {<<0, 0, 10>>, <<8, 59, 59>>, <<11, 59, 59>>, <<12, 0, 0>>}
LateEvening == <<23, 59, 58>>

\* The first and last days of every month, a February's last day from its
\* beginning, and the end of the last year the chip can hold.
Days(m, y) == {1, 9, DaysIn(m, y) - 1, DaysIn(m, y)} \cup (IF m = 2 THEN {26} ELSE {})
AllMonths == UNION {UNION {At3(d, m, y, {LateEvening}) : d \in Days(m, y)} :
                      m \in 1..12, y \in {24, 25}}
MCStarts == AllMonths \cup At3(10, 10, 25, Midday) \cup At3(28, 2, 25, Midday)
              \cup At3(31, 12, 99, {LateEvening})

AllModes == [bcd : BOOLEAN, h24 : BOOLEAN]
=============================================================================
