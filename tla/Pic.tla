-------------------------------- MODULE Pic ---------------------------------
(***************************************************************************)
(* The two cascaded 8259 interrupt controllers as src/pic.c programs them: *)
(* fixed priorities, the slave on line 2 of the master, and non-specific   *)
(* end-of-interrupt commands (PIC_sendEOI).  The lines in use are the      *)
(* timer (0), the keyboard (1) and the real-time clock (8); the masks      *)
(* leave all three open once unmask_timer has run.                         *)
(*                                                                         *)
(* A line requested is in irr, a line whose interrupt has been accepted    *)
(* and not ended is in isr.  A line in service holds back itself and every *)
(* line of lower priority.  Handlers run with interrupts off (idt.c sets   *)
(* up interrupt gates), so one is accepted, run and ended in one step.     *)
(***************************************************************************)
EXTENDS Integers, FiniteSetsExt

Timer == 0
Kbd == 1
Cascade == 2
Clock == 8
Lines == {Timer, Kbd, Clock}

VARIABLES irr, isr
picVars == <<irr, isr>>

PicInit == irr = {} /\ isr = {}

Master(s) == {l \in s : l < 8}
Slave(s) == {l \in s : l >= 8}

\* The level of a line at the master: the slave's lines arrive at its line 2.
Level(l) == IF l >= 8 THEN Cascade ELSE l

HeldBack(l) == \/ \E k \in Master(isr) : k <= Level(l)
               \/ l >= 8 /\ \E k \in Slave(isr) : k <= l

\* The controller offers the requested line of highest priority.
Accepts(l) == /\ l \in irr /\ ~HeldBack(l)
              /\ \A k \in irr : k < l => HeldBack(k)

Raise(l) == irr' = irr \cup {l}

InService(l) == isr \cup (IF l >= 8 THEN {Cascade, l} ELSE {l})

EndTop(s) == IF s = {} THEN {} ELSE s \ {Min(s)}

\* Mutant: the EOI for a line of the slave goes to the master only.
MutEndedMasterOnly(irq, s) == EndTop(Master(s)) \cup Slave(s)

\* PIC_sendEOI(irq): each controller addressed ends its highest line in service.
Ended(irq, s) == EndTop(Master(s)) \cup
                 (IF irq >= 8 THEN EndTop(Slave(s)) ELSE Slave(s))

\* Accept the interrupt of line l, and end it with EOI if eoi.
Serve(l, eoi) ==
  /\ Accepts(l)
  /\ irr' = irr \ {l}
  /\ isr' = IF eoi THEN Ended(l, InService(l)) ELSE InService(l)
=============================================================================
