--------------------------------- MODULE Ata ---------------------------------
(***************************************************************************)
(* One ATA drive and the polling loops of src/diskreader.c around it.      *)
(* read_sector and write_sector share one timer between two or three loops *)
(* each; a loop that runs it down to 0 leaves it to the next loop, which   *)
(* counts on below 0 and then, for all practical purposes, never gives up. *)
(*                                                                         *)
(* The drive is QEMU's: a command shows in the status register at once,    *)
(* and while a drive is busy or has data to transfer it ignores what is    *)
(* written to its registers.  How long it takes is open, and it may report *)
(* an error instead of delivering data, asking for it, storing it or       *)
(* flushing its cache.  What a loss of power leaves of the sectors in that *)
(* cache is not modelled.                                                  *)
(***************************************************************************)
EXTENDS Integers

CONSTANTS Sectors,         \* the drive's sectors
          partition_start, partition_end,
          Data,            \* contents of a sector
          Timer,           \* what the loops' timer starts with
          MaxCalls         \* bound on the calls of read_sector and write_sector

ASSUME AtaAssumption ==
  /\ Sectors \subseteq Nat /\ 0 \in Sectors
  /\ partition_start \in Nat /\ partition_end \in Nat
  /\ Timer \in Nat \ {0} /\ MaxCalls \in Nat

VARIABLES stored,   \* the contents the drive answers with
          job,      \* what the drive is working on
          BSY, DRQ, \* bits 7 and 3 of its status
          lba,      \* its address registers
          port,     \* the sector in its transfer buffer
          failed,   \* history: it has reported an error instead of storing
          place,    \* where the program is
          timer,
          call,     \* the call being made, or made last
          buffer,   \* the caller's buffer
          result,   \* what the last call returned
          before,   \* history: stored and buffer when the call began
          late,     \* history: the drive was waited for in vain
          calls

drive == <<stored, job, BSY, DRQ, lba, port, failed>>
host == <<place, timer, call, buffer, result, before, late, calls>>
ata_vars == <<stored, job, BSY, DRQ, lba, port, failed,
             place, timer, call, buffer, result, before, late, calls>>

Partition == {s \in Sectors : partition_start <= s /\ s <= partition_end}

-----------------------------------------------------------------------------
(* The drive *)

Listens == ~BSY /\ ~DRQ

\* A command finds its sector in the registers.
Command(c) == /\ job' = IF Listens THEN c ELSE job
              /\ BSY' = (Listens \/ BSY)
              /\ UNCHANGED <<stored, DRQ, lba, port, failed>>
SelectDrive(s) == /\ lba' = IF Listens THEN s ELSE lba
             /\ UNCHANGED <<stored, job, BSY, DRQ, port, failed>>

Finds == /\ BSY /\ job = "read"
         /\ BSY' = FALSE /\ DRQ' = TRUE /\ port' = stored[lba]
         /\ UNCHANGED <<stored, job, lba, failed>>
AsksForData == /\ BSY /\ job = "write"
               /\ BSY' = FALSE /\ DRQ' = TRUE
               /\ UNCHANGED <<stored, job, lba, port, failed>>

\* An error ends whatever it is busy with, and shows in bits of the status that
\* no one reads; a sector that was to be stored stays as it was.
Fails == /\ BSY
         /\ BSY' = FALSE /\ job' = "none"
         /\ failed' = (failed \/ job = "store")
         /\ UNCHANGED <<stored, DRQ, lba, port>>
Stores == /\ BSY /\ job = "store"
          /\ stored' = [stored EXCEPT ![lba] = port]
          /\ BSY' = FALSE /\ job' = "none"
          /\ UNCHANGED <<DRQ, lba, port, failed>>
Flushes == /\ BSY /\ job = "flush"
           /\ BSY' = FALSE /\ job' = "none"
           /\ UNCHANGED <<stored, DRQ, lba, port, failed>>

Works == Finds \/ AsksForData \/ Fails \/ Stores \/ Flushes

-----------------------------------------------------------------------------
(* The polling loops: while (cond && --timer) *)

\* Mutant: the timer is not counted down.
MutEndless(t) == t

\* Below 0 the next 2^31 polls do not bring it back to 0.
Down(t) == IF t > 0 THEN t - 1 ELSE -1

Poll(here, waits, next) ==
  /\ place = here
  /\ timer' = IF waits THEN Down(timer) ELSE timer
  /\ place' = IF waits /\ timer' # 0 THEN here ELSE next
  /\ late' = (late \/ (waits /\ timer' = 0 /\ job # "none"))
  /\ UNCHANGED <<drive, call, buffer, result, before, calls>>

Return(r) ==
  /\ place' = "idle" /\ result' = r
  /\ UNCHANGED <<timer, call, before, late, calls>>
GivesUp(here) == /\ place = here /\ timer = 0
                 /\ Return(-1) /\ UNCHANGED <<drive, buffer>>

GoOn(label) == /\ place' = label
               /\ UNCHANGED <<timer, call, buffer, result, before, late, calls>>

Start(f, s, d, label) ==
  /\ place = "idle" /\ calls < MaxCalls /\ calls' = calls + 1
  /\ call' = [f |-> f, sector |-> s, data |-> d]
  /\ before' = [stored |-> stored, buffer |-> buffer]
  /\ late' = (job # "none") /\ failed' = FALSE
  /\ timer' = Timer /\ place' = label
  /\ UNCHANGED <<stored, job, BSY, DRQ, lba, port, buffer, result>>

-----------------------------------------------------------------------------
(* read_sector *)

read_sector(s) == Start("read", s, buffer, IF s \in Partition THEN "r_select" ELSE "refuse")

Refuse == place = "refuse" /\ Return(-1) /\ UNCHANGED <<drive, buffer>>

ReadSelect == place = "r_select" /\ SelectDrive(call.sector) /\ GoOn("r_idle")
ReadAwaitIdle == Poll("r_idle", BSY, "r_command")
ReadGivesUpIdle == GivesUp("r_command")
ReadCommand == place = "r_command" /\ timer # 0 /\ Command("read") /\ GoOn("r_drq")

\* Mutant: only the busy bit is waited for.
MutNoDataWait == Poll("r_drq", FALSE, "r_busy")

ReadAwaitData == Poll("r_drq", ~DRQ, "r_busy")
ReadAwaitDone == Poll("r_busy", BSY, "r_data")

ReadGivesUp == GivesUp("r_data")

\* The words are read whether the drive has any or not.
ReadTransfer ==
  /\ place = "r_data" /\ timer # 0
  /\ \E d \in IF DRQ /\ job = "read" THEN {port} ELSE Data : buffer' = d
  /\ DRQ' = (DRQ /\ job # "read")
  /\ job' = IF DRQ /\ job = "read" THEN "none" ELSE job
  /\ UNCHANGED <<stored, BSY, lba, port, failed>>
  /\ Return(0)

-----------------------------------------------------------------------------
(* write_sector *)

\* Outside the partition, and for want of a buffer, it fails at once.
write_sector(s, d) ==
  \/ Start("write", s, d, "refuse")
  \/ s \in Partition \ {0} /\ Start("write", s, d, "w_select")

WriteSelect == place = "w_select" /\ SelectDrive(call.sector) /\ GoOn("w_idle")
WriteAwaitIdle == Poll("w_idle", BSY, "w_command")
WriteGivesUpIdle == GivesUp("w_command")
WriteCommand == place = "w_command" /\ timer # 0 /\ Command("write") /\ GoOn("w_busy")
WriteAwaitDone == Poll("w_busy", BSY, "w_drq")
WriteAwaitRequest == Poll("w_drq", ~DRQ, "w_data")

WriteGivesUp == GivesUp("w_data")

\* Only a drive that has asked for data takes them.
WriteTransfer ==
  /\ place = "w_data" /\ timer # 0
  /\ IF DRQ /\ job = "write"
       THEN port' = call.data /\ DRQ' = FALSE /\ BSY' = TRUE /\ job' = "store"
       ELSE UNCHANGED <<port, DRQ, BSY, job>>
  /\ UNCHANGED <<stored, lba, failed>>
  /\ GoOn("w_flush")

WriteFlush == place = "w_flush" /\ Command("flush") /\ GoOn("w_end")

\* Mutant: the drive is not waited for after the transfer.
MutNoWaitAfter == Poll("w_end", FALSE, "w_return")

WriteAwaitEnd == Poll("w_end", BSY, "w_return")
WriteGivesUpEnd == GivesUp("w_return")
WriteReturn == place = "w_return" /\ timer # 0 /\ Return(0) /\ UNCHANGED <<drive, buffer>>

-----------------------------------------------------------------------------
AtaInit ==
  /\ stored \in [Sectors -> Data]
  /\ job = "none" /\ BSY = FALSE /\ DRQ = FALSE
  /\ lba = 0 /\ port = stored[0] /\ failed = FALSE
  /\ place = "idle" /\ timer = 0
  /\ call = [f |-> "none", sector |-> 0, data |-> port]
  /\ buffer = port /\ result = 0
  /\ before = [stored |-> stored, buffer |-> buffer]
  /\ late = FALSE /\ calls = 0

Drive == Works /\ UNCHANGED host

Body == \/ Refuse
        \/ ReadSelect \/ ReadAwaitIdle \/ ReadGivesUpIdle \/ ReadCommand
        \/ ReadAwaitData \/ ReadAwaitDone \/ ReadGivesUp \/ ReadTransfer
        \/ WriteSelect \/ WriteAwaitIdle \/ WriteGivesUpIdle \/ WriteCommand
        \/ WriteAwaitDone \/ WriteAwaitRequest \/ WriteGivesUp \/ WriteTransfer
        \/ WriteFlush \/ WriteAwaitEnd \/ WriteGivesUpEnd \/ WriteReturn

AtaNext == \/ \E s \in Sectors : read_sector(s) \/ \E d \in Data : write_sector(s, d)
           \/ Body \/ Drive

\* The processor goes on, and the drive finishes what it does.
AtaSpec == AtaInit /\ [][AtaNext]_ata_vars /\ WF_ata_vars(Body) /\ WF_ata_vars(Drive)

-----------------------------------------------------------------------------
(* Properties *)

\* Types, and that the drive asks for or offers data only in a transfer.
AtaTypeOK ==
  /\ stored \in [Sectors -> Data]
  /\ job \in {"none", "read", "write", "store", "flush"}
  /\ DRQ => ~BSY /\ job \in {"read", "write"}
  /\ timer \in -1..Timer /\ buffer \in Data /\ result \in {-1, 0}

Returned(f, r) == place = "idle" /\ call.f = f /\ result = r /\ ~late

\* A read that succeeds has read the sector it was asked for, although neither
\* the error bit nor the drive's address registers are ever looked at - unless
\* the drive was waited for in vain (read_sector, diskreader.c:62-88).
ReadIsCurrent == Returned("read", 0) => buffer = stored[call.sector]

\* A write that succeeds has changed its sector and no other, and the drive is
\* done with it when the call returns - unless the drive reported an error behind
\* the data: that is success, too, and then nothing has changed
\* (write_sector, diskreader.c:89-129).
WriteLands ==
  Returned("write", 0) => \/ stored = [before.stored EXCEPT ![call.sector] = call.data]
                          \/ failed /\ stored = before.stored

\* Every call returns, also when the drive never asks for the data - unless it
\* was waited for in vain: the loops after that one have no end.
CallsEnd == place # "idle" ~> place = "idle" \/ late
=============================================================================
