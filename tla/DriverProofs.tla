---------------------------- MODULE DriverProofs ----------------------------
(***************************************************************************)
(* The drivers that talk to a device through its ports, each to the end of *)
(* its own specification: the disk's (Ata) and the clock's (Rtc).          *)
(*                                                                         *)
(* What a successful read_sector or write_sector has done, for every drive *)
(* size, partition, timer and number of calls.  The invariant says at each *)
(* place in the code what the drive is doing, as long as it was not waited *)
(* for in vain: since it ignores what comes while it is busy, what it does *)
(* is what this call asked for.                                            *)
(*                                                                         *)
(* Why the time keeps in step with the chip, for every time of start, in   *)
(* every format: the six fields are read between two updates (Read), and   *)
(* from then on each interrupt counts the second its update counted        *)
(* (Following).  A display that no minute passes through can only mix      *)
(* times that differ in the second (Displaying).                           *)
(***************************************************************************)
EXTENDS Ata, Rtc, TLAPS

-----------------------------------------------------------------------------
(* The disk driver *)

Jobs == {"none", "read", "write", "store", "flush"}
InRead == {"r_select", "r_idle", "r_command", "r_drq", "r_busy", "r_data"}
InWrite == {"w_select", "w_idle", "w_command", "w_busy", "w_drq", "w_data", "w_flush", "w_end", "w_return"}

AtaTypes ==
  /\ stored \in [Sectors -> Data] /\ port \in Data /\ buffer \in Data
  /\ job \in Jobs /\ lba \in Sectors
  /\ BSY \in BOOLEAN /\ DRQ \in BOOLEAN /\ late \in BOOLEAN /\ failed \in BOOLEAN
  /\ timer \in -1..Timer /\ result \in {-1, 0}
  /\ call.sector \in Sectors /\ call.data \in Data
  /\ place \in InRead \cup InWrite \cup {"idle", "refuse"}
  /\ place \in InRead => call.f = "read"
  /\ place \in InWrite => call.f = "write"

\* The drive is busy or has data to transfer exactly while it has a job.
DriveOK ==
  /\ job = "none" <=> ~BSY /\ ~DRQ
  /\ ~BSY \/ ~DRQ
  /\ DRQ => job \in {"read", "write"}
  /\ DRQ /\ job = "read" => port = stored[lba]

Chosen == lba = call.sector
Untouched == stored = before.stored

\* The sector was stored, or the drive said, unheard, that it was not.
Landed == \/ stored = [before.stored EXCEPT ![call.sector] = call.data]
          \/ failed /\ Untouched

\* The loop for the drive's request ended with it, or with the drive's failure.
Asked(what) == \/ timer > 0 /\ DRQ /\ job = what
               \/ timer = 0 /\ job = "none"

Storing == job = "store" /\ port = call.data /\ Chosen /\ Untouched

ReadSteps ==
  /\ place = "r_select" => job = "none" /\ timer > 0
  /\ place \in {"r_idle", "r_command"} => job = "none" /\ timer > 0 /\ Chosen
  /\ place = "r_drq" => job \in {"read", "none"} /\ timer > 0 /\ Chosen
  /\ place \in {"r_busy", "r_data"} => Asked("read") /\ Chosen

WriteSteps ==
  /\ place = "w_select" => job = "none" /\ timer > 0 /\ Untouched
  /\ place \in {"w_idle", "w_command"} => job = "none" /\ timer > 0 /\ Chosen /\ Untouched
  /\ place = "w_busy" => job \in {"write", "none"} /\ timer > 0 /\ Chosen /\ Untouched
  /\ place = "w_drq" => job \in {"write", "none"} /\ ~BSY /\ timer > 0 /\ Chosen /\ Untouched
  /\ place = "w_data" => Asked("write") /\ Chosen /\ Untouched
  /\ place = "w_flush" => timer > 0 /\ (Storing \/ (job = "none" /\ Landed))
  /\ place = "w_end" => timer > 0 /\ (Storing \/ (job \in {"flush", "none"} /\ Landed))
  /\ place = "w_return" => timer > 0 /\ job = "none" /\ Landed

Done ==
  place = "idle" /\ result = 0 =>
    /\ call.f = "read" => job = "none" /\ buffer = stored[call.sector]
    /\ call.f = "write" => job = "none" /\ Landed

\* As long as the drive was not waited for in vain.
InStepWithDrive == ~late => ReadSteps /\ WriteSteps /\ Done

AtaIInv == AtaTypes /\ DriveOK /\ InStepWithDrive

LEMMA AtaInitIInv == AtaInit => AtaIInv
<1> SUFFICES ASSUME AtaInit PROVE AtaIInv
  OBVIOUS
<1>1. AtaTypes
  <2>1. 0 \in Sectors /\ Timer \in Nat
    BY AtaAssumption
  <2>2. stored[0] \in Data
    BY <2>1 DEF AtaInit
  <2>3. 0 \in -1..Timer /\ 0 \in {-1, 0}
    BY <2>1
  <2>4. call.sector = 0 /\ call.data = stored[0]
    BY DEF AtaInit
  <2> QED BY <2>1, <2>2, <2>3, <2>4 DEF AtaInit, AtaTypes, Jobs, InRead, InWrite
<1>2. DriveOK
  BY DEF AtaInit, DriveOK
<1>3. InStepWithDrive
  BY DEF AtaInit, InStepWithDrive, ReadSteps, WriteSteps, Done
<1> QED BY <1>1, <1>2, <1>3 DEF AtaIInv

-----------------------------------------------------------------------------
(* The drive goes on by itself *)

LEMMA DriveKeeps == ASSUME AtaIInv, Drive PROVE AtaIInv'
<1>1. place' = place /\ timer' = timer /\ call' = call /\ buffer' = buffer /\ result' = result
      /\ before' = before /\ late' = late
  BY DEF Drive, host
<1>2. lba' = lba
  BY DEF Drive, Works, Finds, AsksForData, Fails, Stores, Flushes
<1>3. AtaTypes'
  <2>1. /\ stored' \in [Sectors -> Data] /\ port' \in Data /\ job' \in Jobs
        /\ BSY' \in BOOLEAN /\ DRQ' \in BOOLEAN /\ failed' \in BOOLEAN
    BY DEF AtaIInv, AtaTypes, Drive, Works, Finds, AsksForData, Fails, Stores, Flushes, Jobs
  <2> QED BY <1>1, <1>2, <2>1 DEF AtaIInv, AtaTypes
<1>4. DriveOK'
  BY DEF AtaIInv, AtaTypes, DriveOK, Drive, Works, Finds, AsksForData, Fails, Stores, Flushes, Jobs
<1>5. ASSUME ~late PROVE ReadSteps'
  <2>1. ReadSteps
    BY <1>5 DEF AtaIInv, InStepWithDrive
  <2> QED BY <1>1, <1>2, <2>1
          DEF ReadSteps, Asked, Chosen, AtaIInv, DriveOK, Drive, Works, Finds, AsksForData, Fails, Stores, Flushes
<1>6. CASE Stores
  <2>1. BSY /\ job = "store" /\ job' = "none" /\ DRQ' = DRQ /\ BSY' = FALSE
        /\ stored' = [stored EXCEPT ![lba] = port] /\ port' = port
    BY <1>6 DEF Stores
  <2>2. Storing => Landed'
    BY <2>1, <1>1 DEF Storing, Landed, Chosen, Untouched
  <2>3. ASSUME ~late PROVE WriteSteps' /\ Done'
    <3>1. WriteSteps /\ Done
      BY <2>3 DEF AtaIInv, InStepWithDrive
    <3>2. WriteSteps'
      BY <1>1, <1>2, <2>1, <2>2, <3>1 DEF WriteSteps, Asked
    <3>3. Done'
      BY <1>1, <2>1, <3>1 DEF Done
    <3> QED BY <3>2, <3>3
  <2> QED BY <1>1, <1>3, <1>4, <1>5, <2>3 DEF AtaIInv, InStepWithDrive
<1>7. CASE ~Stores
  <2>1. BSY /\ stored' = stored /\ BSY' = FALSE 
        /\ \/ job = "read" /\ job' = job /\ failed' = failed
           \/ job = "write" /\ job' = job /\ DRQ' /\ failed' = failed
           \/ job # "store" /\ job' = "none" /\ DRQ' = DRQ /\ failed' = failed
           \/ job = "store" /\ job' = "none" /\ DRQ' = DRQ /\ failed'
        /\ ~DRQ
    BY <1>7 DEF Drive, Works, Finds, AsksForData, Fails, Flushes, AtaIInv, AtaTypes, DriveOK
  <2>2. Untouched' = Untouched /\ Chosen' = Chosen
    BY <1>1, <1>2, <2>1 DEF Untouched, Chosen
  <2>3. Landed => Landed'
    BY <1>1, <2>1, <2>2 DEF Landed
  <2>4. job = "store" /\ Untouched => job' = "none" /\ Landed'
    BY <2>1, <2>2 DEF Landed
  <2>5. ASSUME ~late PROVE WriteSteps' /\ Done'
    <3>1. WriteSteps /\ Done /\ (job = "none" => ~BSY)
      BY <2>5 DEF AtaIInv, InStepWithDrive, DriveOK
    <3>2. WriteSteps'
      BY <1>1, <2>1, <2>2, <2>3, <2>4, <3>1 DEF WriteSteps, Asked, Storing
    <3>3. Done'
      BY <1>1, <2>1, <2>3, <3>1 DEF Done
    <3> QED BY <3>2, <3>3
  <2> QED BY <1>1, <1>3, <1>4, <1>5, <2>5 DEF AtaIInv, InStepWithDrive
<1> QED BY <1>6, <1>7
-----------------------------------------------------------------------------
(* A call begins *)

LEMMA StartKeeps ==
  ASSUME AtaIInv, NEW f \in {"read", "write"}, NEW s \in Sectors, NEW d \in Data, NEW label,
         Start(f, s, d, label),
         label = "refuse" \/ (f = "read" /\ label = "r_select") \/ (f = "write" /\ label = "w_select")
  PROVE  AtaIInv'
<1>1. /\ call' = [f |-> f, sector |-> s, data |-> d] /\ before' = [stored |-> stored, buffer |-> buffer]
      /\ late' = (job # "none") /\ timer' = Timer /\ place' = label
      /\ stored' = stored /\ job' = job /\ BSY' = BSY /\ DRQ' = DRQ /\ lba' = lba /\ port' = port /\ failed' = FALSE
      /\ buffer' = buffer /\ result' = result
  BY DEF Start
<1>2. call'.f = f /\ call'.sector = s /\ call'.data = d /\ before'.stored = stored
  BY <1>1
<1>3. Timer \in -1..Timer /\ Timer > 0
  BY AtaAssumption
<1>4. AtaTypes'
  BY <1>1, <1>2, <1>3 DEF AtaIInv, AtaTypes, InRead, InWrite
<1>5. DriveOK'
  BY <1>1 DEF AtaIInv, DriveOK
<1>6. Untouched'
  BY <1>1, <1>2 DEF Untouched
<1>7. InStepWithDrive'
  BY <1>1, <1>3, <1>6 DEF InStepWithDrive, ReadSteps, WriteSteps, Done
<1> QED BY <1>4, <1>5, <1>7 DEF AtaIInv

-----------------------------------------------------------------------------
(* The loops *)

\* What a poll's outcome is: the loop goes on, has seen what it waits for, or
\* gives up, in vain if the drive has a job.
LEMMA PollOutcome ==
  ASSUME AtaIInv, NEW here, NEW waits \in BOOLEAN, NEW next, Poll(here, waits, next)
  PROVE  /\ place = here /\ timer' \in -1..Timer /\ late' \in BOOLEAN
         /\ UNCHANGED <<stored, job, BSY, DRQ, lba, port, failed, call, buffer, result, before>>
         /\ late => late'
         /\ \/ waits /\ place' = here /\ (timer > 0 => timer' > 0)
            \/ ~waits /\ place' = next /\ timer' = timer
            \/ waits /\ place' = next /\ timer' = 0 /\ (~late' => job = "none")
<1>1. Timer \in Nat /\ timer \in -1..Timer /\ late \in BOOLEAN
  BY AtaAssumption DEF AtaIInv, AtaTypes
<1>2. Down(timer) \in -1..Timer /\ (timer > 0 => Down(timer) >= 0)
  BY <1>1 DEF Down
<1>3. timer' = IF waits THEN Down(timer) ELSE timer
  BY DEF Poll
<1>4. timer' \in -1..Timer
  BY <1>1, <1>2, <1>3
<1>5. timer > 0 /\ waits /\ timer' # 0 => timer' > 0
  BY <1>1, <1>2, <1>3
<1>6. place = here /\ (place' = IF waits /\ timer' # 0 THEN here ELSE next)
      /\ late' = (late \/ (waits /\ timer' = 0 /\ job # "none"))
  BY DEF Poll
<1>7. UNCHANGED <<stored, job, BSY, DRQ, lba, port, failed, call, buffer, result, before>>
  BY DEF Poll, drive
<1> QED BY <1>1, <1>3, <1>4, <1>5, <1>6, <1>7

\* What a host's step that leaves the drive alone must show.
LEMMA HostStep ==
  ASSUME AtaIInv, UNCHANGED drive, UNCHANGED <<call, before>>,
         timer' \in -1..Timer, late' \in BOOLEAN, buffer' \in Data, result' \in {-1, 0},
         place' \in InRead \cup InWrite \cup {"idle", "refuse"},
         place' \in InRead => call.f = "read", place' \in InWrite => call.f = "write"
  PROVE  /\ AtaTypes' /\ DriveOK'
         /\ Chosen' = Chosen /\ Untouched' = Untouched /\ Landed' = Landed
<1>1. AtaTypes'
  BY DEF AtaIInv, AtaTypes, drive
<1>2. DriveOK'
  BY DEF AtaIInv, DriveOK, drive
<1> QED BY <1>1, <1>2 DEF Chosen, Untouched, Landed, drive

LEMMA PollKeeps ==
  AtaIInv /\ (\/ ReadAwaitIdle \/ ReadAwaitData \/ ReadAwaitDone
           \/ WriteAwaitIdle \/ WriteAwaitDone \/ WriteAwaitRequest \/ WriteAwaitEnd) => AtaIInv'
<1> DEFINE Turns(here, waits, next) ==
      /\ place = here /\ timer' \in -1..Timer /\ late' \in BOOLEAN
      /\ UNCHANGED <<stored, job, BSY, DRQ, lba, port, failed, call, buffer, result, before>>
      /\ late => late'
      /\ \/ waits /\ place' = here /\ (timer > 0 => timer' > 0)
         \/ ~waits /\ place' = next /\ timer' = timer
         \/ waits /\ place' = next /\ timer' = 0 /\ (~late' => job = "none")
<1>1. ASSUME AtaIInv, NEW here, NEW waits \in BOOLEAN, NEW next, Poll(here, waits, next)
      PROVE  Turns(here, waits, next)
  BY <1>1, PollOutcome
<1>2. ASSUME AtaIInv, NEW here, NEW waits \in BOOLEAN, NEW next, Poll(here, waits, next),
             \/ here \in InRead /\ next \in InRead
             \/ here \in InWrite /\ next \in InWrite
      PROVE  /\ AtaTypes' /\ DriveOK'
             /\ Chosen' = Chosen /\ Untouched' = Untouched /\ Landed' = Landed
  <2>1. Turns(here, waits, next)
    BY <1>2, <1>1
  <2>2. UNCHANGED drive /\ UNCHANGED <<call, before>>
    BY <2>1 DEF drive
  <2>3. buffer' \in Data /\ result' \in {-1, 0} /\ place' \in {here, next}
    BY <2>1, <1>2 DEF AtaIInv, AtaTypes
  <2>4. place' \in InRead \cup InWrite \cup {"idle", "refuse"}
    BY <2>3, <1>2
  <2>5. (place' \in InRead => call.f = "read") /\ (place' \in InWrite => call.f = "write")
    BY <2>1, <2>3, <1>2 DEF AtaIInv, AtaTypes, InRead, InWrite
  <2> QED BY <2>1, <2>2, <2>3, <2>4, <2>5, <1>2, HostStep
<1>3. ASSUME AtaIInv, ~late PROVE ReadSteps /\ WriteSteps /\ DriveOK
  BY <1>3 DEF AtaIInv, InStepWithDrive
<1>4. AtaIInv => BSY \in BOOLEAN /\ (~DRQ) \in BOOLEAN
  BY DEF AtaIInv, AtaTypes
<1>5. ASSUME AtaIInv, ReadAwaitIdle PROVE AtaIInv'
  <2>1. Poll("r_idle", BSY, "r_command")
    BY <1>5 DEF ReadAwaitIdle
  <2>2. "r_idle" \in InRead /\ "r_command" \in InRead
    BY DEF InRead
  <2>3. Turns("r_idle", BSY, "r_command")
    BY <1>5, <1>1, <1>4, <2>1
  <2>4. /\ AtaTypes' /\ DriveOK'
        /\ Chosen' = Chosen /\ Untouched' = Untouched /\ Landed' = Landed
    BY <1>5, <1>2, <1>4, <2>1, <2>2
  <2>5. ASSUME ~late' PROVE ReadSteps' /\ WriteSteps' /\ Done'
    <3>1. ReadSteps /\ WriteSteps /\ DriveOK
      BY <1>5, <1>3, <2>3, <2>5
    <3> QED BY <2>3, <2>4, <2>5, <3>1 DEF ReadSteps, WriteSteps, Done, DriveOK, Asked, Storing
  <2> QED BY <2>4, <2>5 DEF AtaIInv, InStepWithDrive
<1>6. ASSUME AtaIInv, ReadAwaitData PROVE AtaIInv'
  <2>1. Poll("r_drq", ~DRQ, "r_busy")
    BY <1>6 DEF ReadAwaitData
  <2>2. "r_drq" \in InRead /\ "r_busy" \in InRead
    BY DEF InRead
  <2>3. Turns("r_drq", ~DRQ, "r_busy")
    BY <1>6, <1>1, <1>4, <2>1
  <2>4. /\ AtaTypes' /\ DriveOK'
        /\ Chosen' = Chosen /\ Untouched' = Untouched /\ Landed' = Landed
    BY <1>6, <1>2, <1>4, <2>1, <2>2
  <2>5. ASSUME ~late' PROVE ReadSteps' /\ WriteSteps' /\ Done'
    <3>1. ReadSteps /\ WriteSteps /\ DriveOK
      BY <1>6, <1>3, <2>3, <2>5
    <3> QED BY <2>3, <2>4, <2>5, <3>1 DEF ReadSteps, WriteSteps, Done, DriveOK, Asked, Storing
  <2> QED BY <2>4, <2>5 DEF AtaIInv, InStepWithDrive
<1>7. ASSUME AtaIInv, ReadAwaitDone PROVE AtaIInv'
  <2>1. Poll("r_busy", BSY, "r_data")
    BY <1>7 DEF ReadAwaitDone
  <2>2. "r_busy" \in InRead /\ "r_data" \in InRead
    BY DEF InRead
  <2>3. Turns("r_busy", BSY, "r_data")
    BY <1>7, <1>1, <1>4, <2>1
  <2>4. /\ AtaTypes' /\ DriveOK'
        /\ Chosen' = Chosen /\ Untouched' = Untouched /\ Landed' = Landed
    BY <1>7, <1>2, <1>4, <2>1, <2>2
  <2>5. ASSUME ~late' PROVE ReadSteps' /\ WriteSteps' /\ Done'
    <3>1. ReadSteps /\ WriteSteps /\ DriveOK
      BY <1>7, <1>3, <2>3, <2>5
    <3> QED BY <2>3, <2>4, <2>5, <3>1 DEF ReadSteps, WriteSteps, Done, DriveOK, Asked, Storing
  <2> QED BY <2>4, <2>5 DEF AtaIInv, InStepWithDrive
<1>8. ASSUME AtaIInv, WriteAwaitIdle PROVE AtaIInv'
  <2>1. Poll("w_idle", BSY, "w_command")
    BY <1>8 DEF WriteAwaitIdle
  <2>2. "w_idle" \in InWrite /\ "w_command" \in InWrite
    BY DEF InWrite
  <2>3. Turns("w_idle", BSY, "w_command")
    BY <1>8, <1>1, <1>4, <2>1
  <2>4. /\ AtaTypes' /\ DriveOK'
        /\ Chosen' = Chosen /\ Untouched' = Untouched /\ Landed' = Landed
    BY <1>8, <1>2, <1>4, <2>1, <2>2
  <2>5. ASSUME ~late' PROVE ReadSteps' /\ WriteSteps' /\ Done'
    <3>1. ReadSteps /\ WriteSteps /\ DriveOK
      BY <1>8, <1>3, <2>3, <2>5
    <3> QED BY <2>3, <2>4, <2>5, <3>1 DEF ReadSteps, WriteSteps, Done, DriveOK, Asked, Storing
  <2> QED BY <2>4, <2>5 DEF AtaIInv, InStepWithDrive
<1>9. ASSUME AtaIInv, WriteAwaitDone PROVE AtaIInv'
  <2>1. Poll("w_busy", BSY, "w_drq")
    BY <1>9 DEF WriteAwaitDone
  <2>2. "w_busy" \in InWrite /\ "w_drq" \in InWrite
    BY DEF InWrite
  <2>3. Turns("w_busy", BSY, "w_drq")
    BY <1>9, <1>1, <1>4, <2>1
  <2>4. /\ AtaTypes' /\ DriveOK'
        /\ Chosen' = Chosen /\ Untouched' = Untouched /\ Landed' = Landed
    BY <1>9, <1>2, <1>4, <2>1, <2>2
  <2>5. ASSUME ~late' PROVE ReadSteps' /\ WriteSteps' /\ Done'
    <3>1. ReadSteps /\ WriteSteps /\ DriveOK
      BY <1>9, <1>3, <2>3, <2>5
    <3> QED BY <2>3, <2>4, <2>5, <3>1 DEF ReadSteps, WriteSteps, Done, DriveOK, Asked, Storing
  <2> QED BY <2>4, <2>5 DEF AtaIInv, InStepWithDrive
<1>10. ASSUME AtaIInv, WriteAwaitRequest PROVE AtaIInv'
  <2>1. Poll("w_drq", ~DRQ, "w_data")
    BY <1>10 DEF WriteAwaitRequest
  <2>2. "w_drq" \in InWrite /\ "w_data" \in InWrite
    BY DEF InWrite
  <2>3. Turns("w_drq", ~DRQ, "w_data")
    BY <1>10, <1>1, <1>4, <2>1
  <2>4. /\ AtaTypes' /\ DriveOK'
        /\ Chosen' = Chosen /\ Untouched' = Untouched /\ Landed' = Landed
    BY <1>10, <1>2, <1>4, <2>1, <2>2
  <2>5. ASSUME ~late' PROVE ReadSteps' /\ WriteSteps' /\ Done'
    <3>1. ReadSteps /\ WriteSteps /\ DriveOK
      BY <1>10, <1>3, <2>3, <2>5
    <3> QED BY <2>3, <2>4, <2>5, <3>1 DEF ReadSteps, WriteSteps, Done, DriveOK, Asked, Storing
  <2> QED BY <2>4, <2>5 DEF AtaIInv, InStepWithDrive
<1>11. ASSUME AtaIInv, WriteAwaitEnd PROVE AtaIInv'
  <2>1. Poll("w_end", BSY, "w_return")
    BY <1>11 DEF WriteAwaitEnd
  <2>2. "w_end" \in InWrite /\ "w_return" \in InWrite
    BY DEF InWrite
  <2>3. Turns("w_end", BSY, "w_return")
    BY <1>11, <1>1, <1>4, <2>1
  <2>4. /\ AtaTypes' /\ DriveOK'
        /\ Chosen' = Chosen /\ Untouched' = Untouched /\ Landed' = Landed
    BY <1>11, <1>2, <1>4, <2>1, <2>2
  <2>5. ASSUME ~late' PROVE ReadSteps' /\ WriteSteps' /\ Done'
    <3>1. ReadSteps /\ WriteSteps /\ DriveOK
      BY <1>11, <1>3, <2>3, <2>5
    <3> QED BY <2>3, <2>4, <2>5, <3>1 DEF ReadSteps, WriteSteps, Done, DriveOK, Asked, Storing
  <2> QED BY <2>4, <2>5 DEF AtaIInv, InStepWithDrive
<1> QED BY <1>5, <1>6, <1>7, <1>8, <1>9, <1>10, <1>11

-----------------------------------------------------------------------------
(* The steps between the loops *)

\* A call returns without a transfer, or gives up.
LEMMA ReturnKeeps ==
  ASSUME AtaIInv, NEW r \in {-1, 0}, Return(r), UNCHANGED <<drive, buffer>>,
         r = -1 \/ place = "w_return"
  PROVE  AtaIInv'
<1>1. place' = "idle" /\ result' = r /\ UNCHANGED <<timer, call, before, late, calls>>
      /\ UNCHANGED drive /\ buffer' = buffer
  BY DEF Return
<1>2. /\ AtaTypes' /\ DriveOK'
      /\ Chosen' = Chosen /\ Untouched' = Untouched /\ Landed' = Landed
  <2>1. timer' \in -1..Timer /\ late' \in BOOLEAN /\ buffer' \in Data /\ result' \in {-1, 0}
    BY <1>1 DEF AtaIInv, AtaTypes
  <2>2. /\ place' \in InRead \cup InWrite \cup {"idle", "refuse"}
        /\ place' \in InRead => call.f = "read"
        /\ place' \in InWrite => call.f = "write"
    BY <1>1 DEF InRead, InWrite
  <2> QED BY <1>1, <2>1, <2>2, HostStep
<1>3. ASSUME ~late PROVE ReadSteps' /\ WriteSteps' /\ Done'
  <2>1. ReadSteps /\ WriteSteps
    BY <1>3 DEF AtaIInv, InStepWithDrive
  <2>2. ReadSteps' /\ WriteSteps'
    BY <1>1 DEF ReadSteps, WriteSteps
  <2>3. r = 0 => place = "w_return" /\ call.f = "write"
    BY DEF AtaIInv, AtaTypes, InWrite
  <2>4. Done'
    BY <1>1, <1>2, <2>1, <2>3 DEF Done, WriteSteps, drive
  <2> QED BY <2>2, <2>4
<1> QED BY <1>1, <1>2, <1>3 DEF AtaIInv, InStepWithDrive

\* The address and command registers: nothing else of the drive changes than
\* what it is about to do.
LEMMA RegistersKeep ==
  AtaIInv /\ (ReadSelect \/ WriteSelect \/ ReadCommand \/ WriteCommand \/ WriteFlush) => AtaIInv'
<1> SUFFICES ASSUME AtaIInv, ReadSelect \/ WriteSelect \/ ReadCommand \/ WriteCommand \/ WriteFlush PROVE AtaIInv'
  OBVIOUS
<1>1. /\ UNCHANGED <<timer, call, buffer, result, before, late, stored, DRQ, port, failed>>
      /\ \/ place = "r_select" /\ place' = "r_idle"
         \/ place = "w_select" /\ place' = "w_idle"
         \/ place = "r_command" /\ place' = "r_drq"
         \/ place = "w_command" /\ place' = "w_busy"
         \/ place = "w_flush" /\ place' = "w_end"
  BY DEF ReadSelect, WriteSelect, ReadCommand, WriteCommand, WriteFlush, GoOn, SelectDrive, Command
<1>2. /\ lba' = lba /\ place \notin {"r_select", "w_select"}
      \/ /\ place \in {"r_select", "w_select"} /\ job' = job /\ BSY' = BSY
         /\ lba' = IF Listens THEN call.sector ELSE lba
  BY DEF ReadSelect, WriteSelect, ReadCommand, WriteCommand, WriteFlush, SelectDrive, Command
<1>3. place \notin {"r_select", "w_select"} =>
        /\ BSY' = (Listens \/ BSY)
        /\ job' = IF Listens THEN (IF place = "r_command" THEN "read" ELSE IF place = "w_command" THEN "write" ELSE "flush")
                  ELSE job
  BY DEF ReadSelect, WriteSelect, ReadCommand, WriteCommand, WriteFlush, Command
<1>4. AtaTypes'
  BY <1>1, <1>2, <1>3 DEF AtaIInv, AtaTypes, InRead, InWrite, Jobs, Listens
<1>5. DriveOK'
  <2>1. CASE Listens
    <3>1. ~BSY /\ ~DRQ /\ ~DRQ' /\ job = "none"
      BY <2>1, <1>1 DEF AtaIInv, DriveOK, Listens
    <3>2. \/ job' = job /\ BSY' = BSY
          \/ BSY' = TRUE /\ job' \in {"read", "write", "flush"}
      BY <2>1, <1>2, <1>3
    <3>3. job' = "none" <=> ~BSY'
      BY <3>1, <3>2
    <3> QED BY <3>1, <3>3 DEF DriveOK
  <2>2. CASE ~Listens
    <3>1. job' = job /\ lba' = lba /\ BSY' = BSY
      BY <2>2, <1>1, <1>2, <1>3 DEF AtaIInv, AtaTypes, Listens
    <3> QED BY <3>1, <1>1 DEF AtaIInv, DriveOK
  <2> QED BY <2>1, <2>2
<1>6. Untouched' = Untouched /\ Landed' = Landed
  BY <1>1 DEF Untouched, Landed
<1>7. ASSUME ~late PROVE ReadSteps' /\ WriteSteps' /\ Done'
  <2>1. ReadSteps /\ WriteSteps /\ DriveOK
    BY <1>7 DEF AtaIInv, InStepWithDrive
  <2>2. Listens <=> job = "none"
    BY <2>1 DEF DriveOK, Listens
  <2>3. place \in {"r_select", "w_select"} => Chosen'
    BY <1>1, <1>2, <2>1, <2>2 DEF ReadSteps, WriteSteps, Chosen
  <2>4. place \notin {"r_select", "w_select"} => Chosen' = Chosen
    BY <1>1, <1>2 DEF Chosen
  <2>5. place = "w_flush" /\ Storing => Storing'
    BY <1>1, <1>3, <1>6, <2>2, <2>4 DEF Storing
  <2>6. ReadSteps'
    BY <1>1, <1>2, <1>3, <2>1, <2>2, <2>3, <2>4 DEF ReadSteps
  <2>7. WriteSteps'
    BY <1>1, <1>2, <1>3, <1>6, <2>1, <2>2, <2>3, <2>4, <2>5 DEF WriteSteps
  <2>8. Done'
    BY <1>1 DEF Done
  <2> QED BY <2>6, <2>7, <2>8
<1> QED BY <1>1, <1>4, <1>5, <1>7 DEF AtaIInv, InStepWithDrive

\* The sector's words leave the drive, or whatever its data register holds.
LEMMA ReadTransferKeeps == AtaIInv /\ ReadTransfer => AtaIInv'
<1> SUFFICES ASSUME AtaIInv, ReadTransfer PROVE AtaIInv'
  OBVIOUS
<1>1. /\ place = "r_data" /\ timer # 0 /\ place' = "idle" /\ result' = 0
      /\ UNCHANGED <<timer, call, before, late, stored, BSY, lba, port, failed>>
      /\ DRQ' = (DRQ /\ job # "read")
      /\ job' = IF DRQ /\ job = "read" THEN "none" ELSE job
      /\ DRQ /\ job = "read" => buffer' = port
      /\ buffer' \in Data
  BY DEF ReadTransfer, Return, AtaIInv, AtaTypes
<1>2. AtaTypes'
  BY <1>1 DEF AtaIInv, AtaTypes, InRead, InWrite, Jobs
<1>3. DriveOK'
  BY <1>1 DEF AtaIInv, DriveOK
<1>4. call.f = "read"
  BY <1>1 DEF AtaIInv, AtaTypes, InRead
<1>5. ASSUME ~late PROVE ReadSteps' /\ WriteSteps' /\ Done'
  <2>1. DRQ /\ job = "read" /\ Chosen /\ port = stored[lba]
    BY <1>1, <1>5 DEF AtaIInv, InStepWithDrive, ReadSteps, Asked, DriveOK
  <2>2. job' = "none" /\ buffer' = stored'[call'.sector]
    BY <1>1, <2>1 DEF Chosen
  <2> QED BY <1>1, <1>4, <2>2 DEF ReadSteps, WriteSteps, Done
<1> QED BY <1>1, <1>2, <1>3, <1>5 DEF AtaIInv, InStepWithDrive

LEMMA WriteTransferKeeps == AtaIInv /\ WriteTransfer => AtaIInv'
<1> SUFFICES ASSUME AtaIInv, WriteTransfer PROVE AtaIInv'
  OBVIOUS
<1>1. /\ place = "w_data" /\ timer # 0 /\ place' = "w_flush"
      /\ UNCHANGED <<timer, call, buffer, result, before, late, stored, lba, failed>>
      /\ IF DRQ /\ job = "write"
           THEN port' = call.data /\ DRQ' = FALSE /\ BSY' = TRUE /\ job' = "store"
           ELSE UNCHANGED <<port, DRQ, BSY, job>>
  BY DEF WriteTransfer, GoOn
<1>2. AtaTypes'
  BY <1>1 DEF AtaIInv, AtaTypes, InRead, InWrite, Jobs
<1>3. DriveOK'
  BY <1>1 DEF AtaIInv, DriveOK
<1>4. ASSUME ~late PROVE ReadSteps' /\ WriteSteps' /\ Done'
  <2>1. DRQ /\ job = "write" /\ Chosen /\ Untouched /\ timer > 0
    BY <1>1, <1>4 DEF AtaIInv, InStepWithDrive, WriteSteps, Asked
  <2>2. Storing' /\ timer' > 0
    BY <1>1, <2>1 DEF Storing, Chosen, Untouched
  <2> QED BY <1>1, <2>2 DEF ReadSteps, WriteSteps, Done
<1> QED BY <1>1, <1>2, <1>3, <1>4 DEF AtaIInv, InStepWithDrive

-----------------------------------------------------------------------------
(* All steps *)

LEMMA BodyKeeps == AtaIInv /\ Body => AtaIInv'
<1> SUFFICES ASSUME AtaIInv, Body PROVE AtaIInv'
  OBVIOUS
<1>1. CASE \/ Refuse \/ ReadGivesUpIdle \/ ReadGivesUp
           \/ WriteGivesUpIdle \/ WriteGivesUp \/ WriteGivesUpEnd
  <2>1. Return(-1) /\ UNCHANGED <<drive, buffer>>
    BY <1>1 DEF Refuse, ReadGivesUpIdle, ReadGivesUp, WriteGivesUpIdle, WriteGivesUp, WriteGivesUpEnd, GivesUp
  <2>2. -1 \in {-1, 0} /\ (-1 = -1 \/ place = "w_return")
    OBVIOUS
  <2> QED BY <2>1, <2>2, ReturnKeeps
<1>2. CASE WriteReturn
  <2>1. Return(0) /\ UNCHANGED <<drive, buffer>> /\ place = "w_return"
    BY <1>2 DEF WriteReturn
  <2>2. 0 \in {-1, 0}
    OBVIOUS
  <2> QED BY <2>1, <2>2, ReturnKeeps
<1> QED BY <1>1, <1>2, PollKeeps, RegistersKeep, ReadTransferKeeps, WriteTransferKeeps DEF Body

LEMMA NextKeeps == AtaIInv /\ [AtaNext]_ata_vars => AtaIInv'
<1> SUFFICES ASSUME AtaIInv, [AtaNext]_ata_vars PROVE AtaIInv'
  OBVIOUS
<1>1. CASE UNCHANGED ata_vars
  BY <1>1 DEF ata_vars, AtaIInv, AtaTypes, DriveOK, InStepWithDrive, ReadSteps, WriteSteps, Done,
              Asked, Storing, Chosen, Untouched, Landed
<1>2. ASSUME NEW s \in Sectors, read_sector(s) PROVE AtaIInv'
  <2>1. "read" \in {"read", "write"} /\ buffer \in Data
    BY DEF AtaIInv, AtaTypes
  <2>2. Start("read", s, buffer, "r_select") \/ Start("read", s, buffer, "refuse")
    BY <1>2 DEF read_sector
  <2> QED BY <1>2, <2>1, <2>2, StartKeeps
<1>3. ASSUME NEW s \in Sectors, NEW d \in Data, write_sector(s, d) PROVE AtaIInv'
  <2>1. Start("write", s, d, "w_select") \/ Start("write", s, d, "refuse")
    BY <1>3 DEF write_sector
  <2> QED BY <1>3, <2>1, StartKeeps
<1> QED BY <1>1, <1>2, <1>3, BodyKeeps, DriveKeeps DEF AtaNext

\* What the drive is doing at each place in read_sector and write_sector.
THEOREM AtaInvariance == AtaSpec => []AtaIInv
  BY AtaInitIInv, NextKeeps, PTL DEF AtaSpec

\* Types, and that the drive asks for or offers data only in a transfer.
THEOREM AtaTypeCorrect == AtaSpec => []AtaTypeOK
<1>1. AtaIInv => AtaTypeOK
  BY DEF AtaIInv, AtaTypes, DriveOK, AtaTypeOK, Jobs
<1> QED BY AtaInvariance, <1>1, PTL

\* A read that succeeds has read its sector: what the data register gives is
\* the answer to this call's command, because the drive took no other
\* (read_sector, diskreader.c:62-88).
THEOREM ReadsAreCurrent == AtaSpec => []ReadIsCurrent
<1>1. AtaIInv => ReadIsCurrent
  BY DEF AtaIInv, InStepWithDrive, Done, ReadIsCurrent, Returned
<1> QED BY AtaInvariance, <1>1, PTL

\* A write that succeeds has changed its sector and no other, whenever the drive
\* stores it; or it has changed nothing, and the drive has reported so behind
\* the data, where nobody looks (write_sector, diskreader.c:89-129).
THEOREM WritesLand == AtaSpec => []WriteLands
<1>1. AtaIInv => WriteLands
  BY DEF AtaIInv, InStepWithDrive, Done, WriteLands, Returned, Landed, Untouched
<1> QED BY AtaInvariance, <1>1, PTL

-----------------------------------------------------------------------------
(* The clock *)

Names == {"second", "minute", "hour", "day", "month", "year"}
Registers == Names \cup {"A", "B", "C"}
Bytes == [Names -> 0..255]
Formats == [bcd : BOOLEAN, h24 : BOOLEAN]

\* A time that may be a wrong one, but is a time - except that February, once
\* its last day is over, does not end.
Times == {t \in [second : 0..59, minute : 0..59, hour : 0..23, day : 0..255,
                 month : 1..12, year : 0..255] :
            t.month # 2 => t.day \in 1..DaysIn(t.month, t.year)}

Early(t, n) == /\ n.month = 2 /\ n.day = DaysIn(2, n.year)
               /\ t = [n EXCEPT !.month = 3, !.day = 1]
Near(t, n) == t = n \/ Early(t, n)

BeforeReading == {"enable", "select_B", "read_B", "select_A", "read_A"}
Readings == {"select_field", "read_field", "convert"}
Places == BeforeReading \cup Readings \cup {"idle", "display"}

Types ==
  /\ now \in Calendar /\ mode \in Formats
  /\ updating \in BOOLEAN /\ uf \in BOOLEAN /\ uie \in BOOLEAN /\ irq \in BOOLEAN
  /\ is_24_hrs \in BOOLEAN /\ is_BCD \in BOOLEAN /\ quiet \in BOOLEAN /\ drifted \in BOOLEAN
  /\ index \in Registers /\ time \in Bytes
  /\ pc \in Places /\ k \in 1..7 /\ ticks \in Nat /\ shows \in Nat

\* The interrupt is requested exactly while its flag is set, and an update that
\* is announced finds it handled, for updates are a second apart.
Line ==
  /\ pc # "enable" => uie /\ irq = uf
  /\ pc = "enable" => ~irq /\ ~uie
  /\ pc \in BeforeReading \cup Readings => ticks <= 1 /\ (ticks = 1 => ~updating)
  /\ pc \notin BeforeReading => (updating => ~irq)

\* Until the fields are read the interrupt counts from zero, twice at most: for
\* the flag that was set before, and for one update.
CountsFromZero ==
  pc \in BeforeReading =>
    /\ time = [second |-> time.second, minute |-> 0, hour |-> 0, day |-> 0, month |-> 0, year |-> 0]
    /\ time.second + (IF irq THEN 1 ELSE 0) <= ticks + (IF pc = "enable" THEN 0 ELSE 1)
    /\ k = 1

\* Register A shows no update, or the one update there can be has been.
Waiting == pc = "read_A" => index \in {"A", "C"} /\ (irq \/ index = "C" => ticks = 1)

\* What the format was taken for can only be wrong one way.
FormatRead ==
  pc \notin {"enable", "select_B", "read_B"} =>
    (mode.bcd => is_BCD) /\ (is_24_hrs => mode.h24)

\* A field as the chip stores it: Stored, for any time and format.
Raw(n, m, f) ==
  LET v == IF f = "hour" /\ ~m.h24 THEN Hour12(n.hour) ELSE n[f]
      pm == f = "hour" /\ ~m.h24 /\ n.hour >= 12
  IN  (IF m.bcd THEN Bcd(v) ELSE v) + (IF pm THEN 128 ELSE 0)

\* The fields read are the chip's: it does not change while they are.
Read ==
  pc \in Readings =>
    /\ quiet /\ ~irq
    /\ pc = "convert" <=> k = 7
    /\ pc = "read_field" => index = Fields[k]
    /\ \A j \in 1..6 : j < k => time[Fields[j]] = Raw(now, mode, Fields[j])
    /\ k > 3 /\ ~drifted => mode.h24 \/ now.hour # 0

Right == ~drifted /\ is_24_hrs = mode.h24 /\ is_BCD = mode.bcd
Following ==
  pc \in {"idle", "display"} =>
    /\ time \in Times
    /\ Right => IF irq THEN Near(Advance(time), now) ELSE Near(time, now)

\* What has been read of the time is of the times it has had meanwhile, which
\* are one but for the second if the minute has been one.
ButForSecond(s, t) == /\ s.minute = t.minute /\ s.hour = t.hour /\ s.day = t.day
                      /\ s.month = t.month /\ s.year = t.year
Displaying ==
  pc = "display" =>
    /\ held \subseteq Times /\ time \in held
    /\ (\A s, t \in held : SameMinute(s, t)) => \A s \in held : ButForSecond(s, time)
    /\ DOMAIN shown \subseteq Names
    /\ shown = [f \in DOMAIN shown |-> shown[f]]
    /\ \A f \in DOMAIN shown : \E s \in held : shown[f] = s[f]

IInv == Types /\ Line /\ CountsFromZero /\ Waiting /\ FormatRead /\ Read /\ Following /\ Displaying
-----------------------------------------------------------------------------
(* update_time, as one step of the calendar *)

Rows == [second : Nat, minute : Nat, hour : Nat, day : Nat, month : Nat, year : Nat]

\* What each of the corrections does to each field.
LEMMA SecondsOf ==
  ASSUME NEW t \in Rows
  PROVE  Seconds(t) = [second |-> IF t.second + 1 >= 60 THEN 0 ELSE t.second + 1,
                       minute |-> IF t.second + 1 >= 60 THEN t.minute + 1 ELSE t.minute,
                       hour |-> t.hour, day |-> t.day, month |-> t.month, year |-> t.year]
BY DEF Rows, Seconds

LEMMA MinutesOf ==
  ASSUME NEW t \in Rows
  PROVE  Minutes(t) = [second |-> t.second,
                       minute |-> IF t.minute >= 60 THEN 0 ELSE t.minute,
                       hour |-> IF t.minute >= 60 THEN t.hour + 1 ELSE t.hour,
                       day |-> t.day, month |-> t.month, year |-> t.year]
BY DEF Rows, Minutes

LEMMA HoursOf ==
  ASSUME NEW t \in Rows
  PROVE  Hours(t) = [second |-> t.second, minute |-> t.minute,
                     hour |-> IF t.hour >= 24 THEN 0 ELSE t.hour,
                     day |-> IF t.hour >= 24 THEN (t.day + 1) % 256 ELSE t.day,
                     month |-> t.month, year |-> t.year]
BY DEF Rows, Hours

\* Whether the day is over the month's end; February's is its last day.
Over(t) == IF t.month = 2 THEN t.day = DaysIn(2, t.year) ELSE t.day > DaysIn(t.month, t.year)

LEMMA NextMonthOf ==
  ASSUME NEW t \in Rows
  PROVE  NextMonth(t) = [second |-> t.second, minute |-> t.minute, hour |-> t.hour,
                         day |-> 1, month |-> t.month + 1, year |-> t.year]
<1>1. t = [second |-> t.second, minute |-> t.minute, hour |-> t.hour,
           day |-> t.day, month |-> t.month, year |-> t.year]
  BY DEF Rows
<1> DEFINE first == [t EXCEPT !.day = 1]
<1>2. first \in Rows /\ first.day = 1 /\ first.second = t.second /\ first.minute = t.minute
      /\ first.hour = t.hour /\ first.month = t.month /\ first.year = t.year
  BY DEF Rows
<1>3. NextMonth(t) = [first EXCEPT !.month = t.month + 1]
  BY Zenon DEF NextMonth
<1> HIDE DEF first
<1>4. QED
  BY <1>2, <1>3 DEF Rows

LEMMA YearsOf ==
  ASSUME NEW t \in Rows
  PROVE  Years(t) = [second |-> t.second, minute |-> t.minute, hour |-> t.hour, day |-> t.day,
                     month |-> IF t.month > 12 THEN 1 ELSE t.month,
                     year |-> IF t.month > 12 THEN (t.year + 1) % 256 ELSE t.year]
BY DEF Rows, Years

LEMMA MonthsOf ==
  ASSUME NEW t \in Rows, t.month \in 1..12
  PROVE  ShortMonths(LongMonths(February(t))) =
           [second |-> t.second, minute |-> t.minute, hour |-> t.hour,
            day |-> IF Over(t) THEN 1 ELSE t.day,
            month |-> IF Over(t) THEN t.month + 1 ELSE t.month, year |-> t.year]
<1> DEFINE end == [second |-> t.second, minute |-> t.minute, hour |-> t.hour,
                   day |-> 1, month |-> t.month + 1, year |-> t.year]
<1>0. end \in Rows /\ end.day = 1 /\ end.month = t.month + 1 /\ end.year = t.year
  BY DEF Rows
<1>1. NextMonth(t) = end
  BY NextMonthOf
<1>2. t = [second |-> t.second, minute |-> t.minute, hour |-> t.hour,
           day |-> t.day, month |-> t.month, year |-> t.year]
  BY DEF Rows
<1>3. CASE t.month = 2
  <2>1. February(t) = IF Over(t) THEN end ELSE t
    BY <1>1, <1>3 DEF February, Over, DaysIn, Leap, Rows
  <2>2. LongMonths(end) = end /\ ShortMonths(end) = end
    BY <1>0, <1>3 DEF LongMonths, ShortMonths
  <2>3. LongMonths(t) = t /\ ShortMonths(t) = t
    BY <1>3 DEF LongMonths, ShortMonths
  <2>4. QED
    BY <1>2, <2>1, <2>2, <2>3
<1>4. CASE t.month \in {4, 6, 9, 11}
  <2>1. February(t) = t /\ LongMonths(t) = t
    BY <1>4 DEF February, LongMonths
  <2>2. ShortMonths(t) = IF Over(t) THEN end ELSE t
    BY <1>1, <1>4 DEF ShortMonths, Over, DaysIn
  <2>3. QED
    BY <1>2, <2>1, <2>2
<1>5. CASE t.month \in {1, 3, 5, 7, 8, 10, 12}
  <2>1. February(t) = t
    BY <1>5 DEF February
  <2>2. LongMonths(t) = IF Over(t) THEN end ELSE t
    BY <1>1, <1>5 DEF LongMonths, Over, DaysIn
  <2>3. ShortMonths(end) = end /\ ShortMonths(t) = t
    BY <1>0, <1>5 DEF ShortMonths
  <2>4. QED
    BY <1>2, <2>1, <2>2, <2>3
<1>6. QED
  BY <1>3, <1>4, <1>5

\* The day the hours leave, and whether it ends the month.
NextDay(t) == IF LastOfDay(t) THEN (t.day + 1) % 256 ELSE t.day
Ends(t) == IF t.month = 2 THEN NextDay(t) = DaysIn(2, t.year)
           ELSE NextDay(t) > DaysIn(t.month, t.year)

LEMMA AdvanceOf ==
  ASSUME NEW t \in Times
  PROVE  Advance(t) =
           [second |-> IF t.second = 59 THEN 0 ELSE t.second + 1,
            minute |-> IF t.second = 59 THEN IF t.minute = 59 THEN 0 ELSE t.minute + 1 ELSE t.minute,
            hour |-> IF t.second = 59 /\ t.minute = 59
                     THEN IF t.hour = 23 THEN 0 ELSE t.hour + 1 ELSE t.hour,
            day |-> IF Ends(t) THEN 1 ELSE NextDay(t),
            month |-> IF Ends(t) THEN IF t.month = 12 THEN 1 ELSE t.month + 1 ELSE t.month,
            year |-> IF Ends(t) /\ t.month = 12 THEN (t.year + 1) % 256 ELSE t.year]
<1> DEFINE a == Seconds(t)
           b == Minutes(a)
           c == Hours(b)
           d == ShortMonths(LongMonths(February(c)))
<1>0. t \in Rows /\ t.second \in 0..59 /\ t.minute \in 0..59 /\ t.hour \in 0..23 /\ t.day \in 0..255
      /\ t.month \in 1..12 /\ t.year \in 0..255
  BY DEF Times, Rows
<1>1. a = [second |-> IF t.second = 59 THEN 0 ELSE t.second + 1,
           minute |-> IF t.second = 59 THEN t.minute + 1 ELSE t.minute,
           hour |-> t.hour, day |-> t.day, month |-> t.month, year |-> t.year]
  BY <1>0, SecondsOf
<1>2. b = [second |-> IF t.second = 59 THEN 0 ELSE t.second + 1,
           minute |-> IF t.second = 59 THEN IF t.minute = 59 THEN 0 ELSE t.minute + 1 ELSE t.minute,
           hour |-> IF t.second = 59 /\ t.minute = 59 THEN t.hour + 1 ELSE t.hour,
           day |-> t.day, month |-> t.month, year |-> t.year]
  <2>1. a \in Rows
    BY <1>0, <1>1 DEF Rows
  <2> HIDE DEF a
  <2>2. QED
    BY <1>0, <1>1, <2>1, MinutesOf
<1>3. c = [second |-> IF t.second = 59 THEN 0 ELSE t.second + 1,
           minute |-> IF t.second = 59 THEN IF t.minute = 59 THEN 0 ELSE t.minute + 1 ELSE t.minute,
           hour |-> IF t.second = 59 /\ t.minute = 59
                    THEN IF t.hour = 23 THEN 0 ELSE t.hour + 1 ELSE t.hour,
           day |-> NextDay(t), month |-> t.month, year |-> t.year]
  <2>1. b \in Rows
    BY <1>0, <1>2 DEF Rows
  <2> HIDE DEF b
  <2>2. QED
    BY <1>0, <1>2, <2>1, HoursOf DEF NextDay, LastOfDay
<1>4. c \in Rows /\ c.month = t.month /\ c.day = NextDay(t) /\ c.year = t.year
  BY <1>0, <1>3 DEF Rows, NextDay
<1>5. Over(c) = Ends(t)
  <2> HIDE DEF c
  <2>1. QED
    BY <1>4 DEF Over, Ends
<1>6. d = [second |-> c.second, minute |-> c.minute, hour |-> c.hour,
           day |-> IF Ends(t) THEN 1 ELSE NextDay(t),
           month |-> IF Ends(t) THEN t.month + 1 ELSE t.month, year |-> t.year]
  <2> HIDE DEF c
  <2>1. QED
    BY <1>0, <1>4, <1>5, MonthsOf
<1>7. Years(d) = [second |-> c.second, minute |-> c.minute, hour |-> c.hour,
           day |-> IF Ends(t) THEN 1 ELSE NextDay(t),
           month |-> IF Ends(t) THEN IF t.month = 12 THEN 1 ELSE t.month + 1 ELSE t.month,
           year |-> IF Ends(t) /\ t.month = 12 THEN (t.year + 1) % 256 ELSE t.year]
  <2>0. c.second \in Nat /\ c.minute \in Nat /\ c.hour \in Nat /\ NextDay(t) \in Nat
    BY <1>4 DEF Rows
  <2> HIDE DEF c, d
  <2>1. d \in Rows
    BY <1>0, <1>6, <2>0 DEF Rows
  <2>2. QED
    BY <1>0, <1>6, <2>1, YearsOf
<1>8. Advance(t) = Years(d)
  BY DEF Advance
<1> HIDE DEF a, b, d
<1>9. QED
  BY <1>3, <1>7, <1>8

LEMMA CalendarTimes == Calendar \subseteq Times
BY DEF Calendar, Times, DaysIn

LEMMA DaysInMonth ==
  ASSUME NEW m \in 1..12, NEW y \in Nat
  PROVE  DaysIn(m, y) \in 28..31
BY DEF DaysIn

LEMMA AdvanceTimes ==
  ASSUME NEW t \in Times
  PROVE  Advance(t) \in Times
<1> DEFINE u == Advance(t)
<1>0. t.second \in 0..59 /\ t.minute \in 0..59 /\ t.hour \in 0..23 /\ t.day \in 0..255
      /\ t.month \in 1..12 /\ t.year \in 0..255 /\ (t.month # 2 => t.day \in 1..DaysIn(t.month, t.year))
  BY DEF Times
<1>1. NextDay(t) \in 0..255 /\ (t.month # 2 => NextDay(t) = t.day \/ NextDay(t) = t.day + 1)
  <2>1. DaysIn(t.month, t.year) \in 28..31
    BY <1>0, DaysInMonth
  <2>2. QED
    BY <1>0, <2>1 DEF NextDay
<1>2. /\ u.second \in 0..59 /\ u.minute \in 0..59 /\ u.hour \in 0..23 /\ u.day \in 0..255
      /\ u.month \in 1..12 /\ u.year \in 0..255
  BY <1>0, <1>1, AdvanceOf
<1>3. u = [second |-> u.second, minute |-> u.minute, hour |-> u.hour, day |-> u.day,
           month |-> u.month, year |-> u.year]
  BY AdvanceOf
<1>4. u.month # 2 => u.day \in 1..DaysIn(u.month, u.year)
  <2>1. CASE Ends(t)
    <3>1. u.day = 1 /\ DaysIn(u.month, u.year) \in 28..31
      BY <1>0, <1>2, <2>1, AdvanceOf, DaysInMonth
    <3>2. QED
      BY <3>1
  <2>2. CASE ~Ends(t)
    <3>1. u.day = NextDay(t) /\ u.month = t.month /\ u.year = t.year
      BY <2>2, AdvanceOf
    <3>2. DaysIn(t.month, t.year) \in 28..31
      BY <1>0, DaysInMonth
    <3>3. QED
      BY <1>0, <1>1, <2>2, <3>1, <3>2 DEF Ends
  <2>3. QED
    BY <2>1, <2>2
<1> HIDE DEF u
<1>5. u \in Times
  BY <1>2, <1>3, <1>4 DEF Times
<1>6. QED
  BY <1>5 DEF u

LEMMA NextSecondTimes ==
  ASSUME NEW n \in Calendar
  PROVE  NextSecond(n) \in Calendar
<1> DEFINE u == NextSecond(n)
<1>0. n.second \in 0..59 /\ n.minute \in 0..59 /\ n.hour \in 0..23 /\ n.day \in 1..31
      /\ n.month \in 1..12 /\ n.year \in 0..99 /\ n.day <= DaysIn(n.month, n.year)
  BY DEF Calendar
<1>1. DaysIn(n.month, n.year) \in 28..31
  BY <1>0, DaysInMonth
<1>2. /\ u.second \in 0..59 /\ u.minute \in 0..59 /\ u.hour \in 0..23 /\ u.day \in 1..31
      /\ u.month \in 1..12 /\ u.year \in 0..99
  BY <1>0, <1>1 DEF NextSecond, LastOfMonth
<1>3. u.day <= DaysIn(u.month, u.year)
  <2>1. CASE LastOfMonth(n)
    <3>1. u.day = 1 /\ DaysIn(u.month, u.year) \in 28..31
      BY <1>2, <2>1, DaysInMonth DEF NextSecond
    <3>2. QED
      BY <3>1
  <2>2. CASE ~LastOfMonth(n)
    <3>1. u.month = n.month /\ u.year = n.year
      BY <2>2 DEF NextSecond
    <3>2. u.day <= DaysIn(n.month, n.year)
      BY <1>0, <1>1, <2>2 DEF NextSecond, LastOfMonth
    <3>3. QED
      BY <3>1, <3>2
  <2>3. QED
    BY <2>1, <2>2
<1>4. u = [second |-> u.second, minute |-> u.minute, hour |-> u.hour, day |-> u.day,
           month |-> u.month, year |-> u.year]
  BY DEF NextSecond
<1> HIDE DEF u
<1>5. u \in Calendar
  BY <1>2, <1>3, <1>4 DEF Calendar
<1>6. QED
  BY <1>5 DEF u

\* Only the end of February can change the date within a minute.
LEMMA WithinMinute ==
  ASSUME NEW t \in Times, SameMinute(Advance(t), t)
  PROVE  ButForSecond(Advance(t), t)
<1>0. t.second \in 0..59 /\ t.minute \in 0..59 /\ t.hour \in 0..23 /\ t.day \in 0..255
      /\ t.month \in 1..12 /\ t.year \in 0..255 /\ (t.month # 2 => t.day \in 1..DaysIn(t.month, t.year))
  BY DEF Times
<1>1. t.second # 59
  <2>1. Advance(t).minute = t.minute
    BY DEF SameMinute
  <2>2. QED
    BY <1>0, <2>1, AdvanceOf
<1>2. NextDay(t) = t.day
  BY <1>1 DEF NextDay, LastOfDay
<1>3. ~Ends(t)
  <2>1. CASE t.month = 2
    <3>1. Advance(t).month = 2
      BY <2>1 DEF SameMinute
    <3>2. QED
      BY <2>1, <3>1, AdvanceOf
  <2>2. CASE t.month # 2
    <3>1. DaysIn(t.month, t.year) \in 28..31
      BY <1>0, DaysInMonth
    <3>2. QED
      BY <1>0, <1>2, <2>2, <3>1 DEF Ends
  <2>3. QED
    BY <2>1, <2>2
<1>4. QED
  BY <1>1, <1>2, <1>3, AdvanceOf DEF ButForSecond

\* Early, field by field.
LEMMA EarlyFields ==
  ASSUME NEW t \in Times, NEW n \in Calendar
  PROVE  Early(t, n) <=> /\ n.month = 2 /\ n.day = DaysIn(2, n.year)
                         /\ t.second = n.second /\ t.minute = n.minute /\ t.hour = n.hour
                         /\ t.day = 1 /\ t.month = 3 /\ t.year = n.year
<1> DEFINE first == [n EXCEPT !.month = 3]
           march == [n EXCEPT !.month = 3, !.day = 1]
<1>1. /\ first.month = 3 /\ first.second = n.second /\ first.minute = n.minute
      /\ first.hour = n.hour /\ first.year = n.year /\ first \in Rows
  BY DEF Calendar, Rows
<1>2. march = [first EXCEPT !.day = 1]
  BY Zenon
<1> HIDE DEF first, march
<1>3. march = [second |-> n.second, minute |-> n.minute, hour |-> n.hour, day |-> 1,
               month |-> 3, year |-> n.year]
  BY <1>1, <1>2 DEF Rows
<1>4. t = [second |-> t.second, minute |-> t.minute, hour |-> t.hour, day |-> t.day,
           month |-> t.month, year |-> t.year]
  BY DEF Times
<1>5. Early(t, n) <=> n.month = 2 /\ n.day = DaysIn(2, n.year) /\ t = march
  BY Zenon DEF Early, march
<1>6. QED
  BY <1>3, <1>4, <1>5

\* The code's second and the calendar's are the same one, the moments apart at
\* which they part.
LEMMA FollowsOn ==
  ASSUME NEW t \in Times, NEW n \in Calendar, Near(t, n), ~Miscounted(n)
  PROVE  Near(Advance(t), NextSecond(n))
<1> DEFINE u == Advance(t)
           m == NextSecond(n)
<1>0. n.second \in 0..59 /\ n.minute \in 0..59 /\ n.hour \in 0..23 /\ n.day \in 1..31
      /\ n.month \in 1..12 /\ n.year \in 0..99 /\ n.day <= DaysIn(n.month, n.year)
  BY DEF Calendar
<1>1. DaysIn(n.month, n.year) \in 28..31
  BY <1>0, DaysInMonth
<1>2. u \in Times /\ m \in Calendar
  BY AdvanceTimes, NextSecondTimes
<1>3. m = [second |-> IF n.second = 59 THEN 0 ELSE n.second + 1,
           minute |-> IF n.second = 59 THEN IF n.minute = 59 THEN 0 ELSE n.minute + 1 ELSE n.minute,
           hour |-> IF n.second = 59 /\ n.minute = 59
                    THEN IF n.hour = 23 THEN 0 ELSE n.hour + 1 ELSE n.hour,
           day |-> IF LastOfMonth(n) THEN 1 ELSE IF LastOfDay(n) THEN n.day + 1 ELSE n.day,
           month |-> IF LastOfMonth(n) THEN IF n.month = 12 THEN 1 ELSE n.month + 1 ELSE n.month,
           year |-> IF LastOfMonth(n) /\ n.month = 12 THEN n.year + 1 ELSE n.year]
  <2>1. LastOfMonth(n) /\ n.month = 12 => n.year # 99
    BY DEF Miscounted
  <2>2. QED
    BY <1>0, <2>1 DEF NextSecond
<1>4. CASE t = n
  <2>1. NextDay(n) = IF LastOfDay(n) THEN n.day + 1 ELSE n.day
    BY <1>0 DEF NextDay
  <2>2. CASE n.month = 2 /\ Ends(n)
    <3>1. ~LastOfMonth(n)
      BY <2>2 DEF Miscounted
    <3>2. m.day = DaysIn(2, n.year) /\ m.month = 2 /\ m.year = n.year
      BY <1>0, <1>3, <2>1, <2>2, <3>1 DEF Ends
    <3>3. u.month = 3 /\ u.day = 1 /\ u.year = n.year
      BY <1>0, <1>4, <2>2, AdvanceOf
    <3>4. u.second = m.second /\ u.minute = m.minute /\ u.hour = m.hour
      BY <1>3, <1>4, AdvanceOf
    <3> HIDE DEF u, m
    <3>5. Early(u, m)
      BY <1>2, <3>2, <3>3, <3>4, EarlyFields
    <3>6. QED
      BY <3>5 DEF Near, u, m
  <2>3. CASE ~(n.month = 2 /\ Ends(n))
    <3>1. Ends(n) <=> LastOfMonth(n)
      <4>1. CASE n.month = 2
        BY <2>3, <4>1 DEF Miscounted
      <4>2. CASE n.month # 2
        BY <1>0, <1>1, <2>1, <4>2 DEF Ends, LastOfMonth
      <4>3. QED
        BY <4>1, <4>2
    <3>2. ~LastOfMonth(n) => NextDay(n) = IF LastOfDay(n) THEN n.day + 1 ELSE n.day
      BY <2>1
    <3>3. (n.year + 1) % 256 = n.year + 1
      BY <1>0
    <3>4. u = m
      BY <1>3, <1>4, <3>1, <3>2, <3>3, AdvanceOf
    <3>5. QED
      BY <3>4 DEF Near
  <2>4. QED
    BY <2>2, <2>3
<1>5. CASE Early(t, n)
  <2>1. /\ n.month = 2 /\ n.day = DaysIn(2, n.year)
        /\ t.second = n.second /\ t.minute = n.minute /\ t.hour = n.hour
        /\ t.day = 1 /\ t.month = 3 /\ t.year = n.year
    BY <1>5, EarlyFields
  <2>2. ~LastOfDay(n) /\ ~LastOfMonth(n)
    BY <2>1 DEF Miscounted, LastOfMonth
  <2>3. ~LastOfDay(t)
    BY <2>1, <2>2 DEF LastOfDay
  <2>4. NextDay(t) = 1 /\ ~Ends(t)
    BY <2>1, <2>3 DEF NextDay, Ends, DaysIn
  <2>5. u.day = 1 /\ u.month = 3 /\ u.year = n.year
    BY <2>1, <2>4, AdvanceOf
  <2>6. m.day = n.day /\ m.month = 2 /\ m.year = n.year
    BY <1>3, <2>1, <2>2
  <2>7. u.second = m.second /\ u.minute = m.minute /\ u.hour = m.hour
    BY <1>3, <2>1, AdvanceOf
  <2> HIDE DEF u, m
  <2>8. Early(u, m)
    BY <1>2, <2>1, <2>5, <2>6, <2>7, EarlyFields
  <2>9. QED
    BY <2>8 DEF Near, u, m
<1>6. QED
  BY <1>4, <1>5 DEF Near

-----------------------------------------------------------------------------
(* The formats *)

LEMMA BcdBack ==
  ASSUME NEW v \in 0..99
  PROVE  Bcd(v) \in 0..153 /\ bcd_to_binary(Bcd(v)) = v
<1> DEFINE q == v \div 10
           r == v % 10
<1>1. q \in 0..9 /\ r \in 0..9 /\ v = 10 * q + r
  OBVIOUS
<1> HIDE DEF q, r
<1>2. (q * 16 + r) % 16 = r /\ (q * 16 + r) \div 16 = q
  BY <1>1
<1>3. Bcd(v) = q * 16 + r
  BY DEF Bcd, q, r
<1>4. QED
  BY <1>1, <1>2, <1>3 DEF bcd_to_binary

LEMMA BcdSmaller ==
  ASSUME NEW v \in 0..255
  PROVE  bcd_to_binary(v) \in 0..v /\ (v # 0 => bcd_to_binary(v) # 0) /\ (v < 16 => bcd_to_binary(v) = v)
<1> DEFINE q == v \div 16
           r == v % 16
<1>1. q \in 0..15 /\ r \in 0..15 /\ v = 16 * q + r
  OBVIOUS
<1> HIDE DEF q, r
<1>2. bcd_to_binary(v) = r + q * 10
  BY DEF bcd_to_binary, q, r
<1>3. QED
  BY <1>1, <1>2

\* A field that was read, and was taken for BCD at worst when it was not, is the
\* chip's if the format is right, and no larger if it is not.
Kept(v) == IF mode.bcd THEN Bcd(v) ELSE v
LEMMA FieldBack ==
  ASSUME NEW v \in 0..99, is_BCD \in BOOLEAN, mode.bcd \in BOOLEAN, mode.bcd => is_BCD
  PROVE  /\ Kept(v) \in 0..153 /\ Binary(Kept(v)) \in 0..v /\ (v # 0 => Binary(Kept(v)) # 0)
         /\ is_BCD = mode.bcd \/ v < 16 => Binary(Kept(v)) = v
<1>1. Bcd(v) \in 0..153 /\ bcd_to_binary(Bcd(v)) = v
  BY BcdBack
<1>2. bcd_to_binary(v) \in 0..v /\ (v # 0 => bcd_to_binary(v) # 0) /\ (v < 16 => bcd_to_binary(v) = v)
  BY BcdSmaller
<1>3. CASE mode.bcd = TRUE
  BY <1>1, <1>3 DEF Kept, Binary
<1>4. CASE mode.bcd = FALSE /\ is_BCD = TRUE
  <2>1. Kept(v) = v
    BY <1>4 DEF Kept
  <2>2. Binary(v) = bcd_to_binary(v)
    BY <1>4 DEF Binary
  <2>3. is_BCD # mode.bcd
    BY Zenon, <1>4
  <2>4. QED
    BY <1>2, <2>1, <2>2, <2>3
<1>5. CASE mode.bcd = FALSE /\ is_BCD = FALSE
  BY <1>5 DEF Kept, Binary
<1>6. (mode.bcd = TRUE \/ mode.bcd = FALSE) /\ (is_BCD = TRUE \/ is_BCD = FALSE)
  OBVIOUS
<1>7. QED
  BY Zenon, <1>3, <1>4, <1>5, <1>6

LEMMA HourBack ==
  ASSUME NEW h \in 0..23, is_BCD \in BOOLEAN, is_24_hrs \in BOOLEAN, mode \in Formats,
         mode.bcd => is_BCD, is_24_hrs => mode.h24,
         NEW s, s = Kept(IF mode.h24 THEN h ELSE Hour12(h)) + (IF ~mode.h24 /\ h >= 12 THEN 128 ELSE 0)
  PROVE  /\ s \in 0..255 /\ BinaryHour(s) \in 0..23
         /\ is_BCD = mode.bcd /\ (mode.h24 \/ h # 0) => BinaryHour(s) = h
<1>0. mode.bcd \in BOOLEAN /\ mode.h24 \in BOOLEAN
  BY DEF Formats
<1>1. CASE mode.h24 = TRUE
  <2>1. s = Kept(h) /\ h < 40
    <3>1. s = Kept(h) + 0
      BY <1>1
    <3>2. Kept(h) \in 0..153
      BY <1>0, FieldBack
    <3>3. QED
      BY <3>1, <3>2
  <2>2. s \in 0..127
    BY <2>1 DEF Kept, Bcd
  <2>3. Binary(s) \in 0..h /\ (is_BCD = mode.bcd => Binary(s) = h)
    BY <1>0, <2>1, FieldBack
  <2>4. BinaryHour(s) = Binary(s)
    BY <2>2 DEF BinaryHour
  <2>5. QED
    BY <2>2, <2>3, <2>4
<1>2. CASE mode.h24 = FALSE
  <2> DEFINE v == Hour12(h)
             b == Kept(v)
  <2>1. v \in 1..12 /\ (h >= 12 => h = IF v = 12 THEN 12 ELSE v + 12) /\ (h < 12 /\ h # 0 => v = h)
    BY DEF Hour12
  <2> HIDE DEF v
  <2>2. b \in 0..127 /\ Binary(b) = v
    <3>1. b \in 0..153 /\ Binary(b) = v
      BY <1>0, <2>1, FieldBack
    <3>2. b <= 127
      BY <2>1 DEF Kept, Bcd
    <3>3. QED
      BY <3>1, <3>2
  <2>3. s = b + (IF h >= 12 THEN 128 ELSE 0)
    BY <1>2 DEF v
  <2> HIDE DEF b
  <2>4. is_24_hrs = FALSE
    BY <1>2
  <2>5. CASE h >= 12
    <3>1. s >= 128 /\ s - 128 = b /\ s \in 0..255
      BY <2>2, <2>3, <2>5
    <3>2. BinaryHour(s) = IF v # 12 THEN v + 12 ELSE v
      BY <2>2, <2>4, <3>1 DEF BinaryHour
    <3>3. BinaryHour(s) = h
      BY <2>1, <2>5, <3>2
    <3>4. QED
      BY <3>1, <3>3
  <2>6. CASE h < 12
    <3>1. s = b
      BY <2>2, <2>3, <2>6
    <3>2. BinaryHour(s) = v
      BY <2>2, <3>1 DEF BinaryHour
    <3>3. BinaryHour(s) \in 0..23 /\ (h # 0 => BinaryHour(s) = h)
      BY <2>1, <2>6, <3>2
    <3>4. QED
      BY <1>2, <2>2, <3>1, <3>3
  <2>7. QED
    BY <2>5, <2>6
<1>3. QED
  BY <1>0, <1>1, <1>2

-----------------------------------------------------------------------------
(* Times as functions of the six names *)

LEMMA FieldNames ==
  /\ Fields[1] = "second" /\ Fields[2] = "minute" /\ Fields[3] = "hour"
  /\ Fields[4] = "day" /\ Fields[5] = "month" /\ Fields[6] = "year"
  /\ Len(Fields) = 6 /\ DOMAIN Fields = 1..6
BY DEF Fields

LEMMA NamesOf == Range(Fields) = Names /\ \A j \in 1..6 : Fields[j] \in Names
<1>1. \A j \in 1..6 : Fields[j] \in Names
  BY FieldNames DEF Names
<1>2. ASSUME NEW f \in Names PROVE f \in Range(Fields)
  <2>1. f \in {Fields[1], Fields[2], Fields[3], Fields[4], Fields[5], Fields[6]}
    BY FieldNames DEF Names
  <2>2. QED
    BY <2>1, FieldNames DEF Range
<1>3. ASSUME NEW f \in Range(Fields) PROVE f \in Names
  BY <1>1, <1>3, FieldNames DEF Range
<1>4. QED
  BY <1>1, <1>2, <1>3

LEMMA RecordIsFunction ==
  ASSUME NEW s, NEW m, NEW h, NEW d, NEW o, NEW y
  PROVE  LET r == [second |-> s, minute |-> m, hour |-> h, day |-> d, month |-> o, year |-> y]
         IN  DOMAIN r = Names /\ r = [f \in Names |-> r[f]]
BY DEF Names

LEMMA AsRecord ==
  ASSUME NEW t \in Bytes
  PROVE  t = [second |-> t.second, minute |-> t.minute, hour |-> t.hour,
              day |-> t.day, month |-> t.month, year |-> t.year]
<1> DEFINE r == [second |-> t.second, minute |-> t.minute, hour |-> t.hour,
                 day |-> t.day, month |-> t.month, year |-> t.year]
<1>1. DOMAIN r = Names /\ r = [f \in Names |-> r[f]]
  BY RecordIsFunction
<1>2. t = [f \in Names |-> t[f]]
  BY DEF Bytes
<1>3. \A f \in Names : t[f] = r[f]
  BY DEF Names
<1> HIDE DEF r
<1>4. t = r
  BY <1>1, <1>2, <1>3
<1>5. QED
  BY <1>4 DEF r

LEMMA TimesAreBytes == Times \subseteq Bytes
<1> SUFFICES ASSUME NEW t \in Times PROVE t \in Bytes
  OBVIOUS
<1>1. t = [second |-> t.second, minute |-> t.minute, hour |-> t.hour,
           day |-> t.day, month |-> t.month, year |-> t.year]
  BY DEF Times
<1>2. t = [f \in Names |-> t[f]]
  BY <1>1, RecordIsFunction
<1>3. \A f \in Names : t[f] \in 0..255
  BY DEF Times, Names
<1> QED
  BY <1>2, <1>3 DEF Bytes

-----------------------------------------------------------------------------
(* The chip's steps *)

LEMMA InitIInv == Init => IInv
<1> SUFFICES ASSUME Init PROVE IInv
  OBVIOUS
<1> USE DEF Init
<1>1. /\ DOMAIN time = Names /\ time \in Bytes
      /\ time.second = 0 /\ time.minute = 0 /\ time.hour = 0 /\ time.day = 0
      /\ time.month = 0 /\ time.year = 0
  BY NamesOf DEF Names, Bytes
<1>2. Types
  <2>1. now \in Calendar /\ mode \in Formats
    BY RtcAssumption DEF Formats
  <2>2. index \in Registers /\ pc \in Places /\ k \in 1..7 /\ ticks \in Nat /\ shows \in Nat
    BY DEF Registers, Places, BeforeReading
  <2>3. QED
    BY Zenon, <1>1, <2>1, <2>2 DEF Types
<1>3. Line
  BY DEF Line, BeforeReading, Readings
<1>4. CountsFromZero
  BY <1>1, AsRecord DEF CountsFromZero, BeforeReading
<1>5. Waiting /\ FormatRead /\ Read /\ Following /\ Displaying
  BY DEF Waiting, FormatRead, Read, Following, Displaying, Readings
<1>6. QED
  BY <1>2, <1>3, <1>4, <1>5 DEF IInv

LEMMA BeginKeeps == IInv /\ BeginUpdate => IInv'
<1> SUFFICES ASSUME IInv, BeginUpdate PROVE IInv'
  OBVIOUS
<1> USE DEF IInv, BeginUpdate, Starting
<1>1. Types'
  BY DEF Types
<1>2. Line'
  BY DEF Types, Line, BeforeReading, Readings
<1>3. CountsFromZero' /\ Waiting' /\ FormatRead'
  BY DEF CountsFromZero, Waiting, FormatRead
<1>4. Read' /\ Following'
  BY DEF Read, Following, Right
<1>5. Displaying'
  BY DEF Displaying
<1>6. QED
  BY <1>1, <1>2, <1>3, <1>4, <1>5

LEMMA EndKeeps == IInv /\ EndUpdate => IInv'
<1> SUFFICES ASSUME IInv, EndUpdate PROVE IInv'
  OBVIOUS
<1> USE DEF IInv, EndUpdate
<1>0. pc \notin Readings
  BY DEF Read, Reading, Readings
<1>1. Types'
  <2>1. now' \in Calendar /\ ticks' \in Nat
    BY NextSecondTimes DEF Types
  <2>2. irq' \in BOOLEAN /\ uf' \in BOOLEAN /\ drifted' \in BOOLEAN /\ updating' \in BOOLEAN
    BY Zenon
  <2>3. QED
    BY Zenon, <2>1, <2>2 DEF Types
<1>2. Line'
  <2>1. pc # "enable" => uie' /\ irq' = uf'
    <3>1. ASSUME pc # "enable" PROVE uie' /\ irq' = TRUE /\ uf' = TRUE
      BY Zenon, <3>1 DEF Types, Line
    <3>2. QED
      BY <3>1
  <2>2. pc = "enable" => ~irq' /\ ~uie'
    BY DEF Types, Line
  <2>3. pc \in BeforeReading \cup Readings => ticks' <= 1
    BY DEF Types, Line
  <2>4. QED
    BY <2>1, <2>2, <2>3 DEF Line
<1>3. CountsFromZero'
  <2> SUFFICES ASSUME pc \in BeforeReading PROVE CountsFromZero'
    BY DEF CountsFromZero
  <2>1. ticks = 0 /\ ticks' = 1
    BY DEF Types, Line
  <2>2. time.second \in 0..255
    BY DEF Types, Bytes, Names
  <2>3. QED
    BY <2>1, <2>2 DEF Types, Line, CountsFromZero
<1>4. Waiting'
  <2> SUFFICES ASSUME pc = "read_A" PROVE Waiting'
    BY DEF Waiting
  <2>1. ticks' = 1
    BY DEF Types, Line, BeforeReading
  <2>2. QED
    BY <2>1 DEF Waiting
<1>5. FormatRead' /\ Read'
  BY <1>0 DEF FormatRead, Read
<1>6. Following'
  <2> SUFFICES ASSUME pc \in {"idle", "display"} PROVE Following'
    BY DEF Following
  <2>1. uie /\ ~irq /\ irq'
    BY DEF Line, BeforeReading, Types
  <2>2. Right' => Right /\ ~Miscounted(now)
    BY DEF Right, Types
  <2>3. Right /\ ~Miscounted(now) => Near(Advance(time), NextSecond(now))
    BY <2>1, FollowsOn DEF Following, Types
  <2>4. QED
    BY <2>1, <2>2, <2>3 DEF Following
<1>7. Displaying'
  BY DEF Displaying
<1>8. QED
  BY <1>1, <1>2, <1>3, <1>4, <1>5, <1>6, <1>7

-----------------------------------------------------------------------------
(* The interrupt *)

LEMMA AdvanceFromZero ==
  ASSUME NEW s \in 0..50
  PROVE  Advance([second |-> s, minute |-> 0, hour |-> 0, day |-> 0, month |-> 0, year |-> 0])
           = [second |-> s + 1, minute |-> 0, hour |-> 0, day |-> 0, month |-> 0, year |-> 0]
<1> DEFINE t == [second |-> s, minute |-> 0, hour |-> 0, day |-> 0, month |-> 0, year |-> 0]
           u == [second |-> s + 1, minute |-> 0, hour |-> 0, day |-> 0, month |-> 0, year |-> 0]
<1>1. t \in Rows /\ u \in Rows
  BY DEF Rows
<1>2. Seconds(t) = u
  BY <1>1, SecondsOf
<1>3. Minutes(u) = u /\ Hours(u) = u
  BY DEF Minutes, Hours
<1>4. February(u) = u /\ LongMonths(u) = u /\ ShortMonths(u) = u /\ Years(u) = u
  BY DEF February, LongMonths, ShortMonths, Years
<1> HIDE DEF t, u
<1>5. Advance(t) = u
  BY <1>2, <1>3, <1>4 DEF Advance
<1>6. QED
  BY <1>5 DEF t, u

LEMMA InterruptKeeps == IInv /\ update_time => IInv'
<1> SUFFICES ASSUME IInv, update_time PROVE IInv'
  OBVIOUS
<1> USE DEF IInv, update_time
<1>1. pc \notin Readings
  BY DEF Read
<1>2. pc \in BeforeReading =>
        /\ time' \in Bytes /\ time'.second = time.second + 1
        /\ time' = [second |-> time'.second, minute |-> 0, hour |-> 0, day |-> 0, month |-> 0, year |-> 0]
  <2> SUFFICES ASSUME pc \in BeforeReading
               PROVE  /\ time' \in Bytes /\ time'.second = time.second + 1
                      /\ time' = [second |-> time'.second, minute |-> 0, hour |-> 0, day |-> 0, month |-> 0, year |-> 0]
    OBVIOUS
  <2> DEFINE s == time.second
             u == [second |-> s + 1, minute |-> 0, hour |-> 0, day |-> 0, month |-> 0, year |-> 0]
  <2>1. s \in 0..255
    BY DEF Types, Bytes, Names
  <2>2. s \in 0..50
    BY <2>1 DEF Types, Line, CountsFromZero
  <2>3. time = [second |-> s, minute |-> 0, hour |-> 0, day |-> 0, month |-> 0, year |-> 0]
    BY DEF CountsFromZero
  <2> HIDE DEF s
  <2>4. time' = u
    BY <2>2, <2>3, AdvanceFromZero
  <2>5. DOMAIN u = Names /\ u = [f \in Names |-> u[f]]
    BY RecordIsFunction
  <2>6. \A f \in Names : u[f] \in 0..255
    BY <2>2 DEF Names
  <2>7. u \in Bytes
    BY <2>5, <2>6 DEF Bytes
  <2>8. QED
    BY <2>4, <2>7 DEF s
<1>3. pc \notin BeforeReading => pc \in {"idle", "display"}
  BY <1>1 DEF Types, Places
<1>4. pc \in {"idle", "display"} => time \in Times /\ time' \in Times
  BY AdvanceTimes DEF Following
<1>5. Types'
  <2>1. time' \in Bytes
    BY <1>2, <1>3, <1>4, TimesAreBytes
  <2>2. index' \in Registers
    BY DEF Registers
  <2>3. irq' \in BOOLEAN /\ uf' \in BOOLEAN
    BY Zenon
  <2>4. QED
    BY Zenon, <2>1, <2>2, <2>3 DEF Types
<1>6. Line'
  BY DEF Types, Line, BeforeReading
<1>7. CountsFromZero'
  <2>1. pc \in BeforeReading => pc # "enable" /\ time.second \in Nat
    BY DEF Line, Types, Bytes, Names
  <2>2. QED
    BY <1>2, <2>1 DEF Types, CountsFromZero
<1>8. Waiting' /\ FormatRead' /\ Read'
  BY <1>1 DEF Waiting, FormatRead, Read
<1>9. Following'
  BY <1>4 DEF Following, Right, Types
<1>10. Displaying'
  <2> SUFFICES ASSUME pc = "display" PROVE Displaying'
    BY DEF Displaying
  <2>1. held \subseteq Times /\ time \in held /\ held' = held \cup {time'} /\ time' \in Times
    BY <1>4 DEF Displaying
  <2>2. ASSUME \A s, t \in held' : SameMinute(s, t)
        PROVE  \A s \in held' : ButForSecond(s, time')
    <3>1. \A s \in held : ButForSecond(s, time)
      BY <2>1, <2>2 DEF Displaying
    <3>2. SameMinute(time', time)
      BY <2>1, <2>2
    <3>3. ButForSecond(time', time)
      BY <1>4, <3>2, WithinMinute
    <3>4. QED
      BY <2>1, <3>1, <3>3 DEF ButForSecond
  <2>3. DOMAIN shown \subseteq Names /\ shown = [f \in DOMAIN shown |-> shown[f]]
    BY DEF Displaying
  <2>4. \A f \in DOMAIN shown : \E s \in held' : shown[f] = s[f]
    BY <2>1 DEF Displaying
  <2>5. QED
    BY <2>1, <2>2, <2>3, <2>4 DEF Displaying
<1>11. QED
  BY <1>5, <1>6, <1>7, <1>8, <1>9, <1>10

-----------------------------------------------------------------------------
(* read_startup_time *)

LEMMA EnableKeeps == IInv /\ enable_rtc_interrupts => IInv'
<1> SUFFICES ASSUME IInv, enable_rtc_interrupts PROVE IInv'
  OBVIOUS
<1> USE DEF IInv, enable_rtc_interrupts, At, Goto, chip
<1>1. Types'
  BY DEF Types, Select, Registers, Places, BeforeReading
<1>2. Line' /\ CountsFromZero'
  <2>1. time.second \in Nat
    BY DEF Types, Bytes, Names
  <2>2. Line'
    BY DEF Types, Line, BeforeReading, Readings
  <2>3. CountsFromZero'
    BY <2>1 DEF Types, Line, CountsFromZero, BeforeReading
  <2>4. QED
    BY <2>2, <2>3
<1>3. Waiting' /\ FormatRead' /\ Read' /\ Following' /\ Displaying'
  BY DEF Waiting, FormatRead, Read, Readings, Following, Displaying
<1>4. QED
  BY <1>1, <1>2, <1>3

LEMMA SelectStatusKeeps == IInv /\ SelectStatus => IInv'
<1> SUFFICES ASSUME IInv, SelectStatus PROVE IInv'
  OBVIOUS
<1> USE DEF IInv, SelectStatus, At, Goto, chip
<1>1. Types'
  BY DEF Types, Select, Registers, Places, BeforeReading
<1>2. Line' /\ CountsFromZero'
  BY DEF Types, Line, CountsFromZero, BeforeReading, Readings
<1>3. Waiting' /\ FormatRead' /\ Read' /\ Following' /\ Displaying'
  BY DEF Waiting, FormatRead, Read, Readings, Following, Displaying
<1>4. QED
  BY <1>1, <1>2, <1>3

LEMMA CheckStatusKeeps == IInv /\ check_status => IInv'
<1> SUFFICES ASSUME IInv, check_status PROVE IInv'
  OBVIOUS
<1> USE DEF IInv, check_status, At, Goto, chip
<1>0. is_24_hrs' \in BOOLEAN /\ is_BCD' \in BOOLEAN
  BY Zenon
<1>1. Types'
  <2>1. pc' \in Places
    BY DEF Places, BeforeReading
  <2>2. QED
    BY Zenon, <1>0, <2>1 DEF Types
<1>2. Line' /\ CountsFromZero'
  BY DEF Types, Line, CountsFromZero, BeforeReading, Readings
<1>3. Waiting' /\ Read' /\ Following' /\ Displaying'
  BY DEF Waiting, Read, Readings, Following, Displaying
<1>4. FormatRead'
  BY Zenon DEF FormatRead
<1>5. QED
  BY <1>1, <1>2, <1>3, <1>4

LEMMA SelectUpdateKeeps == IInv /\ SelectUpdate => IInv'
<1> SUFFICES ASSUME IInv, SelectUpdate PROVE IInv'
  OBVIOUS
<1> USE DEF IInv, SelectUpdate, At, Goto, chip
<1>1. Types'
  BY DEF Types, Select, Registers, Places, BeforeReading
<1>2. Line' /\ CountsFromZero'
  BY DEF Types, Line, CountsFromZero, BeforeReading, Readings
<1>3. Waiting' /\ FormatRead' /\ Read' /\ Following' /\ Displaying'
  BY DEF Select, Types, Waiting, FormatRead, Read, Readings, Following, Displaying
<1>4. QED
  BY <1>1, <1>2, <1>3

LEMMA CheckUpdatesKeeps == IInv /\ check_for_updates => IInv'
<1> SUFFICES ASSUME IInv, check_for_updates PROVE IInv'
  OBVIOUS
<1> USE DEF IInv, check_for_updates, At, Goto, chip
<1>1. Types'
  <2>1. pc' \in Places /\ quiet' \in BOOLEAN
    BY DEF Places, BeforeReading, Readings, Types
  <2>2. QED
    BY <2>1 DEF Types
<1>2. Line' /\ CountsFromZero'
  BY DEF Types, Line, CountsFromZero, BeforeReading, Readings
<1>3. Waiting' /\ FormatRead' /\ Following' /\ Displaying'
  BY DEF Types, Waiting, FormatRead, Following, Displaying
<1>4. Read'
  <2> SUFFICES ASSUME pc' = "select_field" PROVE Read'
    BY DEF Read, Readings
  <2>1. ~updating /\ quiet'
    BY DEF Waiting, Line, BeforeReading, Types
  <2>2. k = 1
    BY DEF CountsFromZero, BeforeReading
  <2>3. QED
    BY <2>1, <2>2 DEF Read, Readings
<1>5. QED
  BY <1>1, <1>2, <1>3, <1>4

LEMMA SelectFieldKeeps == IInv /\ SelectField => IInv'
<1> SUFFICES ASSUME IInv, SelectField PROVE IInv'
  OBVIOUS
<1> USE DEF IInv, SelectField, At, Goto, chip
<1>0. quiet /\ ~irq /\ k \in 1..6
  BY DEF Types, Read, Readings
<1>1. Types'
  <2>1. index' \in Registers /\ pc' \in Places
    BY <1>0, NamesOf DEF Select, Registers, Places, Readings
  <2>2. QED
    BY <2>1 DEF Types
<1>2. Line' /\ CountsFromZero'
  BY DEF Types, Line, CountsFromZero, BeforeReading, Readings
<1>3. Waiting' /\ FormatRead' /\ Following' /\ Displaying'
  BY DEF Types, Waiting, FormatRead, Following, Displaying
<1>4. Read'
  BY <1>0 DEF Read, Readings, Select
<1>5. QED
  BY <1>1, <1>2, <1>3, <1>4

LEMMA RawOf ==
  ASSUME now \in Calendar, mode \in Formats, NEW f \in Names, is_BCD \in BOOLEAN
  PROVE  /\ f # "hour" => Raw(now, mode, f) = Kept(now[f])
         /\ f = "hour" => Raw(now, mode, f) = Kept(IF mode.h24 THEN now.hour ELSE Hour12(now.hour))
                                                + (IF ~mode.h24 /\ now.hour >= 12 THEN 128 ELSE 0)
         /\ Raw(now, mode, f) = Stored(f)
         /\ Raw(now, mode, f) \in 0..255
<1>0. /\ now.hour \in 0..23 /\ mode.bcd \in BOOLEAN /\ mode.h24 \in BOOLEAN
      /\ \A g \in Names : now[g] \in 0..99
  BY DEF Calendar, Formats, Names
<1>1. Raw(now, mode, f) = Stored(f)
  BY DEF Raw, Stored
<1>2. ASSUME NEW v \in 0..99
      PROVE  Kept(v) \in 0..153 /\ (v <= 23 => Kept(v) <= 35)
  <2>1. Bcd(v) \in 0..153 /\ (v <= 23 => Bcd(v) <= 35)
    BY BcdBack DEF Bcd
  <2>2. QED
    BY <2>1 DEF Kept
<1>3. CASE f # "hour"
  <2> DEFINE w == Kept(now[f])
  <2>1. Raw(now, mode, f) = w + 0
    BY <1>3 DEF Raw, Kept
  <2>2. w \in 0..153
    BY <1>0, <1>2
  <2> HIDE DEF w
  <2>3. Raw(now, mode, f) = w /\ Raw(now, mode, f) \in 0..255
    BY <2>1, <2>2
  <2>4. QED
    BY <1>1, <1>3, <2>3 DEF w
<1>4. CASE f = "hour"
  <2> DEFINE v == IF mode.h24 THEN now.hour ELSE Hour12(now.hour)
  <2>1. Raw(now, mode, f) = Kept(v) + (IF ~mode.h24 /\ now.hour >= 12 THEN 128 ELSE 0)
    BY <1>4 DEF Raw, Kept
  <2>2. v \in 0..23
    BY <1>0 DEF Hour12
  <2> HIDE DEF v
  <2>3. Kept(v) \in 0..35
    <3>1. v \in 0..99 /\ v <= 23
      BY <2>2
    <3>2. Kept(v) \in 0..153 /\ (v <= 23 => Kept(v) <= 35)
      BY <1>2, <3>1
    <3>3. QED
      BY <3>1, <3>2
  <2>4. Raw(now, mode, f) \in 0..255
    BY <2>1, <2>3
  <2>5. QED
    BY <1>1, <1>4, <2>1, <2>4 DEF v
<1>5. QED
  BY <1>3, <1>4

LEMMA ReadFieldKeeps == IInv /\ ReadField => IInv'
<1> SUFFICES ASSUME IInv, ReadField PROVE IInv'
  OBVIOUS
<1> USE DEF IInv, ReadField, At, Goto, chip
<1>0. quiet /\ ~irq /\ k \in 1..6 /\ index = Fields[k] /\ index \in Names
  BY NamesOf DEF Types, Read, Readings
<1>1. time' = [time EXCEPT ![Fields[k]] = Raw(now, mode, Fields[k])]
  <2>1. index # "C"
    BY <1>0 DEF Names
  <2>2. Raw(now, mode, index) = Stored(index)
    BY <1>0, RawOf DEF Types
  <2>3. QED
    BY <1>0, <2>1, <2>2
<1>2. Raw(now, mode, Fields[k]) \in 0..255
  BY <1>0, RawOf DEF Types
<1>3. time' \in Bytes
  BY <1>0, <1>1, <1>2 DEF Types, Bytes
<1>4. Types'
  <2>1. k' \in 1..7 /\ pc' \in Places
    BY <1>0 DEF Places, Readings
  <2>2. drifted' \in BOOLEAN
    BY Zenon
  <2>3. QED
    BY Zenon, <1>3, <2>1, <2>2 DEF Types
<1>5. Line'
  BY DEF Types, Line, BeforeReading, Readings
<1>6. CountsFromZero' /\ Waiting' /\ FormatRead' /\ Following' /\ Displaying'
  BY DEF CountsFromZero, Waiting, FormatRead, BeforeReading, Following, Displaying
<1>7. Read'
  <2>1. ASSUME NEW j \in 1..6, j < k'
        PROVE  time'[Fields[j]] = Raw(now, mode, Fields[j])
    <3>1. time \in Bytes /\ Fields[j] \in Names /\ Fields[k] \in Names
      BY <1>0, NamesOf DEF Types
    <3>2. CASE j = k
      BY <1>1, <3>1, <3>2 DEF Bytes
    <3>3. CASE j # k
      <4>1. j < k
        BY <1>0, <2>1, <3>3
      <4>2. time[Fields[j]] = Raw(now, mode, Fields[j])
        BY <4>1 DEF Read, Readings
      <4>3. Fields[j] = Fields[k] => Raw(now, mode, Fields[j]) = Raw(now, mode, Fields[k])
        OBVIOUS
      <4>4. QED
        BY <1>1, <3>1, <4>2, <4>3 DEF Bytes
    <3>4. QED
      BY <3>2, <3>3
  <2>2. pc' \in {"select_field", "convert"} /\ (pc' = "convert" <=> k' = 7)
    BY <1>0, FieldNames
  <2>3. k' > 3 /\ drifted' = FALSE => mode.h24 \/ now.hour # 0
    <3>1. k > 3 /\ drifted = FALSE => mode.h24 \/ now.hour # 0
      BY DEF Read, Readings
    <3>2. k' > 3 => k > 3 \/ index = "hour"
      BY <1>0, FieldNames
    <3>3. drifted' = FALSE => drifted = FALSE /\ ~(index = "hour" /\ ~mode.h24 /\ now.hour = 0)
      BY Zenon DEF Types
    <3>4. QED
      BY <3>1, <3>2, <3>3
  <2>4. quiet' /\ ~irq' /\ now' = now /\ mode' = mode
    BY <1>0
  <2>5. drifted' \in BOOLEAN
    BY <1>4 DEF Types
  <2>6. QED
    BY <2>1, <2>2, <2>3, <2>4, <2>5 DEF Read
<1>8. QED
  BY <1>4, <1>5, <1>6, <1>7

\* The time is the chip's if the format was read right, and is a time if not.
LEMMA Converted ==
  ASSUME IInv, Convert
  PROVE  /\ time' \in Times
         /\ ~drifted /\ is_24_hrs = mode.h24 /\ is_BCD = mode.bcd => time' = now
<1> USE DEF IInv, Convert, At
<1>0. /\ mode.bcd \in BOOLEAN /\ mode.h24 \in BOOLEAN /\ mode \in Formats /\ now \in Calendar
      /\ is_BCD \in BOOLEAN /\ is_24_hrs \in BOOLEAN /\ time \in Bytes
      /\ (mode.bcd => is_BCD) /\ (is_24_hrs => mode.h24)
  BY DEF Types, Formats, FormatRead
<1>1. k = 7 /\ \A j \in 1..6 : time[Fields[j]] = Raw(now, mode, Fields[j])
  BY DEF Read, Readings
<1>2. ASSUME NEW f \in Names PROVE time[f] = Raw(now, mode, f)
  <2>1. f \in {Fields[1], Fields[2], Fields[3], Fields[4], Fields[5], Fields[6]}
    BY FieldNames DEF Names
  <2>2. QED
    BY <1>1, <2>1
<1>3. /\ now.second \in 0..59 /\ now.minute \in 0..59 /\ now.hour \in 0..23 /\ now.day \in 1..31
      /\ now.month \in 1..12 /\ now.year \in 0..99 /\ now.day <= DaysIn(now.month, now.year)
  BY <1>0 DEF Calendar
<1>4. time' \in [Names -> {time'[f] : f \in Names}]
      /\ \A f \in Names : time'[f] = IF f = "hour" THEN BinaryHour(time.hour) ELSE Binary(time[f])
  BY <1>0 DEF Bytes
<1>5. ASSUME NEW f \in Names, f # "hour"
      PROVE  /\ time'[f] \in 0..now[f] /\ (now[f] # 0 => time'[f] # 0)
             /\ is_BCD = mode.bcd \/ now[f] < 16 => time'[f] = now[f]
  <2> DEFINE v == now[f]
  <2>1. v \in 0..99
    BY <1>3 DEF Names
  <2>2. time'[f] = Binary(Kept(v))
    <3>1. Raw(now, mode, f) = Kept(v)
      BY <1>0, <1>5, RawOf
    <3>2. time[f] = Kept(v)
      BY <1>2, <3>1
    <3>3. QED
      BY <1>4, <1>5, <3>2
  <2> HIDE DEF v
  <2>3. QED
    BY <1>0, <2>1, <2>2, FieldBack DEF v
<1>6. /\ time'.hour \in 0..23
      /\ is_BCD = mode.bcd /\ (mode.h24 \/ now.hour # 0) => time'.hour = now.hour
  <2> DEFINE h == now.hour
             s == time.hour
  <2>1. s = Kept(IF mode.h24 THEN h ELSE Hour12(h)) + (IF ~mode.h24 /\ h >= 12 THEN 128 ELSE 0)
    <3>1. "hour" \in Names
      BY DEF Names
    <3>2. s = Raw(now, mode, "hour")
      BY <1>2, <3>1
    <3>3. QED
      BY <1>0, <3>1, <3>2, RawOf
  <2>2. time'.hour = BinaryHour(s)
    BY <1>4 DEF Names
  <2>3. h \in 0..23
    BY <1>3
  <2> HIDE DEF h, s
  <2>4. QED
    BY <1>0, <2>1, <2>2, <2>3, HourBack DEF h
<1>7. /\ time'.second \in 0..59 /\ time'.minute \in 0..59
      /\ time'.day \in 1..31 /\ time'.day <= now.day
      /\ time'.month = now.month /\ time'.year \in 0..99
  <2>1. /\ time'.second \in 0..now.second /\ time'.minute \in 0..now.minute
        /\ time'.day \in 0..now.day /\ time'.day # 0 /\ time'.month = now.month
        /\ time'.year \in 0..now.year
    BY <1>3, <1>5 DEF Names
  <2>2. QED
    BY <1>3, <2>1
<1>8. time' = [second |-> time'.second, minute |-> time'.minute, hour |-> time'.hour,
               day |-> time'.day, month |-> time'.month, year |-> time'.year]
  <2> DEFINE u == time'
  <2>0. u.second \in 0..255 /\ u.minute \in 0..255 /\ u.hour \in 0..255 /\ u.day \in 0..255
        /\ u.month \in 0..255 /\ u.year \in 0..255
    BY <1>3, <1>6, <1>7
  <2>2. u \in [Names -> {u[f] : f \in Names}]
    BY <1>4
  <2> HIDE DEF u
  <2>1. \A f \in Names : u[f] \in 0..255
    BY <2>0 DEF Names
  <2>3. u \in Bytes
    BY <2>1, <2>2 DEF Bytes
  <2>4. QED
    BY <2>3, AsRecord DEF u
<1>9. time' \in Times
  <2>1. DaysIn(time'.month, time'.year) = DaysIn(now.month, now.year) \/ time'.month = 2
    BY <1>7 DEF DaysIn
  <2>2. DaysIn(now.month, now.year) \in 28..31
    BY <1>3, DaysInMonth
  <2>3. time'.month # 2 => time'.day \in 1..DaysIn(time'.month, time'.year)
    BY <1>3, <1>7, <2>1, <2>2
  <2>4. QED
    BY <1>3, <1>6, <1>7, <1>8, <2>3 DEF Times
<1>10. ASSUME ~drifted, is_24_hrs = mode.h24, is_BCD = mode.bcd
       PROVE  time' = now
  <2>1. mode.h24 \/ now.hour # 0
    BY <1>1, <1>10 DEF Read, Readings
  <2>2. /\ time'.second = now.second /\ time'.minute = now.minute /\ time'.hour = now.hour
        /\ time'.day = now.day /\ time'.month = now.month /\ time'.year = now.year
    BY <1>5, <1>6, <1>10, <2>1 DEF Names
  <2>3. now = [second |-> now.second, minute |-> now.minute, hour |-> now.hour,
               day |-> now.day, month |-> now.month, year |-> now.year]
    BY <1>0 DEF Calendar
  <2>4. QED
    BY <1>8, <2>2, <2>3
<1>11. QED
  BY <1>9, <1>10

LEMMA ConvertKeeps == IInv /\ Convert => IInv'
<1> SUFFICES ASSUME IInv, Convert PROVE IInv'
  OBVIOUS
<1> USE DEF IInv, Convert, At, Goto, chip
<1>0. quiet /\ ~irq
  BY DEF Read, Readings
<1>1. /\ time' \in Times
      /\ ~drifted /\ is_24_hrs = mode.h24 /\ is_BCD = mode.bcd => time' = now
  BY Converted
<1>2. Types'
  <2>1. time' \in Bytes
    BY <1>1, TimesAreBytes
  <2>2. index' \in Registers /\ pc' \in Places
    BY DEF Select, Registers, Names, Places
  <2>3. QED
    BY <2>1, <2>2 DEF Types
<1>3. Line' /\ CountsFromZero'
  BY <1>0 DEF Types, Line, CountsFromZero, BeforeReading, Readings
<1>4. Waiting' /\ FormatRead' /\ Read' /\ Displaying'
  BY DEF Waiting, FormatRead, Read, Readings, Displaying
<1>5. Following'
  BY <1>0, <1>1 DEF Following, Right, Near
<1>6. QED
  BY <1>2, <1>3, <1>4, <1>5

-----------------------------------------------------------------------------
(* display_time *)

LEMMA StartDisplayKeeps == IInv /\ StartDisplay => IInv'
<1> SUFFICES ASSUME IInv, StartDisplay PROVE IInv'
  OBVIOUS
<1> USE DEF IInv, StartDisplay, At, Goto, chip
<1>1. Types'
  BY DEF Types, Places
<1>2. Line' /\ CountsFromZero' /\ Waiting' /\ FormatRead' /\ Read' /\ Following'
  BY DEF Line, CountsFromZero, Waiting, FormatRead, Read, Following, Right, BeforeReading, Readings
<1>3. Displaying'
  <2>1. time \in Times
    BY DEF Following
  <2>2. ButForSecond(time, time)
    BY DEF ButForSecond
  <2>3. DOMAIN shown' = {}
    OBVIOUS
  <2>4. shown' = [f \in DOMAIN shown' |-> shown'[f]]
    BY <2>3
  <2>5. QED
    BY <2>1, <2>2, <2>3, <2>4 DEF Displaying
<1>4. QED
  BY <1>1, <1>2, <1>3

LEMMA ReadArgumentKeeps == IInv /\ ReadArgument => IInv'
<1> SUFFICES ASSUME IInv, ReadArgument PROVE IInv'
  OBVIOUS
<1> USE DEF IInv, ReadArgument, At, Goto, chip
<1>1. Types'
  BY DEF Types
<1>2. Line' /\ CountsFromZero' /\ Waiting' /\ FormatRead' /\ Read' /\ Following'
  BY DEF Line, CountsFromZero, Waiting, FormatRead, Read, Following, Right
<1>3. Displaying'
  <2>1. PICK f \in Range(Fields) \ DOMAIN shown :
          shown' = [g \in DOMAIN shown \cup {f} |-> IF g = f THEN time[f] ELSE shown[g]]
    OBVIOUS
  <2>2. f \in Names /\ DOMAIN shown \subseteq Names /\ time \in held
    BY NamesOf DEF Displaying
  <2>3. DOMAIN shown' \subseteq Names
    BY <2>1, <2>2
  <2>4. shown' = [g \in DOMAIN shown' |-> shown'[g]]
    BY <2>1
  <2>5. ASSUME NEW g \in DOMAIN shown' PROVE \E s \in held : shown'[g] = s[g]
    <3>1. CASE g = f
      BY <2>1, <2>2, <3>1
    <3>2. CASE g # f
      <4>1. g \in DOMAIN shown /\ shown'[g] = shown[g]
        BY <2>1, <2>5, <3>2
      <4>2. QED
        BY <4>1 DEF Displaying
    <3>3. QED
      BY <3>1, <3>2
  <2>6. QED
    BY <2>3, <2>4, <2>5 DEF Displaying
<1>4. QED
  BY <1>1, <1>2, <1>3

LEMMA DisplayKeeps == IInv /\ display_time => IInv'
<1> SUFFICES ASSUME IInv, display_time PROVE IInv'
  OBVIOUS
<1> USE DEF IInv, display_time, At, Goto, chip
<1>1. Types'
  BY DEF Types, Places
<1>2. Line' /\ CountsFromZero' /\ Waiting' /\ FormatRead' /\ Read' /\ Following' /\ Displaying'
  BY DEF Line, CountsFromZero, Waiting, FormatRead, Read, Following, Right, BeforeReading, Readings,
         Displaying
<1>3. QED
  BY <1>1, <1>2

LEMMA StutterKeeps == IInv /\ UNCHANGED vars => IInv'
<1> SUFFICES ASSUME IInv, UNCHANGED vars PROVE IInv'
  OBVIOUS
<1> USE DEF IInv, vars
<1>1. Types' /\ Line' /\ CountsFromZero' /\ Waiting' /\ FormatRead' /\ Read'
  BY DEF Types, Line, CountsFromZero, Waiting, FormatRead, Read
<1>2. Following' /\ Displaying'
  BY DEF Following, Right, Displaying
<1>3. QED
  BY <1>1, <1>2

-----------------------------------------------------------------------------
(* The theorems *)

\* Reading and following, step by step: the invariant all of it rests on
\* (rtc.c:25-146).
THEOREM ClockInvariance == Spec => []IInv
<1>1. IInv /\ [Next]_vars => IInv'
  BY BeginKeeps, EndKeeps, InterruptKeeps, EnableKeeps, SelectStatusKeeps, CheckStatusKeeps,
     SelectUpdateKeeps, CheckUpdatesKeeps, SelectFieldKeeps, ReadFieldKeeps, ConvertKeeps,
     StartDisplayKeeps, ReadArgumentKeeps, DisplayKeeps, StutterKeeps DEF Next
<1>2. QED
  BY InitIInv, <1>1, PTL DEF Spec

\* The fields are bytes, and the month is one that display_time has a name for
\* (rtc.c:144).
THEOREM ClockTypes == Spec => []TypeOK
<1>1. IInv => TypeOK
  <2> SUFFICES ASSUME IInv PROVE TypeOK
    OBVIOUS
  <2>1. pc \in Places /\ k \in 1..7 /\ time \in Bytes
    BY DEF IInv, Types
  <2>2. ~Starting => time.month \in 1..12
    BY DEF IInv, Following, Starting, Times
  <2>3. QED
    BY <2>1, <2>2, NamesOf, FieldNames DEF TypeOK, Places, BeforeReading, Readings, Bytes
<1>2. QED
  BY ClockInvariance, <1>1, PTL

\* Read at start-up while the interrupt already counts, and counted on by it,
\* the time is the chip's (rtc.c:57-141): for every time and format the machine
\* can be started with.
THEOREM TimeInStep == Spec => []InStep
<1>1. IInv => InStep
  <2> SUFFICES ASSUME IInv, ~Starting, ~irq, ~drifted, is_24_hrs = mode.h24, is_BCD = mode.bcd
               PROVE  time = now \/ MarchEarly
    BY DEF InStep
  <2>1. Near(time, now)
    BY DEF IInv, Following, Right, Starting
  <2>2. QED
    BY <2>1 DEF Near, Early, MarchEarly
<1>2. QED
  BY ClockInvariance, <1>1, PTL

\* A time that no minute passed through is displayed whole (rtc.c:142-146).
THEOREM ShownWhole == Spec => []TornAtMinute
<1>1. IInv => TornAtMinute
  <2> SUFFICES ASSUME IInv, Complete, \A s, t \in held : SameMinute(s, t)
               PROVE  shown \in held
    BY DEF TornAtMinute
  <2>1. /\ held \subseteq Times /\ DOMAIN shown = Names
        /\ \A s \in held : ButForSecond(s, time)
        /\ shown = [f \in Names |-> shown[f]]
        /\ \A f \in Names : \E s \in held : shown[f] = s[f]
    BY NamesOf DEF IInv, Displaying, Complete
  <2>2. "second" \in Names
    BY DEF Names
  <2>3. PICK s \in held : shown["second"] = s["second"]
    BY <2>1, <2>2
  <2>4. ASSUME NEW f \in Names PROVE shown[f] = s[f]
    <3>1. PICK r \in held : shown[f] = r[f]
      BY <2>1
    <3>2. ButForSecond(r, time) /\ ButForSecond(s, time)
      BY <2>1
    <3>3. f # "second" => r[f] = s[f]
      BY <3>2 DEF ButForSecond, Names
    <3>4. QED
      BY <2>3, <3>1, <3>3
  <2>5. s = [f \in Names |-> s[f]]
    BY <2>1, TimesAreBytes DEF Bytes
  <2>6. shown = s
    BY <2>1, <2>4, <2>5
  <2>7. QED
    BY <2>6
<1>2. QED
  BY ClockInvariance, <1>1, PTL
=============================================================================
