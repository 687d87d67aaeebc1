-------------------------------- MODULE Boot --------------------------------
(***************************************************************************)
(* kernel_main, src/kernel.c, as far as its order matters: the disk is     *)
(* scanned before there is a heap, paging is set up before the heap is     *)
(* first touched - by read_boot_record, for the working directory - and    *)
(* the keyboard is spoken to when interrupts are on and the heap in use.   *)
(* Startup's steps and Paging's share pc.                                  *)
(***************************************************************************)
EXTENDS Paging, Startup

CONSTANT Machines    \* the combinations of memory, disk and keyboard that are started

ASSUME BootAssumption == Heap # {}

bvars == <<vars, startup>>

PagingSetup == /\ pc = "paging_setup" /\ pc' = "read_boot_record" /\ paging_setup
               /\ UNCHANGED <<scan, host, controller>>

\* The block for the working directory is in the heap's first page.
ReadBootRecord == /\ entry[Min(Heap)] # None /\ access = None
                  /\ read_boot_record /\ UNCHANGED vars

\* Whoever needs memory touches a page, in any order; what psf_loader needs
\* before the dialogue is counted as the loop's.
UsesHeap(p) == /\ \/ pc = "loop"
                  \/ pc = "read_boot_record" /\ p = Min(Heap) /\ entry[p] = None
               /\ Touch(p) /\ UNCHANGED startup
Faults == page_fault_handler /\ UNCHANGED startup
Goes == Touched /\ UNCHANGED startup

ScanDisk == (scan_gpt \/ ScanEntry \/ NoEntry) /\ UNCHANGED vars
TalkToKeyboard == Talk /\ UNCHANGED vars

kernel_main == \/ ScanDisk \/ PagingSetup \/ ReadBootRecord \/ TalkToKeyboard
               \/ Faults \/ Goes
               \/ pc # "loop" /\ UsesHeap(Min(Heap))

BootInit == /\ \E m \in Machines : /\ memory_map = m.map /\ disk = m.disk
                                   /\ config = m.config /\ set = m.set /\ port = m.port
            /\ Init /\ StartupInit
BootNext == \/ kernel_main
            \/ \E p \in Heap : UsesHeap(p)
            \/ Devices /\ UNCHANGED vars

\* The processor goes on; controller, keyboard and disk may take for ever.
BootSpec == /\ BootInit /\ [][BootNext]_bvars
            /\ WF_bvars(kernel_main) /\ WF_bvars(Faults) /\ WF_bvars(Goes)

-----------------------------------------------------------------------------
(* Properties *)

Ours == {n \in DOMAIN disk.entries : disk.entries[n].name = PYGMALI_OS}

\* The bounds that every later read and write is checked against are those of
\* the first partition named PYGMALI_OS - of a later one only if a read failed
\* - or 0..0, which shuts out all sectors but the first; only a disk without a
\* signature, or one that failed, stays open to reads.  The geometry is that of
\* the sector they begin with (scan_gpt, diskreader.c:129-160).
PartitionIsOurs ==
  /\ pc \notin {"scan_gpt", "entries"} /\ ~failed =>
       /\ startup_read = ~disk.signed
       /\ LET found == disk.signed /\ Ours # {}
          IN  partition = IF found THEN [start |-> disk.entries[Min(Ours)].start,
                                         end   |-> disk.entries[Min(Ours)].end]
                          ELSE [start |-> 0, end |-> 0]
  /\ \/ partition = [start |-> 0, end |-> 0]
     \/ ~startup_read /\ \E n \in Ours : /\ partition.start = disk.entries[n].start
                                         /\ partition.end = disk.entries[n].end
  /\ pc \in {"keyboard", "loop"} /\ ~failed => geometry = partition.start

\* If the command byte that came back was the controller's own, the keyboard
\* goes on interrupting; and if nothing timed out and success was reported, it
\* ends up in scancode set 2, untranslated - however late its answers are
\* (disable_translation, switch_scancode_set, keyboardhandler.c:42-137).
SetUp ==
  honest /\ ~timedout =>
    /\ Interrupts(config)
    /\ reported /\ inbox = <<>> => set = 2 /\ ~Translates(config)

\* kernel_main comes to its loop, whatever the disk, the controller and the
\* keyboard do, and every access to the heap on the way and in the loop ends,
\* unless the page table is in frame 0 (kernel.c:17-41, paging.c:37-50).
Boots == <>(pc = "loop" \/ table = 0) /\ AccessEnds
=============================================================================
