# Verification of pygmali-os

TLA+ models of pygmali-os, a small 32 bit kernel with a heap, a FAT32 file
system on an ATA drive, a shell and a text editor; TLC checks them on small
instances, and the most important properties of the heap, the file system,
paging, the start-up, the drive's loops, the keyboard, the clock, the editor and
the shell's line are proved with TLAPS for every value of their constants.  Paths below are those
of the repository's `src/` directory (kmalloc.c is `src/kmalloc.c`).

    tlc -workers 2 -config MCHeap.cfg MCHeap      # any pair of the table below
    tlapm HeapProofs.tla                          # also FatProofs, TreeProofs, BootProofs, DriverProofs, KeyboardProofs, EditorProofs, ShellProofs

## The system

There is one thread: `kernel.c` initialises everything and loops for ever over
`screen_writer` (take one key event, act on it) and `msleep`.  Beside it run
three interrupt handlers, each with interrupts off: the timer (`pit_timer`),
the keyboard (`write_to_buffer`) and the clock (`update_time`); and the page
fault handler, which the kernel's own accesses to its heap call.  So there is
concurrency in three places only - the keyboard's ring, the clock's variables
and the timer's counter - and everything else is long sequences of calls,
hardware that answers late or not at all, and power that may go at any time.

    keyboard, timer, clock --IRQ--> pic --> keyboardhandler, pit, rtc
    kernel.c main loop --> writingmode (shell line) --> inputhandler --> commands
                       \-> galatea (editor)                               |
    commands, galatea --> fatparser --> diskreader --> the drive <--------+
    all of them --> kmalloc --> (page fault) --> paging

### Inventory

| component | state | operations | what is hard | what makes it correct |
|---|---|---|---|---|
| heap, kmalloc.c | list of block headers | kmalloc, kfree, krealloc, heap_stats | any sequence of splits, merges and moves; a full heap | blocks tile the heap, holders' bytes are theirs, nothing is lost, NULL only when full, every call ends |
| paging, paging.c | frame bitmap, page bitmap, page table | set_memory_bitmap, paging_setup, page_fault_handler | the BIOS's maps, frames running out | a frame for each page, in memory that exists; a fault is dealt with once |
| interrupt controllers, pic.c | lines requested and in service | PIC_sendEOI, priorities | one missing EOI silences other lines | no line stays in service |
| keyboard, keyboardhandler.c | ring of bytes, key states | write_to_buffer, read_from_buffer, get_keyevent; disable_translation, switch_scancode_set | the handler between any two reads, codes of one to eight bytes, a full ring; a controller that answers late while keys are pressed | events are the keys typed, in order, with the right shift; the keyboard ends up in the mode the decoder reads |
| timer, pit.c | ms_timer, divisors | pit_timer, msleep, set_hertz, play_sound | the loop stops when a tick stays out; bits lost by a mask | every sleep ends, notes are in tune |
| start-up and main loop, kernel.c | - | kernel_main | each step needs some of those before it; most fail silently | the loop is reached, with the partition, the heap's frames and the keyboard as they should be |
| clock, rtc.c | six fields, the format, the selected register | read_startup_time, update_time, display_time | the chip and the interrupt change what is being read | the time is the chip's |
| disk, diskreader.c | the drive's registers and status; the partition's bounds | read_sector, write_sector, scan_gpt | slow, failing and late drives, a buffer that was not filled | success means done, calls end; no other partition is touched |
| names and paths, fatparser.c | working_dir | plaintext_to_filename, filename_to_plaintext, append_path, normalize_path, file_path_destination, get_file_location | two walks and two conversions that must agree | what is named is what is found |
| file system, fatparser.c | FAT copies, clusters | create_file, delete_file, write_to_file, extend_file, modify_fat | each operation is many writes; crashes, lost writes, a full disk | no cluster shared or lost, no chain a circle, others' files untouched |
| commands, commands.c | working directory, the font's path | touch, mkdir, rm, rm -r, cd, font, orpheus, play; ls, cat, pwd | the working directory removed, paths stored across restarts | names mean the same to all of them |
| editor, galatea.c | text block, cursor, first line shown | a key each; open, save, quit | growth, wrapping, scrolling together | a text with a cursor, and it is in view |
| shell line, writingmode.c | cells, cursor, input_buffer with two indices | a key each, Enter | the same line kept twice | what is run is what is shown |
| shell history and arguments, inputhandler.c | history buffer, argv | store_prev_inputs, back_history, forward_history, parse_input, clear_args | bytes moved by counts, failures half way | recalled lines are entered lines, arguments are freed |
| player, orpheus.c | position in a text of notes | play_song, note_dur | divisions by and of small numbers | heard as written |
| terminal, tty.c | cells, font | terminal_putchar, psf_loader, reload_fonts | a font that is not found | the kernel starts again |
| processes, syscalls, exception tables, boot sectors, library | | | not modelled, see below | |

## Modules

A module models one component; handlers run with interrupts off and the rest is
one thread, so the grain of an action is what another party can see: a handler
or a key is one action; a read of the ring, an access to a port, a write to the
disk and an iteration of a heap loop are one action each.

| module | models | state and actions in the code |
|---|---|---|
| `Alloc` | what callers of the heap rely on | abstract: pointers with disjoint ranges |
| `Heap` | kmalloc.c | `hdr` is the linked list of `block_header`s; `Call` begins kmalloc, kfree, krealloc or heap_stats, `Run` is one iteration of its loop; `held` is what callers own |
| `Maps` | - | two updates of finite maps |
| `Pic` | pic.c and the 8259s | `irr`, `isr`; `Serve(l, eoi)` accepts a line, runs its handler and ends it with `PIC_sendEOI` |
| `Keyboard` (extends `Pic`) | keyboardhandler.c, pit.c, the main loop | `keyboard_buffer`, `head`, `tail`, `key_state`; one action per read of the ring; `Type`, `SendByte`, `Tick` are the devices; `keyboard` says whether codes arrive whole or byte by byte |
| `Startup` | scan_gpt, read_boot_record, disable_translation, switch_scancode_set | `gpt` is the buffer, which a failed read leaves as it was; `step` and `polls` say where in `Dialogue`, a table of the two functions' sixteen steps; `Take`, `Deliver`, `Press` are the controller and the keyboard |
| `Boot` (composes `Paging` and `Startup`) | kernel_main | `pc`; the heap is touched first by read_boot_record, before the keyboard is spoken to |
| `Names` | names and paths of fatparser.c | operators: a name is the sequence of its parts between periods |
| `Player` | orpheus.c, the notes of pit.c | `tokens`, `next`; one action per note; `heard` is what the speaker gave |
| `Commands` (extends `Names`, `Player`) | commands.c, get_file_location, create_file, delete_file, psf_loader, reload_fonts | `entries` are the directory entries, `wd` is `working_dir`; `todo` holds the calls of delete_file and create_file still to be made; a command, and each of those calls, is one action |
| `Rtc` | rtc.c | the chip (`now`, `updating`, `uf`) with `BeginUpdate`, `EndUpdate`; the program one access to a port per action; `display_time` reads its six arguments one by one |
| `Ata` | diskreader.c | `Drive` finds, stores, flushes or fails at any time; the program one register access or poll per action, with its timer |
| `FileSys` | what the file commands promise | abstract: a tree, each command one step |
| `Fat` | fatparser.c, commands.c, the editor's save | `fats`, `data`; `todo` is the stack of calls, each disk write a step; `LoseWrite`, `Crash` |
| `EditText` | what an editor promises | abstract: a text with a cursor and a file |
| `Editor` | galatea.c, keyparse for mode 2 | `text_buffer`, `char_len`, `text_buffer_pos`, `startline`; one action per key; `EnterAgain` is the key that opened the editor, looked at again |
| `Shell` | writingmode.c, inputhandler.c, the writes to the screen in tty.c | `terminal` (cells and cursor), `input_buffer`, `input_len`, `input_pos`, the history's four variables, `argv`, `argc`; one action per key, one per argument of `parse_input` |
| `Paging` | paging.c | `page_bitmap`, `kernel_virt_page_bitmap`, the heap's page table; `paging_setup`, `Touch`, `page_fault_handler` |
| `HeapProofs`, `FatProofs`, `TreeProofs` (extends `FatProofs`), `BootProofs` (`Paging`, `Startup` and `Boot`), `DriverProofs` (`Ata` and `Rtc`), `KeyboardProofs`, `EditorProofs`, `ShellProofs` (`Shell` and `Player`) | - | the theorems |
| `MC...` | - | the constants of the runs |

`Fat` sees the drive through its results only: a write lands or is lost.  `Ata`
shows what that assumption needs of the drive.  `Heap` stands below all others,
which take memory for granted except where they say so (`Shell`'s arguments).
`Fat` and `Commands` model the same functions for different questions: `Fat`
every write, with whole paths as values; `Commands` which entry a text names,
with a deletion as one step.

What is not in the repository's `src/src` is external in PROJECT.json's map:
the 8259s, the 8042 and its keyboard, the MC146818, the ATA drive, the
processor's accesses, and the person who types.

## Runs

| run | question | bounds, and why they are enough |
|---|---|---|
| `heap` | `Tiling`, `Coalesced`, `HeldBacked`, `Accounted`, `FailsOnlyWhenFull`, `RefinesAlloc` under any sequence of calls | 104 bytes: up to six blocks, so a block has free and used neighbours on both sides, splits with and without a rest, and blocks in the last 48 bytes, which kfree refuses; two sizes, one of which needs aligning |
| `boot` | `FramesApart`, `EnoughIsUsable`, `PartitionIsOurs`, `SetUp`, `Boots` from kernel_main's first line on | six machines: memory that is enough, exactly enough, unaligned, two pieces, too little for a table, beyond 4 GB, over 16 frames; disks without GPT, without the partition, with it twice in the second sector of entries; any read may fail; controllers with translation on or off; loops of two polls, one key pressed at any time |
| `keyboard` | `EventsAsTyped`, `NoStuckKey`, `OnlyKeyboardHangs`, `SleepEnds` | a ring of 10, so that it wraps at different places within a code, print screen's among them, and overflows; a keyboard that sends whole codes of every form, one to eight bytes, three of them; one that sends byte by byte, two codes of up to three bytes, so that polls come between |
| `rtc_step` | `InStep`, `TornAtMinute` | starts two seconds before the end of first and last days, and the days around them, of all months of a leap and a common year, of the last day of year 99, and at and around noon and ten, on an ordinary day and the last of February, in all four formats; three seconds |
| `ata` | `ReadIsCurrent`, `WriteLands`, `CallsEnd`, with a drive that may report an error at any point of its work | four sectors, two in the partition; loops of three polls, shorter or longer than the drive takes; three calls, so that a late answer meets the next call and the one after |
| `fat_tree` | `NotShared`, `NoneLost`, `OthersIntact`, `TornShort`, `DirsHoldEntries`, `Implements` at every write of a run without failures | two names in two levels, seven clusters and one entry of the FAT behind them, two entries in a directory's cluster, so that directories grow; texts of up to two clusters; four commands: make, fill, replace, remove a tree, until the partition is full and beyond |
| `fat_crash` | `Acyclic`, `RoomSuffices`, `OpsEnd` | a crash and a lost write anywhere in three commands, on a disk of five clusters that fills, with directories that have to grow |
| `fat_saved` | violated: `SavedIsThere` | the FAT has an entry more than the partition has clusters |
| `editor` | `CursorVisible`, `ImplementsText`, `BrokenOnlyByLong` | a screen of two rows of four, texts of up to five characters, newlines and tabs: three rows, so it scrolls both ways; a block of three bytes, so it grows twice |
| `shell` | `LineKept`, `CursorAtText`, `RecallsWhole`, `ArgsFreed` | four rows of three, prompts of two, lines of up to five: they wrap twice, so that text scrolls away above the prompt and comes back; the cursor goes as far left of the screen as a line is long (`MaxLeft`); six bytes of history, all of which are moved along, and the line of the last Enter makes it grow (`MaxHistory` is about the bytes entered and typed); an argc of one bit; one key astray (`MaxAstray`, see below) |
| `commands` | `WorkingDirStays`, `NoOrphans`, `BootsAgain`, `PlaysAsWritten` | three commands (restarts among them) on a disk with two levels of directories, the font and its file, five songs; eleven paths: relative, absolute, through ".." and ".", too long, with a short extension; stems of two letters; one song has all 72 notes and durations, the others a bad note, no tempo, a negative one, an odd word |
| `given_name` | violated: `CreatesNamed` | as `commands` |

No run assumes more fairness than this:

- `Heap`: weak fairness of `Run`, the processor executes the call in progress.
  Callers may stop calling.
- `Keyboard`: weak fairness of the main loop, of the timer's chip and of its
  handler, which nothing holds back.  Keyboard and clock may stop at any time.
- `Fat`: weak fairness of `Step`: a command that has begun goes on; `Ata`: of
  the program and of the drive, which finishes what it does, with or without
  an error; `Boot`: of kernel_main, the fault handler and the repeated access, not
  of the disk, the controller or the keyboard.

Deadlock is not checked where the bounds end the behaviours (all configurations
except the heap's and the keyboard's), in `boot` because a fault that is refused
comes back without changing anything.

### What the properties say of the code's weak places

Several properties hold only up to a limit, and name it; the limit is where the
code does something else, and the text of the property says what.

- kfree's upper bound subtracts 48 bytes, not 12 (kmalloc.c:61): `Accounted`
  lets blocks there stay in use for good.
- With no frame left frame 0 is handed out (paging.c:142).  `FramesApart`
  says that it is the only frame shared, and `Boots` that the start hangs only
  once the page table itself is there.  `set_memory_bitmap` marks frames behind
  each region, and all frames when a region ends beyond 4 GB (paging.c:81);
  `EnoughIsUsable` is why this does no harm while there is memory directly
  above 4 MB, in regions that the loop goes through to their ends (`GoneThrough`).  The identity mapping that paging_setup means to take away stays
  (paging.c:56).
- A byte that finds the ring full stays unread and its interrupt without EOI
  (keyboardhandler.c:34): the keyboard and, behind it, the clock are dead from
  then on, while the timer and the main loop go on (`OnlyKeyboardHangs`,
  `SleepEnds`).
- A poll between two bytes of a code takes bytes that have not arrived, and tail
  passes head (keyboardhandler.c:145).  `EventsAsTyped` and `NoStuckKey` hold
  until the first such poll (`early`), the other properties beyond.
- The second byte of print screen is read without the modulus
  (keyboardhandler.c:158): when the code starts at the ring's last index, the byte
  behind the array decides what is decoded.  The same two properties hold until
  that byte and the one meant tell different things (`misled`).
- The dialogue with the keyboard waits until the output buffer is empty where it
  should wait until it is full (the comment at keyboardhandler.c:53 wonders), so
  what it reads may be an older byte; written back as the command byte, a key's
  code may turn the keyboard's interrupt off.  `SetUp` says what holds when the
  byte read was the controller's (`honest`).  The answers taken by
  write_to_buffer stay in the ring and are decoded as keys.
- A read that fails at the start is not noticed (diskreader.c:134, :142,
  fatparser.c:23): the entries of the sector read before, or the stack, are taken
  for what was asked for.  `PartitionIsOurs` says that the bounds are never those
  of another partition.  A partition name of 36 characters makes scan_gpt write
  one byte behind `gpt_identifier` (diskreader.c:149).
- The last day of February is taken for March 1 (rtc.c:120, `MarchEarly`), and
  once that day is over the code is a day ahead; started on that day, it does not
  see the month end at all, since the test is an equality that has been passed.
  The year behind 99 is 100 (rtc.c:137), and 12 AM in 12 hour mode is read as noon
  (rtc.c:92).  `drifted` remembers that the chip has passed one of these moments
  (`Miscounted`), and `InStep` holds until then.  An interrupt between rtc.c:32 and
  :33 makes the program read the wrong format, which `InStep` excepts too; what is
  displayed may be torn when the minute changes (`TornAtMinute`).
- A loop that has waited for the drive in vain leaves its timer at 0, and the
  next one counts on below it (diskreader.c:113); a late answer meets the next
  call.  The properties of `Ata` except calls from then (`late`) until the drive
  is idle again.  The flush command goes to a drive that may still be busy with
  the data and is then ignored (diskreader.c:121); what its cache loses is not
  modelled.
- An error that the drive reports behind the data is not looked at
  (diskreader.c:121-128): write_sector returns 0 for a sector that was not written.
  `WriteLands` says that a write that returned 0 has changed its sector and no
  other, or else the drive has reported such an error (`failed`) and nothing at
  all has changed.
- `extend_file` uses the result of `get_empty_cluster` unseen: on a full disk it
  writes to the header of its own heap block.  `RoomSuffices` says when that cannot
  be: a command at whose start more clusters were empty than its text takes never
  runs out, whatever it deletes first and whatever writes are lost; with as many
  as the text takes it may, when a directory has to grow as well.
- `get_empty_cluster` looks at whole sectors of the FAT and hands out clusters
  behind the partition when those within are used up (fatparser.c:379); what is
  written there is dropped.  `behind` remembers that one was handed out, and
  `NotShared`, `NoneLost`, `OthersIntact`, `TornShort`, `DirsHoldEntries` and
  `Implements` hold until then (for `FileSys` the tree is `spoilt`); the finding of `fat_saved` is what comes after.
- After a crash two files may share a cluster; what is left is that no walk is
  endless.
- A name that exists is removed first, a directory with all that is in it, also
  by touch and by a save (fatparser.c:638), though rm refuses directories
  (commands.c:100).
- The editor writes behind its screen buffer once a newline or a tab fills the
  last row, and passes a freed pointer to krealloc when it is opened a second
  time; `BrokenOnlyByLong` says that nothing else is written outside, on a screen
  of 4n columns.  On another (142 or 98 columns with the fonts that are 9 or 13
  pixels wide, tty.c) assign_line_starts pads a tab to a multiple of four of the
  line, the drawing loop to one of the row: a tab across the end of a row takes
  the drawing further than was counted, and it may leave its buffer with fewer
  lines than the screen has (`TabsCross`; the run's screen has rows of 4).
- The key that runs galatea is looked at again, in mode 2 (writingmode.c:149):
  every text opened begins with a newline (`EnterAgain`).
- An absolute path of one name, /x, is taken in the working directory by all but
  cd and ls (fatparser.c:447), and an extension of less than two characters takes
  bytes from behind the name (fatparser.c:226): with such paths things are not
  found, or trees orphaned (`odd`).  A stem of more than eight letters without a
  period is cut, though commands.c:129 says that it does not work.
- rm and touch may remove the working directory (`cut`).  The font's path is
  stored as it was typed (tty.c:66): given from another directory it is not found
  at the next start, which panics; `BootsAgain` is about paths that lead there
  from the root.
- A song with BPM 0 divides by zero: orpheus.c:22 checks the wrong variable.  A
  negative one sleeps for weeks.  The mask 0xFF1 drops bits 1 to 3 of each
  divisor (pit.c:59, :86): a millisecond is 0.7% short, and notes stay nearest to
  themselves (`PlaysAsWritten`).  pit.h:13 declares 128 notes where there are 72;
  the search goes on over what lies behind.
- The shell: backspace in the middle of a line takes the text from one byte too
  far left, and before the buffer at its second character (writingmode.c:25); a
  recalled line has length 0 (inputhandler.c:62), so editing it does nothing or
  goes to its start; Left does not go back over a wrap (writingmode.c:120), and
  what is typed more than a column left of the screen scrolls it, as
  terminal_putchar takes the column for one past the end (tty.c:152); backspace
  does not know the line's start from the row below it (writingmode.c:36) and
  erases on when nothing is left; at the last column Right looks at and moves to
  the row below the screen (:128); the screen is moved and cleared by counts of bytes where cells are meant
  (:55, :60, :63); after a recall over a line of two rows the first Enter only
  moves down (:154-160); only 1024 bytes of the history are moved, and none kept
  when it outgrows 4096 (inputhandler.c:45-47); 256 words make argc 0 (:115).
  `Shell` models all of these.  Its properties hold while none of them has
  happened (`astray = 0`) and again from the next Enter or recall on, and say
  that nothing else goes wrong.  `MaxAstray` bounds the keys after the first one
  astray, since the states behind it are many and nothing is claimed of them.

### Findings

Two disagreements have a run that shows them: a file reported saved that is empty
(`fat_saved`, galatea.c:59-61 with fatparser.c:377-389), and a file made in
another directory than the one named (`given_name`, fatparser.c:447).

## Proofs

Every theorem is about the specification of the module it is named for, with no
bound but the assumption named.

`HeapProofs`, from `HeapAssumption` (the first request fits, NULL is no address).
`Tiling` is not inductive: that merging keeps it needs to know where the loop is
and that the header it stands on is still linked; `Accounted` needs which block
is being freed; `StatsExact` needs the partial sums.  `IInv` adds `Unmerged`
(pairs still to be merged lie at or behind the loop's position), `Walk` (what
the loop variables point to) and `Summed`.  `Invariance` proves it action by
action; from it follow `TypeCorrect`, `HeapTiled`, `HeapCoalesced`,
`HoldersBacked`, `AllAccounted`, `StatsCorrect`, `NullOnlyWhenFull` (an action
property) and `HeapImplementsAlloc` (the refinement of `Alloc`).

`FatProofs`, from `FatAssumption`.  `Acyclic` is about one FAT copy, but what
will be written to it is already fixed when `modify_fat` has read it.  `IInv`
adds `Pending`: a whole FAT waiting to be written has no circle, a cluster that
waits to be linked leads nowhere, is not the one it is linked from, and only
writes to the FAT that keep this come before.  It holds for any sequence of
commands, lost writes and crashes: `NoEndlessWalk`.

For the tree this is not enough.  `DiskSound` says what the disk is like at every
write: no cluster is linked from two, each entry in use lies in a cluster in use and
has a head of its own that nothing links to, a name occurs once in a directory, and
what a file's chain holds is not read as entries.  To keep it, each call still to be
made has to be one that may be made then, after those before it (`CallSound`): a
cluster that waits to be linked is nobody's (`Unclaimed`); one is freed only when
nothing in use lies in its chain and its entry is taken away next (`FreeOK`); what
`delete_inside` has yet to meet of a directory is in the rest of its list, and
nothing takes the directories on the way to it meanwhile (`InsideOK`); a new entry's
name is in no other place of its directory, or what has it is being deleted
(`CreateAtOK`).  An entry whose head is free stands there for a while when a file is
made and when one is deleted; `Debts` names the call that ends that.  `Good` is all
this.  What each call does to the disk and to the calls that wait is the second
part of `FatProofs`; `TreeProofs` has one lemma per action: `TreeStaysSound`,
`NeverShared`.

`DirsHoldEntries` is about what a cluster was used for before.  `TidyTree`: each
cluster in the chain of a directory holds entries, or the write that clears it is
still to be made (`Tidied`); while a file of several clusters is written, a cluster
just linked to it may be cleared, but nothing else is (`TidyCall`: what is written
is a whole row of a directory, zeros, or text for a cluster that no directory has).
Between commands no write is to be made: `DirsStayClean`.

`NoneLost` says that what is in use belongs to somebody, and halfway through a
command that somebody may be a call: a chain that is being freed, a cluster about
to be linked or entered.  `AllBelong`: each cluster in use, or about to be marked so,
lies in the chain of the root or of an entry, or a call still to be made holds it
(`Holds`).  `Rooted`: each entry lies in the directory of some path that ends with its
name, so that get_file_location comes to it.  `OwnCall` is what keeps this: what is
linked to something is linked to an owned cluster, and nothing but FAT writes comes
first (`OwnLinks`); what follows a cluster that is freed is freed next (`FreesOn`),
so that delete_file's loop gives back the whole
chain; an entry is taken away only when its chain is gone and nothing waits to
mark its head (`OwnWrite`), and a new one is written where its path leads (`OwnNew`).
With no call left, only the root's and the entries' chains remain: `NothingLost`.

`OthersIntact` compares what a reader would find under a path with what was there
when the command began.  `NodeIn` is that reader, told by `On`, where a path leads,
in place of get_file_location; on a sound disk both find the same.  `Within` says that
the calls still to be made are near (`NearCall`): they are about the command's path or
one that goes on from it, an entry they put down or take away is found under no other
path (`Near`, `NearName`), and a cluster they link or fill is in no file but one found
under such a path (`NearFile`); where a directory grows it is in no file at all.  A write that is near changes neither the
entry nor the clusters of any other path, nor the way to it (`Spares`), and what it adds
is near again (`Brings`), so that the rest of the calls stay so.  With what the last look
found, that is `Others`, and `OthersUntouched` follows: at each write, so also for what a
crash at that point would leave.

The hypotheses are not for the proof's sake.  After a crash or a lost write an entry
may have a free head for good (create_file marks it last, fatparser.c:684-688), and
the next file gets the same cluster.  After a cluster behind the partition was handed
out (`behind`) a directory may have clusters that are never cleared, and two files the
same clusters.  Until then, whatever the sizes of the partition and of its FAT, nothing
leads there: `Landing` says it of each entry of the FAT, of each directory entry and of
each call still to be made, and is part of the invariant, since from it follows that
each write to a cluster arrives.

`BootProofs`, from `PagingAssumption`, `StartupAssumption` (the BIOS leaves the
keyboard's interrupt on; what is read where there is no entry is not our name) and
`BootAssumption` (there is a heap).  For paging alone, `IInv` ties each frame in use
to its bit and each page's bit to its entry, with frame 0 as the exception once
memory is exhausted: `TypeCorrect`, `HeapHasItsFrames`, `NoFaultRefused`.  That the
frames in use are in usable memory follows from their order (`InOrder`): the first
fault finds all that is wanted free (`SetupFrees`: what a region's frames come to,
in 32 bit numbers), each takes the lowest frame left, and as many have been taken
as there are below it (`HandedOut`), so that none is taken behind those wanted.

`BootUsesPaging`: each step of kernel_main is a step of `Paging` or leaves the
memory alone, so all this holds from its first line on, `FramesFromTheStart`,
`HeapInUsableMemory`.  Two invariants are for the rest.  `Scanned`: the buffer
holds some sector of entries, none of those passed was ours unless a read failed;
from it `BoundsAreOurs`.  `Talked` follows the dialogue: before the command byte is
read, every byte on its way that is no key's is the controller's command byte
(`Asked`); after it, if it was that byte and nothing timed out, each step knows what
the controller has taken and what is under way (`UnderWay`, `Left`); from it
`KeyboardSetUp`.

`DriverProofs`, the disk, from `AtaAssumption`.  `ReadIsCurrent` and `WriteLands` speak of
returns; `IInv` says at each place in the code what the drive's job is, which
sector it has and whether the data was stored or the drive has reported an error
instead (`ReadSteps`, `WriteSteps`), as long as it was not waited for in vain.  It is kept because a drive that has a job
listens to nothing (`DriveOK`) and a loop that gives up without being `late` has
seen it fail: `AtaTypeCorrect`, `ReadsAreCurrent`, `WritesLand`.

`KeyboardProofs`, from `KeyboardAssumption`.  `OnlyKeyboardHangs` is kept only
together with: as long as the keyboard's interrupt is requested or in service its
byte is in the controller (`Held`), and only after what an EOI that names no line
ends has been worked out for each handler (`TimerEnds`, `KeyboardEnds`,
`ClockEnds`): `TypeCorrect`, `OnlyTheKeyboardHangs`.  For `EventsAsTyped` and
`NoStuckKey` all bytes typed are laid out as one stream, in which code n+1 begins
behind off[n] bytes; `Faithful` says which bytes of it the wire, the controller and
the ring hold, what each read of the code at the tail has told (`ReadsCode`), and
that the events and the keys held are those of the codes taken.  It uses of a
code only that its length is the one its first bytes tell (`KeyboardAssumption`,
as in scancode set 2), and holds for any ring: `KeysAsTyped`, `KeysComeUp`.

`DriverProofs`, the clock, from `RtcAssumption` (it starts at a time of the calendar).
`IInv` says of each place in the program which registers have been read, from which
time (`RawOf`), and which interrupts came between; a read in BCD or of 12 hours
gives back what was stored (`FieldBack`, `HourBack`), and update_time's seven
functions together are the calendar's next second, from the time or from the day
ahead of it (`FollowsOn`).  Times that no minute separates differ in the second
only, so what a display mixes is one of them: `ClockInvariance`, `ClockTypes`,
`TimeInStep`, `ShownWhole`.

`EditorProofs`, from `EditorAssumption`.  `IInv`: while a text is open, it and the
zero behind it are within the block, whose size is `text_buffer_size` (`Fits`),
and the cursor's line is one of those shown (`CursorInView`, the first part of
`CursorVisible`).  What the loops over the block leave in it is stated element
by element; inserting, erasing, growing, saving and opening are then `InsertAt`,
`RemoveAt` and the like on the text, key by key: `CursorStaysInView`,
`EditorImplementsText`.

Where lines begin and where cells are drawn is computed by recursion, over the text
and over passes of the loop.  `Counted` and `OverrunsOf` show that such functions
exist (as unions over sets of numbers, and as a least set of pairs), so that the
definitions' equations may be used; from then on it is arithmetic.  `DrawnInRows`:
without tabs each character is drawn in the row in which it was counted, so
`CursorIsVisible`, the whole of `CursorVisible`.  `NotOverrun`: with tabs too, a pass
of the loop begins no further than its character's line and place in it were
counted, unless `TabsCross` or the text has more lines than the screen:
`BrokenByLongTexts`.

`ShellProofs`, from `ShellAssumption`, of which it needs that a line with its prompt
fits on the screen.  `IInv` says in each state what the screen's cursor
(`OnScreen`, `PastPrompt`), the buffer (`TypedIn`: the line, then zeros) and the history
(`Whole`: entries, each with a zero behind it; `AtEntry`: the position is where one
begins) have to do with the line, as long as the keys were ones that the buffer
follows (`Followed`), and that the arguments held are those found (`Slots`).  Each
key is then a lemma: what it does to the cursor over wraps and scrolls
(`PrintMoves`, `BackMoves`), to the buffer (`TypeText`, `EraseText`), to the history
(`StoreKeeps`, `EntryHas`).  A recalled text is printed by a fold; `Path` turns it
into a sequence of screens, one per character, and `AllNats` is induction over a
set.  The model's bounds are parameters, and the theorems hold for any of them; one
is not: a line is not typed on once its first row would leave the screen
(`StaysOnScreen`).  `LineIsKept`, `CursorIsAtText`, `RecallsAreWhole`, `ArgsAreFreed`.

Its second part is about the commands, from `CommandsAssumption` (the disk has
finitely many entries, and a song on it gives a number as its tempo).  72 frequencies
are looked at one by one: a divisor without its bits is too low for what was asked,
but never so much that the next frequency is nearer (`NextIsFurther`).  For the time
it is an estimate: each of up to two divisions drops less than its divisor, and 1185
ticks pass for 1193 (`NoteInTime`).  `AtNext`: while a song is played, all notes
before the next one are notes and were heard as they are written, so at the first
word that is none, and at the end, as many were heard as `Notes` counts
(`OverIsRight`).  That what is played is always a song of the disk needs the commands:
`CommandsOK` says that entries which are songs stay what they are, whatever is deleted,
made, or written over as the font's path, and that a file is made by the last call of
a command, when there still is room for it: `SongsPlayed`.

Only model-checked: everything about liveness and fairness (`SleepEnds`, `OpsEnd`,
`CallsEnd`, `Boots`), which the prover does not reach; of the file system,
`TornShort`, `RoomSuffices` and the refinement of `FileSys`; and the properties of `commands` but `PlaysAsWritten`.

## Assumptions

- Keyboard: with `burst` all bytes of a code arrive before the main loop runs on,
  as QEMU's keyboard sends them; without it they come one by one, and `early`
  remembers that a poll came in between.
- Keyboard controller: the BIOS leaves its interrupt on.  It takes what is written
  to it in order and answers as an 8042 with a keyboard in set 1 or 2 does; keys
  may come at any time, but no more than `MaxPresses` in the run.
- Drive: while busy or transferring it ignores registers and commands.
- `Fat`: writes reach the disk in the order they were made; the lookups read what
  is there.
- `Editor` and the shell's history: kmalloc and krealloc succeed.
- `Shell`: the screen has room for a line of `INPUT_BUFFER_SIZE` characters behind
  its prompt: 1024, on 42 rows of 98 or more with the repository's fonts (1280 by
  1024 pixels, asmsrc/newboot.s:8).
- Callers of the heap free and resize only what they hold; sizes stay far below
  2^32.

## Not modelled

- Heap blocks that early returns do not free (fatparser.c:40, :57, :177, :201,
  :216, :341; commands.c:68), and the byte that file_contents writes behind its
  block (fatparser.c:186): memory is taken for granted there.
- The end of `segments[64]` in normalize_path (fatparser.c:609), which a path of
  more than 64 parts reaches; the paths of the runs have a few.
- `tokenize_song`: `Player` is given the words.
- What a loss of power costs that the drive has only in its cache: the flush may
  have met a busy drive (diskreader.c:121).
- `scan_mbr`, behind the return of scan_gpt; `disk_info`, which nothing calls.
- `tty.c` beyond what `Shell` and `Commands` need: drawing. `printf.c`,
  `string.c`: libraries.
- `process.c`, `syscalls.c`: nothing calls them. `idt.c`, `gdt.c`, the assembler
  files: tables and straight lines of start-up.

## Plan

1. Proofs for `Fat`'s tree: `TornShort`, which needs how much of the text is
   written at each point, and with it the refinement of `FileSys`; `RoomSuffices`,
   which needs how many clusters the calls still to be made take.
2. Heap blocks in `Fat` and `Editor`: leaks, the failure paths of krealloc and
   the byte behind the block, over `Alloc`.
3. The drive's cache, below `Fat`'s writes.
