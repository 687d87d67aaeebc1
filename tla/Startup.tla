------------------------------ MODULE Startup ------------------------------
(***************************************************************************)
(* What kernel_main (src/kernel.c) does with the disk and the keyboard     *)
(* before its loop: scan_gpt and read_boot_record look for the partition,  *)
(* disable_translation and switch_scancode_set talk to the 8042 keyboard   *)
(* controller, which answers when it likes.  Interrupts are on by then:    *)
(* while the controller's interrupt bit is set write_to_buffer takes every *)
(* byte off the port before the dialogue goes on, and the dialogue's inb   *)
(* finds the byte that came last.  What is in the ring then is the         *)
(* business of Keyboard.  A read of the disk may fail; nobody looks.       *)
(***************************************************************************)
EXTENDS Integers, Sequences

CONSTANTS Disks,       \* [signed, entries]: GPT header's signature and partition entries
          PYGMALI_OS,  \* the name looked for
          Unused,      \* what is read where there is no entry
          timeout,     \* 100000: polls of one loop
          CommandBytes,\* what the BIOS may have left in the controller
          KeyBytes,    \* what the keyboard may send for a key
          MaxPresses   \* bound on the keys pressed during the dialogue

\* The BIOS leaves the keyboard's interrupt on, the lowest bit.
ASSUME StartupAssumption ==
  /\ \A d \in Disks : /\ d.signed \in BOOLEAN
                      /\ Len(d.entries) \in Nat /\ DOMAIN d.entries = 1..Len(d.entries)
  /\ Unused.name # PYGMALI_OS
  /\ CommandBytes \subseteq {b \in 0..255 : b % 2 = 1} /\ KeyBytes \subseteq 0..255

VARIABLES disk, gpt,   \* the entries in the buffer
          index,
          partition,   \* [start, end]
          startup_read,
          geometry,    \* the sector whose bytes were taken for a boot record, or -1
          failed,      \* history: a read failed
          pc,
          step, polls, \* where in the dialogue, and the loop's timeout
          command_byte,
          config,      \* the controller's command byte
          inbox,       \* what was written to the controller: <<port, byte>>, or <<>>
          awaits,      \* what the next data byte is for
          set,         \* the keyboard's scancode set
          out,         \* bytes on the way to the port: <<byte, is it a key's>>
          port, full,  \* data register and bit 0 of the status
          fresh,       \* history: the byte at the port answers the last request
          honest,      \* history: the command byte was read as the controller sent it
          timedout,    \* history
          reported,    \* "Keyboard set up successfully..." was written
          presses

scan == <<disk, gpt, index, partition, startup_read, geometry, failed>>
host == <<step, polls, command_byte, honest, timedout, reported>>
controller == <<config, inbox, awaits, set, out, port, full, fresh, presses>>
startup == <<disk, gpt, index, partition, startup_read, geometry, failed, pc, step, polls, command_byte,
             honest, timedout, reported, config, inbox, awaits, set, out, port, full, fresh, presses>>

-----------------------------------------------------------------------------
(* The disk *)

\* Mutant: iteration runs on behind the sector.
MutIteration(n) == n

\* An entry's place in its sector.
iteration(n) == n % 4

Sector(k) == [n \in {m \in 0..3 : 4 * k + m < Len(disk.entries)} |-> disk.entries[4 * k + n + 1]]
EntryAt(buffer, n) == IF n \in DOMAIN buffer THEN buffer[n] ELSE Unused

\* read_sector fills the buffer or leaves it as it is.
Read(ok, sector) == /\ gpt' = IF ok THEN sector ELSE gpt
                    /\ failed' = (failed \/ ~ok)

\* A buffer that was not filled has no signature.
scan_gpt == /\ pc = "scan_gpt"
            /\ \E ok \in BOOLEAN :
                 /\ Read(ok, <<>>)
                 /\ pc' = IF ok /\ disk.signed THEN "entries" ELSE "paging_setup"
            /\ UNCHANGED <<disk, index, partition, startup_read, geometry, host, controller>>

ScanEntry ==
  /\ pc = "entries" /\ index < Len(disk.entries)
  /\ \E ok \in BOOLEAN : Read(ok, Sector(index \div 4))
  /\ LET entry == EntryAt(gpt', iteration(index))
     IN  IF entry.name = PYGMALI_OS
         THEN /\ partition' = [start |-> entry.start, end |-> entry.end]
              /\ startup_read' = FALSE /\ pc' = "paging_setup" /\ index' = index
         ELSE index' = index + 1 /\ UNCHANGED <<partition, startup_read, pc>>
  /\ UNCHANGED <<disk, geometry, host, controller>>

NoEntry == /\ pc = "entries" /\ index = Len(disk.entries)
           /\ startup_read' = FALSE /\ pc' = "paging_setup"
           /\ UNCHANGED <<disk, gpt, index, partition, geometry, failed, host, controller>>

\* Its bytes become the geometry whether they were read or not.
read_boot_record ==
  /\ pc = "read_boot_record" /\ pc' = "keyboard"
  /\ \E ok \in BOOLEAN : /\ geometry' = IF ok THEN partition.start ELSE -1
                         /\ failed' = (failed \/ ~ok)
  /\ UNCHANGED <<disk, gpt, index, partition, startup_read, host, controller>>

-----------------------------------------------------------------------------
(* The controller and the keyboard.  FA acknowledges. *)

Ack == 250
SetScancode == 240
Interrupts(byte) == byte % 2 = 1
Translates(byte) == (byte \div 64) % 2 = 1

Take ==
  /\ inbox # <<>> /\ inbox' = <<>>
  /\ LET byte == inbox[2]
     IN  \/ /\ inbox[1] = "command" /\ byte = 32 /\ out' = Append(out, <<config, FALSE>>)
            /\ UNCHANGED <<config, awaits, set>>
         \/ /\ inbox[1] = "command" /\ byte = 96 /\ awaits' = "config"
            /\ UNCHANGED <<config, set, out>>
         \/ /\ inbox[1] = "data" /\ awaits = "config" /\ config' = byte /\ awaits' = "command"
            /\ UNCHANGED <<set, out>>
         \/ /\ inbox[1] = "data" /\ awaits # "config" /\ out' = Append(out, <<Ack, FALSE>>)
            /\ awaits' = IF byte = SetScancode THEN "set" ELSE "command"
            /\ set' = IF awaits = "set" THEN byte ELSE set
            /\ UNCHANGED config
  /\ UNCHANGED <<scan, pc, host, port, full, fresh, presses>>

\* A byte comes to the port, and write_to_buffer reads it there.
Deliver == /\ out # <<>> /\ ~full
           /\ port' = out[1][1] /\ fresh' = ~out[1][2] /\ out' = Tail(out)
           /\ full' = ~Interrupts(config)
           /\ UNCHANGED <<scan, pc, host, config, inbox, awaits, set, presses>>

Press == /\ pc = "keyboard" /\ presses < MaxPresses /\ presses' = presses + 1
         /\ \E byte \in KeyBytes : out' = Append(out, <<byte, TRUE>>)
         /\ UNCHANGED <<scan, pc, host, config, inbox, awaits, set, port, full, fresh>>

-----------------------------------------------------------------------------
(* The dialogue: disable_translation and, from step 9 on, switch_scancode_set *)

Dialogue == << "input", "read_command_byte", "output", "take", "input", "write_command_byte",
               "input", "send", "input", "set_scancode", "output", "check", "input", "set_2",
               "output", "check" >>
Doing(what) == pc = "keyboard" /\ Dialogue[step] = what

Onward == step' = step + 1 /\ pc' = pc
\* Steps and counts are forgotten.
Ends == step' = 1 /\ pc' = "loop"

Waits == \/ Doing("input") /\ inbox # <<>>
         \/ Doing("output") /\ full

\* Mutant: the timeout is not counted.
MutCount == polls

Count == polls - 1

\* while(inb(KEYBOARD_COMMAND) & bit).  Only the loop before "take" leaves its
\* count to the next one.
Await == /\ Doing("input") \/ Doing("output")
         /\ \/ /\ Waits /\ Count # 0 /\ polls' = Count /\ UNCHANGED <<pc, step, timedout>>
            \/ /\ Waits /\ Count = 0 /\ polls' = timeout /\ timedout' = TRUE
               /\ IF step <= 8 THEN step' = 9 /\ pc' = pc ELSE Ends
            \/ /\ ~Waits /\ polls' = IF step = 3 THEN polls ELSE timeout
               /\ Onward /\ UNCHANGED timedout
         /\ UNCHANGED <<scan, command_byte, honest, reported, controller>>

Outb(what, where, byte) ==
  /\ Doing(what) /\ Onward
  /\ inbox' = <<where, byte>> /\ fresh' = FALSE
  /\ UNCHANGED <<scan, polls, command_byte, honest, timedout, reported,
                 config, awaits, set, out, port, full, presses>>

\* Mutant: the wrong bit is cleared.
MutMasked(byte) == IF Interrupts(byte) THEN byte - 1 ELSE byte

\* command_byte &= 0b10111111.
Masked(byte) == IF Translates(byte) THEN byte - 64 ELSE byte

TakeCommandByte ==
  /\ Doing("take") /\ Onward
  /\ command_byte' = Masked(port) /\ full' = FALSE /\ honest' = fresh
  /\ UNCHANGED <<scan, polls, timedout, reported, config, inbox, awaits, set, out, port, fresh, presses>>

Check ==
  /\ Doing("check") /\ full' = FALSE
  /\ IF port = Ack /\ step # Len(Dialogue) THEN Onward ELSE Ends
  /\ reported' = (port = Ack /\ step = Len(Dialogue))
  /\ UNCHANGED <<scan, polls, command_byte, honest, timedout, config, inbox, awaits, set, out, port, fresh, presses>>

Talk == \/ Await \/ TakeCommandByte \/ Check
        \/ Outb("read_command_byte", "command", 32)
        \/ Outb("write_command_byte", "command", 96)
        \/ Outb("send", "data", command_byte)
        \/ Outb("set_scancode", "data", SetScancode)
        \/ Outb("set_2", "data", 2)

StartupInit ==
  /\ disk \in Disks /\ gpt = <<>> /\ index = 0
  /\ partition = [start |-> 0, end |-> 0] /\ startup_read = TRUE /\ geometry = -1
  /\ failed = FALSE
  /\ pc = "scan_gpt" /\ step = 1 /\ polls = timeout /\ command_byte = 0
  /\ honest = FALSE /\ timedout = FALSE /\ reported = FALSE
  /\ config \in CommandBytes /\ inbox = <<>> /\ awaits = "command" /\ set \in {1, 2}
  /\ out = <<>> /\ port \in KeyBytes /\ full = FALSE /\ fresh = FALSE /\ presses = 0

Devices == Take \/ Deliver \/ Press
=============================================================================
