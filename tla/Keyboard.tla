------------------------------ MODULE Keyboard ------------------------------
(***************************************************************************)
(* From a key to the shell: the keyboard sends a scancode byte by byte,    *)
(* the IRQ1 handler stores each byte in a ring (write_to_buffer), and the  *)
(* main loop (kernel.c) takes one key event from the ring, then sleeps     *)
(* (screen_writer, msleep).  Beside it run the timer's and the clock's     *)
(* interrupts.  Interrupts may arrive between any two reads the main loop  *)
(* makes of the ring, so the decoding of one event is one action per read. *)
(*                                                                         *)
(* Bytes are the strings of their hexadecimal values.  typed, events, sent *)
(* and taken are history variables: the codes the keys produced, the       *)
(* events the main loop got, the bytes stored in and taken from the ring.  *)
(***************************************************************************)
EXTENDS Pic, Sequences, Functions

CONSTANTS BufSize,     \* KEYBOARD_BUFFER_SIZE
          Keyboards,   \* [codes, most, burst]: the scancodes of the keys in use, a
                       \* bound on the keys pressed and released, and whether a
                       \* whole code arrives before the main loop runs again, as
                       \* from QEMU's keyboard, which sends the next byte as soon
                       \* as one is read
          Beyond,      \* the byte that may lie behind keyboard_buffer in memory
          SleepTicks   \* the timer interrupts msleep waits for

NoByte == "none"
Bytes == (UNION {Range(c) : c \in UNION {k.codes : k \in Keyboards}}) \cup Beyond \cup {"00"}

\* The length of a code of scancode set 2, by its first bytes.
Size(c) == CASE c[1] = "E1" -> 8
             [] c[1] = "F0" -> 2
             [] c[1] = "E0" -> (CASE c[2] = "F0" -> (IF c[3] = "7C" THEN 6 ELSE 3)
                                  [] c[2] = "12" -> 4
                                  [] OTHER       -> 2)
             [] OTHER -> 1

ASSUME KeyboardAssumption ==
  /\ BufSize \in Nat \ {0} /\ SleepTicks \in Nat /\ NoByte \notin Bytes /\ Beyond # {}
  /\ \A k \in Keyboards :
       /\ k.codes \subseteq Seq(Bytes) /\ k.most \in Nat /\ k.burst \in BOOLEAN
       /\ \A c \in k.codes : c # <<>> /\ Len(c) = Size(c)

LeftShift == "12"
CapsLock == "58"

VARIABLES wire,             \* bytes the keyboard has still to send
          obf,              \* the byte in the controller's output buffer
          keyboard_buffer, head, tail,
          key_state,        \* the keys held: <<prefix, byte>>
          capslock_on,
          pc,               \* where the main loop is
          left,             \* timer interrupts still to sleep
          keyboard,         \* the one that is attached
          typed, events, sent, taken,
          early,            \* history: a poll found the first bytes of a code only
          misled            \* history: the byte behind the array has been taken
                            \* for the second byte of a code

\* Bounds of the history variables: a main loop that runs away over stale
\* bytes takes events for ever, the history keeps those that tell it apart.
EventBound == keyboard.most + 1
TakenBound == 8 * (keyboard.most + 1)

ring == <<keyboard_buffer, head, tail>>
keys == <<key_state, capslock_on, keyboard, early, misled>>
vars == <<irr, isr, wire, obf, ring, keys, pc, left, typed, events, sent, taken>>

Init ==
  /\ PicInit
  /\ wire = <<>> /\ obf = NoByte
  /\ keyboard_buffer = [i \in 0..BufSize-1 |-> "00"]
  /\ head = 0 /\ tail = 0
  /\ key_state = {} /\ capslock_on = FALSE
  /\ pc = "poll" /\ left = 0
  /\ keyboard \in Keyboards
  /\ typed = <<>> /\ events = <<>> /\ sent = 0 /\ taken = 0
  /\ early = FALSE /\ misled = FALSE

Wrap(i) == i % BufSize

-----------------------------------------------------------------------------
(* The keyboard and its controller (devices) *)

Type(c) ==
  /\ Len(typed) < keyboard.most
  /\ typed' = Append(typed, c)
  /\ wire' = wire \o c
  /\ UNCHANGED <<irr, isr, obf, ring, keys, pc, left, events, sent, taken>>

\* The controller takes the next byte once its last one has been read, and
\* requests an interrupt for it.
SendByte ==
  /\ wire # <<>> /\ obf = NoByte
  /\ obf' = Head(wire) /\ wire' = Tail(wire)
  /\ Raise(Kbd)
  /\ UNCHANGED <<isr, ring, keys, pc, left, typed, events, sent, taken>>

Tick(l) ==
  /\ l \notin irr /\ Raise(l)
  /\ UNCHANGED <<isr, wire, obf, ring, keys, pc, left, typed, events, sent, taken>>

-----------------------------------------------------------------------------
(* Interrupt handlers *)

BufferFull == Wrap(head + 1) = tail

\* write_to_buffer: a full ring is left alone, the byte unread and the
\* interrupt without its EOI.
write_to_buffer ==
  /\ Serve(Kbd, ~BufferFull)
  /\ IF BufferFull THEN UNCHANGED <<keyboard_buffer, head, obf, sent>>
     ELSE /\ keyboard_buffer' = [keyboard_buffer EXCEPT ![head] = obf]
          /\ head' = Wrap(head + 1)
          /\ obf' = NoByte
          /\ sent' = sent + 1
  /\ UNCHANGED <<wire, tail, keys, pc, left, typed, events, taken>>

\* Mutant: the handler does not count the tick.
MutTimerNoCount ==
  /\ Serve(Timer, TRUE)
  /\ UNCHANGED <<wire, obf, ring, keys, pc, left, typed, events, sent, taken>>

\* pit_timer: the sleep of the main loop is over when ms_timer has advanced.
pit_timer ==
  /\ Serve(Timer, TRUE)
  /\ left' = IF left > 0 THEN left - 1 ELSE 0
  /\ UNCHANGED <<wire, obf, ring, keys, pc, typed, events, sent, taken>>

\* update_time, as far as the controllers see it.
update_time ==
  /\ Serve(Clock, TRUE)
  /\ UNCHANGED <<wire, obf, ring, keys, pc, left, typed, events, sent, taken>>

-----------------------------------------------------------------------------
(* The main loop: get_keyevent, one read of the ring per step *)

MayRun == keyboard.burst => (wire = <<>> /\ obf = NoByte) \/ Kbd \in isr

At(i) == keyboard_buffer[Wrap(tail + i)]

\* keyboard_buffer[tail+1] without the modulus, which reads behind the array
\* when tail is its last index.
AtUnwrapped == IF tail + 1 = BufSize THEN Beyond ELSE {At(1)}

\* A poll while only a part of the next code has been stored.
Early == \/ Len(events) >= Len(typed)
         \/ sent - taken < Len(typed[Len(events) + 1])
\* A read behind the array that may not find what was stored.
Misled == pc = "E0_12" /\ \E b \in AtUnwrapped : (b = "12") # (At(1) = "12")
Noted == /\ early' = (early \/ (pc = "poll" /\ Early))
         /\ misled' = (misled \/ Misled) /\ keyboard' = keyboard

Read(from, to) ==
  /\ MayRun /\ pc = from /\ pc' = to /\ Noted
  /\ UNCHANGED <<irr, isr, wire, obf, ring, key_state, capslock_on, left, typed, events, sent, taken>>

\* update_key_state: a release code clears its key, any other code sets it
\* and CAPSLOCK_KEY toggles the lock as well.  Print screen and pause have
\* indices past the array; no key's state depends on them.
Released(k) == k[1] \in {"F0", "E0F0"}
KeyOf(k) == CASE k[1] = "F0"   -> <<"plain", k[2]>>
              [] k[1] = "E0F0" -> <<"E0", k[2]>>
              [] OTHER         -> k
Special == {"PRINTSCREEN_PRESS", "PRINTSCREEN_RELEASE", "PAUSE"}

\* Mutant: a release clears the index of its own code, not that of its key.
MutReleaseIndex(k, held) == CASE k[1] \in Special -> held
                              [] Released(k)      -> held \ {k}
                              [] OTHER            -> held \cup {k}

StateAfter(k, held) == CASE k[1] \in Special -> held
                         [] Released(k)      -> held \ {KeyOf(k)}
                         [] OTHER            -> held \cup {k}

\* scancode_to_char marks a key pressed while a shift key is down.
ShiftKeys == {<<"plain", LeftShift>>, <<"plain", "59">>}
EventOf(k, held) ==
  [key |-> k, shift |-> ~Released(k) /\ ShiftKeys \cap held # {}]

\* read_from_buffer returns k, which took n bytes; get_keyevent goes on to
\* update the keys and make the event, and screen_writer's caller sleeps.
Got(k, n) ==
  /\ tail' = Wrap(tail + n)
  /\ taken' = Min({taken + n, TakenBound})
  /\ key_state' = StateAfter(k, key_state)
  /\ capslock_on' = IF k = <<"plain", CapsLock>> THEN ~capslock_on ELSE capslock_on
  /\ events' = IF Len(events) < EventBound
                 THEN Append(events, EventOf(k, key_state')) ELSE events
  /\ pc' = "sleep" /\ left' = SleepTicks /\ Noted
  /\ UNCHANGED <<irr, isr, wire, obf, keyboard_buffer, head, typed, sent>>

PollEmpty ==
  /\ MayRun /\ pc = "poll" /\ head = tail
  /\ pc' = "sleep" /\ left' = SleepTicks
  /\ UNCHANGED <<irr, isr, wire, obf, ring, keys, typed, events, sent, taken>>

PollFirst ==
  \/ head # tail /\ At(0) = "E0" /\ Read("poll", "E0")
  \/ head # tail /\ At(0) = "F0" /\ Read("poll", "F0")
  \/ /\ MayRun /\ pc = "poll" /\ head # tail /\ At(0) = "E1"
     /\ Got(<<"PAUSE", "00">>, 8)
  \/ /\ MayRun /\ pc = "poll" /\ head # tail /\ At(0) \notin {"E0", "F0", "E1"}
     /\ Got(<<"plain", At(0)>>, 1)

\* 0xF0 x
ReadReleased == MayRun /\ pc = "F0" /\ Got(<<"F0", At(1)>>, 2)

\* 0xE0: the second byte is read again for each of its cases.
ReadPrefixF0 ==
  \/ At(1) = "F0" /\ Read("E0", "E0F0")
  \/ At(1) # "F0" /\ Read("E0", "E0_12")

ReadPrefix12 ==
  \/ /\ MayRun /\ pc = "E0_12" /\ "12" \in AtUnwrapped
     /\ Got(<<"PRINTSCREEN_PRESS", "00">>, 4)
  \/ AtUnwrapped # {"12"} /\ Read("E0_12", "E0x")

ReadExtended == MayRun /\ pc = "E0x" /\ Got(<<"E0", At(1)>>, 2)

\* Mutant: half of print screen's release is taken.
MutPrintScreenHalf ==
  \/ /\ MayRun /\ pc = "E0F0" /\ At(2) = "7C"
     /\ Got(<<"PRINTSCREEN_RELEASE", "00">>, 3)
  \/ At(2) # "7C" /\ Read("E0F0", "E0F0x")

\* 0xE0 0xF0
ReadPrefix7C ==
  \/ /\ MayRun /\ pc = "E0F0" /\ At(2) = "7C"
     /\ Got(<<"PRINTSCREEN_RELEASE", "00">>, 6)
  \/ At(2) # "7C" /\ Read("E0F0", "E0F0x")

ReadExtendedReleased == MayRun /\ pc = "E0F0x" /\ Got(<<"E0F0", At(2)>>, 3)

\* msleep returns after the timer's interrupts; the loop starts over.
Wake ==
  /\ pc = "sleep" /\ left = 0
  /\ pc' = "poll"
  /\ UNCHANGED <<irr, isr, wire, obf, ring, keys, left, typed, events, sent, taken>>

-----------------------------------------------------------------------------
Main == \/ PollEmpty \/ PollFirst \/ ReadReleased
        \/ ReadPrefixF0 \/ ReadPrefix12 \/ ReadExtended
        \/ ReadPrefix7C \/ ReadExtendedReleased \/ Wake

Next == \/ \E c \in keyboard.codes : Type(c)
        \/ SendByte
        \/ \E l \in {Timer, Clock} : Tick(l)
        \/ write_to_buffer \/ pit_timer \/ update_time
        \/ Main

\* The processor executes the main loop, the timer goes on and its interrupt,
\* which no other holds back, is accepted.  The other devices may stop.
Fairness == WF_vars(Main) /\ WF_vars(pit_timer) /\ WF_vars(Tick(Timer))

Spec == Init /\ [][Next]_vars /\ Fairness

-----------------------------------------------------------------------------
(* Properties *)

Events == [key : {"plain", "F0", "E0", "E0F0"} \X Bytes \cup Special \X {"00"},
           shift : BOOLEAN]

\* Types of the state.
TypeOK ==
  /\ irr \subseteq Lines /\ isr \subseteq Lines \cup {Cascade}
  /\ obf \in Bytes \cup {NoByte} /\ wire \in Seq(Bytes)
  /\ keyboard_buffer \in [0..BufSize-1 -> Bytes]
  /\ head \in 0..BufSize-1 /\ tail \in 0..BufSize-1
  /\ key_state \subseteq {"plain", "E0"} \X Bytes /\ capslock_on \in BOOLEAN
  /\ pc \in {"poll", "F0", "E0", "E0_12", "E0x", "E0F0", "E0F0x", "sleep"}
  /\ left \in 0..SleepTicks
  /\ keyboard \in Keyboards /\ early \in BOOLEAN /\ misled \in BOOLEAN
  /\ events \in Seq(Events) /\ sent \in Nat /\ taken \in Nat

\* What a code means, by its bytes alone.
Meaning(c) ==
  CASE c[1] = "E1"              -> <<"PAUSE", "00">>
    [] c[1] = "F0"              -> <<"F0", c[2]>>
    [] c[1] = "E0" /\ c[2] = "F0" /\ c[3] = "7C" -> <<"PRINTSCREEN_RELEASE", "00">>
    [] c[1] = "E0" /\ c[2] = "F0" /\ c[3] # "7C" -> <<"E0F0", c[3]>>
    [] c[1] = "E0" /\ c[2] = "12" -> <<"PRINTSCREEN_PRESS", "00">>
    [] c[1] = "E0" /\ c[2] \notin {"F0", "12"} -> <<"E0", c[2]>>
    [] OTHER                    -> <<"plain", c[1]>>

\* The key k is down after the first n codes: its last code was a press.
DownAfter(k, n) ==
  \E i \in 1..n : /\ Meaning(typed[i]) = k
                  /\ \A j \in i+1..n : Released(Meaning(typed[j])) =>
                                        KeyOf(Meaning(typed[j])) # k

\* As long as the ring has not overflowed, no poll came between two bytes of a
\* code, and none was decoded by the byte behind the array, the main loop gets
\* the codes that were typed, in order, none lost, split or doubled, each press
\* with the shift keys down at that time - although bytes are stored and taken
\* at different times and both indices wrap (keyboardhandler.c:32-40, 140-232).
EventsAsTyped ==
  Kbd \notin isr /\ ~early /\ ~misled =>
    /\ Len(events) <= Len(typed)
    /\ \A n \in 1..Len(events) :
         /\ events[n].key = Meaning(typed[n])
         /\ events[n].shift = /\ ~Released(events[n].key)
                              /\ \E k \in ShiftKeys : DownAfter(k, n)

\* No key stays down that was released: when everything typed has been
\* taken, key_state holds exactly the keys whose last code was a press
\* (update_key_state, keyboardhandler.c:186-198).
NoStuckKey ==
  Kbd \notin isr /\ ~early /\ ~misled /\ Len(events) = Len(typed) =>
    key_state = {k \in {"plain", "E0"} \X Bytes : DownAfter(k, Len(typed))}

\* Between handlers no line is left in service, except the keyboard's after
\* it found the ring full; its byte then still waits in the controller
\* (keyboardhandler.c:34-36, pic.c:13-19).
OnlyKeyboardHangs == isr \subseteq {Kbd} /\ (Kbd \in isr => obf # NoByte)

\* Every msleep of the main loop ends: the timer's interrupt is accepted, counted
\* and ended for ever, also when the keyboard is locked up or the ring overtaken
\* by its reader (pit.c:67-83).
SleepEnds == pc = "sleep" ~> pc = "poll"
=============================================================================
