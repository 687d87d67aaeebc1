--------------------------- MODULE KeyboardProofs ---------------------------
(***************************************************************************)
(* The interrupt controllers and the way of a byte from the key to the     *)
(* event, for every ring, keyboard and length of sleep.                    *)
(*                                                                         *)
(* OnlyKeyboardHangs says too little to be kept by itself: Held adds that  *)
(* a byte is in the controller as long as its interrupt is requested or in *)
(* service.  EventsAsTyped and NoStuckKey speak of whole codes while the   *)
(* program moves bytes: Faithful lays all bytes typed out as one stream,   *)
(* off[n] of them before code n+1, and says which part of the stream the   *)
(* wire, the controller and the ring hold, what the reads of the code at   *)
(* the tail have told so far, and that the events and the keys held are    *)
(* those of the codes taken.                                               *)
(***************************************************************************)
EXTENDS Keyboard, TLAPS

Held == isr \subseteq {Kbd} /\ (Kbd \in irr \cup isr => obf # NoByte)

IInv == TypeOK /\ Held

-----------------------------------------------------------------------------
(* Ending an interrupt *)

LEMMA MinOfOne == ASSUME NEW n \in Int PROVE Min({n}) = n
  BY DEF Min

LEMMA MinOfTwo == ASSUME NEW m \in Int, NEW n \in Int, m <= n PROVE Min({m, n}) = m
<1>1. m \in {m, n} /\ \A y \in {m, n} : m <= y
  OBVIOUS
<1>2. \A x \in {m, n} : (\A y \in {m, n} : x <= y) => x = m
  OBVIOUS
<1> QED BY <1>1, <1>2 DEF Min

\* The timer's handler leaves in service what was, although its EOI names no line.
LEMMA TimerEnds == ASSUME isr \subseteq {Kbd} PROVE Ended(Timer, InService(Timer)) = isr
<1>1. isr = {} \/ isr = {1}
  BY DEF Kbd
<1>2. CASE isr = {}
  <2>1. InService(Timer) = {0}
    BY <1>2 DEF InService, Timer
  <2>2. Master({0}) = {0} /\ Slave({0}) = {}
    BY DEF Master, Slave
  <2>3. EndTop({0}) = {}
    BY MinOfOne DEF EndTop
  <2> QED BY <1>2, <2>1, <2>2, <2>3 DEF Ended, Timer
<1>3. CASE isr = {1}
  <2>1. InService(Timer) = {0, 1}
    BY <1>3 DEF InService, Timer
  <2>2. Master({0, 1}) = {0, 1} /\ Slave({0, 1}) = {}
    BY DEF Master, Slave
  <2>3. Min({0, 1}) = 0
    BY MinOfTwo
  <2>4. EndTop({0, 1}) = {1}
    BY <2>3 DEF EndTop
  <2> QED BY <1>3, <2>1, <2>2, <2>4 DEF Ended, Timer
<1> QED BY <1>1, <1>2, <1>3

LEMMA KeyboardEnds == ASSUME isr = {} PROVE Ended(Kbd, InService(Kbd)) = {}
<1>1. InService(Kbd) = {1}
  BY DEF InService, Kbd
<1>2. Master({1}) = {1} /\ Slave({1}) = {}
  BY DEF Master, Slave
<1>3. EndTop({1}) = {}
  BY MinOfOne DEF EndTop
<1> QED BY <1>1, <1>2, <1>3 DEF Ended, Kbd

\* Both controllers are told of the clock's.
LEMMA ClockEnds == ASSUME isr = {} PROVE Ended(Clock, InService(Clock)) = {}
<1>1. InService(Clock) = {2, 8}
  BY DEF InService, Clock, Cascade
<1>2. Master({2, 8}) = {2} /\ Slave({2, 8}) = {8}
  BY DEF Master, Slave
<1>3. EndTop({2}) = {} /\ EndTop({8}) = {}
  BY MinOfOne DEF EndTop
<1> QED BY <1>1, <1>2, <1>3 DEF Ended, Clock

\* A keyboard in service holds back the lines below it.
LEMMA HoldsBack == Kbd \in isr => HeldBack(Kbd) /\ HeldBack(Clock)
  BY DEF HeldBack, Master, Level, Kbd, Clock, Cascade

-----------------------------------------------------------------------------
(* The ring *)

LEMMA Sizes == BufSize \in Nat /\ BufSize > 0 /\ SleepTicks \in Nat
  BY KeyboardAssumption

LEMMA WrapIn == ASSUME NEW i \in Nat PROVE Wrap(i) \in 0..BufSize-1
  BY Sizes DEF Wrap

LEMMA AtIn == ASSUME TypeOK, NEW i \in Nat PROVE At(i) \in Bytes
<1>1. tail + i \in Nat
  BY Sizes DEF TypeOK
<1>2. Wrap(tail + i) \in 0..BufSize-1
  BY <1>1, WrapIn
<1> QED BY <1>2 DEF At, TypeOK

LEMMA BoundIn == ASSUME TypeOK PROVE keyboard.most \in Nat /\ TakenBound \in Nat
<1>1. keyboard.most \in Nat
  BY KeyboardAssumption DEF TypeOK
<1> QED BY <1>1 DEF TakenBound

-----------------------------------------------------------------------------
LEMMA InitIInv == Init => IInv
<1> SUFFICES ASSUME Init PROVE IInv
  OBVIOUS
<1>1. "00" \in Bytes
  BY DEF Bytes
<1>1a. 0 \in 0..BufSize-1 /\ 0 \in 0..SleepTicks
  BY Sizes
<1>2. keyboard_buffer \in [0..BufSize-1 -> Bytes]
  BY <1>1 DEF Init
<1>3. TypeOK
  <2>1. wire \in Seq(Bytes) /\ events \in Seq(Events)
    BY DEF Init
  <2>2. irr = {} /\ isr = {}
    BY DEF Init, PicInit
  <2> QED BY <1>1a, <1>2, <2>1, <2>2 DEF Init, TypeOK
<1>4. Held
  BY DEF Init, PicInit, Held
<1> QED BY <1>3, <1>4 DEF IInv

LEMMA TypeKeeps == ASSUME IInv, NEW c \in keyboard.codes, Type(c) PROVE IInv'
<1>1. c \in Seq(Bytes)
  BY KeyboardAssumption DEF IInv, TypeOK
<1>2. wire' \in Seq(Bytes)
  <2>1. wire \in Seq(Bytes)
    BY DEF IInv, TypeOK
  <2>2. wire \o c \in Seq(Bytes)
    BY <1>1, <2>1
  <2> QED BY <2>2 DEF Type
<1>3. TypeOK'
  BY <1>2 DEF IInv, TypeOK, Type, ring, keys
<1>4. Held'
  BY DEF IInv, Held, Type
<1> QED BY <1>3, <1>4 DEF IInv

LEMMA SendByteKeeps == ASSUME IInv, SendByte PROVE IInv'
<1>1. obf' \in Bytes /\ wire' \in Seq(Bytes)
  <2>1. wire \in Seq(Bytes) /\ wire # <<>>
    BY DEF IInv, TypeOK, SendByte
  <2>2. Head(wire) \in Bytes /\ Tail(wire) \in Seq(Bytes)
    BY <2>1
  <2> QED BY <2>2 DEF SendByte
<1>2. irr' = irr \cup {Kbd} /\ isr' = isr
  BY DEF SendByte, Raise
<1>3. TypeOK'
  BY <1>1, <1>2 DEF IInv, TypeOK, SendByte, ring, keys, Lines
<1>4. obf' # NoByte
  BY <1>1, KeyboardAssumption
<1>5. Held'
  BY <1>2, <1>4 DEF IInv, Held
<1> QED BY <1>3, <1>5 DEF IInv

LEMMA TickKeeps == ASSUME IInv, NEW l \in {Timer, Clock}, Tick(l) PROVE IInv'
<1>1. irr' = irr \cup {l} /\ isr' = isr /\ obf' = obf
  BY DEF Tick, Raise
<1>2. TypeOK'
  BY <1>1 DEF IInv, TypeOK, Tick, ring, keys, Lines
<1>3. l # Kbd
  BY DEF Timer, Clock, Kbd
<1>4. Held'
  BY <1>1, <1>3 DEF IInv, Held
<1> QED BY <1>2, <1>4 DEF IInv

\* The byte is stored and the interrupt ended, or both are left.
LEMMA WriteKeeps == ASSUME IInv, write_to_buffer PROVE IInv'
<1>1. Kbd \in irr /\ ~HeldBack(Kbd) /\ irr' = irr \ {Kbd}
      /\ isr' = IF ~BufferFull THEN Ended(Kbd, InService(Kbd)) ELSE InService(Kbd)
  BY DEF write_to_buffer, Serve, Accepts
<1>2. obf # NoByte /\ isr = {}
  BY <1>1, HoldsBack DEF IInv, Held
<1>3. obf \in Bytes
  BY <1>2 DEF IInv, TypeOK
<1>4. CASE BufferFull
  <2>1. isr' = {Kbd} /\ obf' = obf /\ head' = head /\ keyboard_buffer' = keyboard_buffer /\ sent' = sent
    BY <1>1, <1>2, <1>4 DEF write_to_buffer, InService, Kbd
  <2>2. Held'
    BY <2>1, <1>1, <1>2 DEF Held
  <2>3. TypeOK'
    BY <2>1, <1>1 DEF IInv, TypeOK, write_to_buffer, keys, Lines
  <2> QED BY <2>2, <2>3 DEF IInv
<1>5. CASE ~BufferFull
  <2>1. isr' = {}
    BY <1>1, <1>2, <1>5, KeyboardEnds
  <2>2. Held'
    BY <2>1, <1>1 DEF Held
  <2>3. head + 1 \in Nat /\ sent + 1 \in Nat
    BY Sizes DEF IInv, TypeOK
  <2>4. head' \in 0..BufSize-1
    BY <1>5, <2>3, WrapIn DEF write_to_buffer
  <2>5. keyboard_buffer' \in [0..BufSize-1 -> Bytes]
    BY <1>3, <1>5 DEF write_to_buffer, IInv, TypeOK
  <2>6. obf' = NoByte /\ sent' \in Nat
    BY <1>5, <2>3 DEF write_to_buffer
  <2>7. TypeOK'
    BY <2>1, <2>4, <2>5, <2>6, <1>1 DEF IInv, TypeOK, write_to_buffer, keys
  <2> QED BY <2>2, <2>7 DEF IInv
<1> QED BY <1>4, <1>5

LEMMA TimerKeeps == ASSUME IInv, pit_timer PROVE IInv'
<1>1. irr' = irr \ {Timer} /\ isr' = Ended(Timer, InService(Timer)) /\ obf' = obf
  BY DEF pit_timer, Serve
<1>2. isr' = isr
  BY <1>1, TimerEnds DEF IInv, Held
<1>3. left' \in 0..SleepTicks
  BY Sizes DEF pit_timer, IInv, TypeOK
<1>4. TypeOK'
  BY <1>1, <1>2, <1>3 DEF IInv, TypeOK, pit_timer, ring, keys
<1>5. Held'
  BY <1>1, <1>2 DEF IInv, Held
<1> QED BY <1>4, <1>5 DEF IInv

LEMMA ClockKeeps == ASSUME IInv, update_time PROVE IInv'
<1>1. irr' = irr \ {Clock} /\ isr' = Ended(Clock, InService(Clock)) /\ obf' = obf /\ ~HeldBack(Clock)
  BY DEF update_time, Serve, Accepts
<1>2. isr = {}
  BY <1>1, HoldsBack DEF IInv, Held
<1>3. isr' = isr
  BY <1>1, <1>2, ClockEnds
<1>4. TypeOK'
  BY <1>1, <1>3 DEF IInv, TypeOK, update_time, ring, keys
<1>5. Held'
  BY <1>1, <1>3 DEF IInv, Held
<1> QED BY <1>4, <1>5 DEF IInv

-----------------------------------------------------------------------------
(* The main loop *)

Plain == {"plain", "F0", "E0", "E0F0"}
Codes == Plain \X Bytes \cup Special \X {"00"}

\* The keys and the event that a code read from the ring gives.
LEMMA GotKeeps ==
  ASSUME IInv, NEW k \in Codes, NEW n \in Nat, Got(k, n) PROVE IInv'
<1>1. tail' \in 0..BufSize-1
  <2>1. tail + n \in Nat
    BY Sizes DEF IInv, TypeOK
  <2> QED BY <2>1, WrapIn DEF Got
<1>2. taken' \in Nat
  <2>1. taken + n \in Nat /\ TakenBound \in Nat
    BY BoundIn DEF IInv, TypeOK
  <2>2. Min({taken + n, TakenBound}) \in {taken + n, TakenBound}
    <3>1. CASE taken + n <= TakenBound
      BY <2>1, <3>1, MinOfTwo
    <3>2. CASE TakenBound <= taken + n
      <4>1. Min({TakenBound, taken + n}) = TakenBound
        BY <2>1, <3>2, MinOfTwo
      <4>2. {TakenBound, taken + n} = {taken + n, TakenBound}
        OBVIOUS
      <4> QED BY <4>1, <4>2
    <3> QED BY <2>1, <3>1, <3>2
  <2> QED BY <2>1, <2>2 DEF Got
<1>3. key_state' \subseteq {"plain", "E0"} \X Bytes
  <2>1. key_state \subseteq {"plain", "E0"} \X Bytes /\ key_state' = StateAfter(k, key_state)
    BY DEF IInv, TypeOK, Got
  <2>2. k[1] \in Special \/ Released(k) \/ k \in {"plain", "E0"} \X Bytes
    BY DEF Codes, Plain, Released
  <2> QED BY <2>1, <2>2 DEF StateAfter
<1>4. events' \in Seq(Events)
  <2>1. EventOf(k, key_state') \in Events
    BY DEF EventOf, Events, Codes, Plain
  <2>2. events \in Seq(Events)
    BY DEF IInv, TypeOK
  <2>3. events' = IF Len(events) < EventBound THEN Append(events, EventOf(k, key_state')) ELSE events
    BY DEF Got
  <2> QED BY <2>1, <2>2, <2>3
<1>5. capslock_on' \in BOOLEAN /\ early' \in BOOLEAN /\ misled' \in BOOLEAN /\ keyboard' = keyboard
  BY DEF IInv, TypeOK, Got, Noted
<1>6. left' \in 0..SleepTicks /\ pc' = "sleep"
  BY Sizes DEF Got
<1>7. UNCHANGED <<irr, isr, wire, obf, keyboard_buffer, head, typed, sent>>
  BY DEF Got
<1>8. TypeOK'
  BY <1>1, <1>2, <1>3, <1>4, <1>5, <1>6, <1>7 DEF IInv, TypeOK
<1>9. Held'
  BY <1>7 DEF IInv, Held
<1> QED BY <1>8, <1>9 DEF IInv

LEMMA ReadKeeps ==
  ASSUME IInv, NEW from, NEW to \in {"F0", "E0", "E0_12", "E0x", "E0F0", "E0F0x"}, Read(from, to)
  PROVE  IInv'
<1>1. pc' = to /\ early' \in BOOLEAN /\ misled' \in BOOLEAN /\ keyboard' = keyboard
  BY DEF Read, Noted, IInv, TypeOK
<1>2. UNCHANGED <<irr, isr, wire, obf, keyboard_buffer, head, tail, key_state, capslock_on, left, typed, events, sent, taken>>
  BY DEF Read, ring
<1>3. TypeOK'
  BY <1>1, <1>2 DEF IInv, TypeOK
<1>4. Held'
  BY <1>2 DEF IInv, Held
<1> QED BY <1>3, <1>4 DEF IInv

LEMMA MainKeeps == IInv /\ Main => IInv'
<1> SUFFICES ASSUME IInv, Main PROVE IInv'
  OBVIOUS
<1>1. At(0) \in Bytes /\ At(1) \in Bytes /\ At(2) \in Bytes
  BY AtIn DEF IInv
<1>2. \A b \in Bytes : \A p \in Plain : <<p, b>> \in Codes
  BY DEF Codes
<1>3. \A p \in Special : <<p, "00">> \in Codes
  BY DEF Codes
<1>4. CASE PollEmpty \/ Wake
  <2>1. /\ UNCHANGED <<irr, isr, wire, obf, keyboard_buffer, head, tail, key_state, capslock_on, keyboard, early, misled,
                       typed, events, sent, taken>>
        /\ pc' \in {"sleep", "poll"} /\ left' \in {left, SleepTicks}
    BY <1>4 DEF PollEmpty, Wake, ring, keys
  <2>2. TypeOK'
    BY <2>1, Sizes DEF IInv, TypeOK
  <2>3. Held'
    BY <2>1 DEF IInv, Held
  <2> QED BY <2>2, <2>3 DEF IInv
<1>5. CASE \/ Read("poll", "E0") \/ Read("poll", "F0") \/ Read("E0", "E0F0") \/ Read("E0", "E0_12")
           \/ Read("E0_12", "E0x") \/ Read("E0F0", "E0F0x")
  BY <1>5, ReadKeeps
<1>6. CASE \/ Got(<<"PAUSE", "00">>, 8) \/ Got(<<"PRINTSCREEN_PRESS", "00">>, 4)
           \/ Got(<<"PRINTSCREEN_RELEASE", "00">>, 6)
  BY <1>3, <1>6, GotKeeps DEF Special
<1>7. CASE \/ Got(<<"plain", At(0)>>, 1) \/ Got(<<"F0", At(1)>>, 2) \/ Got(<<"E0", At(1)>>, 2)
           \/ Got(<<"E0F0", At(2)>>, 3)
  <2>1. /\ <<"plain", At(0)>> \in Codes /\ <<"F0", At(1)>> \in Codes /\ <<"E0", At(1)>> \in Codes
        /\ <<"E0F0", At(2)>> \in Codes
    BY <1>1, <1>2 DEF Plain
  <2> QED BY <1>7, <2>1, GotKeeps
<1> QED BY <1>4, <1>5, <1>6, <1>7
        DEF Main, PollFirst, ReadReleased, ReadPrefixF0, ReadPrefix12, ReadExtended, ReadPrefix7C,
            ReadExtendedReleased

LEMMA NextKeeps == IInv /\ [Next]_vars => IInv'
<1> SUFFICES ASSUME IInv, [Next]_vars PROVE IInv'
  OBVIOUS
<1>1. CASE UNCHANGED vars
  BY <1>1 DEF vars, ring, keys, IInv, TypeOK, Held
<1> QED BY <1>1, TypeKeeps, SendByteKeeps, TickKeeps, WriteKeeps, TimerKeeps, ClockKeeps, MainKeeps DEF Next

-----------------------------------------------------------------------------
(* What was typed, on its way.  Position p of the stream of all bytes typed is *)
(* byte p - off[n-1] of the n-th code: it is in the ring, in the controller or *)
(* still to be sent.                                                           *)

InPort == IF obf = NoByte THEN 0 ELSE 1

Stream(off) ==
  /\ typed \in Seq(keyboard.codes) /\ Len(typed) <= keyboard.most
  /\ off \in [0..Len(typed) -> Nat] /\ off[0] = 0
  /\ \A n \in 1..Len(typed) : /\ off[n] = off[n-1] + Len(typed[n])
                              /\ off[n] <= off[Len(typed)] /\ off[n] <= 8 * n
  /\ off[Len(typed)] = sent + InPort + Len(wire)
  /\ \A n \in 1..Len(typed) : \A i \in 1..Len(typed[n]) :
       /\ off[n-1] + i = sent + 1 /\ InPort = 1 => obf = typed[n][i]
       /\ off[n-1] + i > sent + InPort => wire[(off[n-1] + i) - (sent + InPort)] = typed[n][i]

\* The ring holds the stream from taken to sent; the codes taken are whole.
Ring(off) ==
  /\ Len(events) <= Len(typed) /\ taken = off[Len(events)]
  /\ taken <= sent /\ sent - taken < BufSize
  /\ head = Wrap(tail + (sent - taken))
  /\ \A n \in 1..Len(typed) : \A i \in 1..Len(typed[n]) :
       taken < off[n-1] + i /\ off[n-1] + i <= sent =>
         keyboard_buffer[Wrap(tail + ((off[n-1] + i) - (taken + 1)))] = typed[n][i]

\* Between the reads of one code, the code is in the ring and is one that the
\* tests so far have told.
Decoding ==
  pc \notin {"poll", "sleep"} =>
    /\ Len(events) < Len(typed) /\ Len(typed[Len(events) + 1]) <= sent - taken
    /\ LET c == typed[Len(events) + 1]
       IN  /\ c[1] = IF pc = "F0" THEN "F0" ELSE "E0"
           /\ pc \in {"E0F0", "E0F0x"} => c[2] = "F0"
           /\ pc = "E0F0x" => c[3] # "7C"
           /\ pc \in {"E0_12", "E0x"} => c[2] # "F0"
           /\ pc = "E0x" => c[2] # "12"

KeysDown == key_state = {k \in {"plain", "E0"} \X Bytes : DownAfter(k, Len(events))}

ShiftDown(n) == \E k \in ShiftKeys : DownAfter(k, n)
Event(n) == /\ events[n].key = Meaning(typed[n])
            /\ events[n].shift = (~Released(events[n].key) /\ ShiftDown(n))

Sound == Kbd \notin isr /\ ~early /\ ~misled
Following(off) == /\ Ring(off) /\ Decoding /\ KeysDown
                  /\ \A n \in 1..Len(events) : Event(n)
Faithful == \E off : Stream(off) /\ (Sound => Following(off))


-----------------------------------------------------------------------------
(* Lemmas on the ring, the stream and the codes *)

\* An index that passes the end at most once.
LEMMA WrapOf ==
  ASSUME NEW i \in Nat, i < 2 * BufSize
  PROVE  Wrap(i) = IF i < BufSize THEN i ELSE i - BufSize
<1>1. BufSize \in Nat /\ BufSize > 0
  BY Sizes
<1>2. CASE i < BufSize
  BY <1>1, <1>2 DEF Wrap
<1>3. CASE BufSize <= i
  <2> DEFINE r == i - BufSize
  <2>1. r \in 0..BufSize-1 /\ i = BufSize * 1 + r
    BY <1>1, <1>3
  <2> HIDE DEF r
  <2>2. i % BufSize = r
    BY <1>1, <2>1
  <2>3. QED
    BY <1>1, <1>3, <2>2 DEF Wrap, r
<1>4. QED
  BY <1>1, <1>2, <1>3

LEMMA CodeForm ==
  ASSUME TypeOK, NEW c \in keyboard.codes
  PROVE  c \in Seq(Bytes) /\ Len(c) \in 1..8 /\ Len(c) = Size(c)
<1>1. c \in Seq(Bytes) /\ c # <<>> /\ Len(c) = Size(c)
  BY KeyboardAssumption DEF TypeOK
<1>2. Size(c) \in 1..8
  BY DEF Size
<1>3. QED
  BY <1>1, <1>2

\* The size and the meaning of a code, by its first bytes.
LEMMA SizeOf ==
  ASSUME NEW c
  PROVE  /\ c[1] = "E1" => Size(c) = 8 /\ Meaning(c) = <<"PAUSE", "00">>
         /\ c[1] = "F0" => Size(c) = 2 /\ Meaning(c) = <<"F0", c[2]>>
         /\ c[1] \notin {"E0", "F0", "E1"} => Size(c) = 1 /\ Meaning(c) = <<"plain", c[1]>>
         /\ c[1] = "E0" => Size(c) >= 2
BY DEF Size, Meaning

LEMMA ExtendedSizeOf ==
  ASSUME NEW c, c[1] = "E0"
  PROVE  /\ c[2] = "F0" => Size(c) >= 3
         /\ c[2] = "F0" /\ c[3] = "7C" => Size(c) = 6 /\ Meaning(c) = <<"PRINTSCREEN_RELEASE", "00">>
         /\ c[2] = "F0" /\ c[3] # "7C" => Size(c) = 3 /\ Meaning(c) = <<"E0F0", c[3]>>
         /\ c[2] = "12" => Size(c) = 4 /\ Meaning(c) = <<"PRINTSCREEN_PRESS", "00">>
         /\ c[2] \notin {"F0", "12"} => Size(c) = 2 /\ Meaning(c) = <<"E0", c[2]>>
BY DEF Size, Meaning

LEMMA MeaningIn ==
  ASSUME NEW c \in Seq(Bytes), Len(c) >= 1, Len(c) = Size(c)
  PROVE  Meaning(c) \in Codes
<1>1. c[1] \in Bytes
  OBVIOUS
<1>2. Len(c) >= 2 => c[2] \in Bytes
  OBVIOUS
<1>3. Len(c) >= 3 => c[3] \in Bytes
  OBVIOUS
<1>4. CASE c[1] # "E0"
  BY <1>1, <1>2, <1>4, SizeOf DEF Codes, Plain, Special
<1>5. CASE c[1] = "E0"
  <2>1. c[2] = "F0" /\ c[3] # "7C" => Meaning(c) \in Codes
    BY <1>3, <1>5, ExtendedSizeOf DEF Codes, Plain
  <2>2. c[2] = "F0" /\ c[3] = "7C" => Meaning(c) \in Codes
    BY <1>5, ExtendedSizeOf DEF Codes, Special
  <2>3. c[2] = "12" => Meaning(c) \in Codes
    BY <1>5, ExtendedSizeOf DEF Codes, Special
  <2>4. c[2] \notin {"F0", "12"} => Meaning(c) \in Codes
    BY <1>2, <1>5, ExtendedSizeOf DEF Codes, Plain
  <2>5. QED
    BY <2>1, <2>2, <2>3, <2>4
<1>6. QED
  BY <1>4, <1>5

\* What the code in the ring is can be read there.
LEMMA ReadsCode ==
  ASSUME IInv, NEW off, Stream(off), Ring(off), Len(events) < Len(typed),
         Len(typed[Len(events) + 1]) <= sent - taken
  PROVE  LET c == typed[Len(events) + 1]
         IN  /\ c \in keyboard.codes /\ Len(c) \in 1..8 /\ Len(c) = Size(c) /\ c \in Seq(Bytes)
             /\ taken + Len(c) = off[Len(events) + 1]
             /\ \A i \in 0..Len(c)-1 : At(i) = c[i + 1]
<1> DEFINE n == Len(events) + 1
           c == typed[n]
<1>1. Len(events) \in Nat /\ Len(typed) \in Nat /\ typed \in Seq(keyboard.codes)
  BY DEF IInv, TypeOK, Stream
<1>2. n \in 1..Len(typed) /\ n - 1 = Len(events)
  BY <1>1
<1>3. c \in keyboard.codes
  BY <1>1, <1>2
<1>4. c \in Seq(Bytes) /\ Len(c) \in 1..8 /\ Len(c) = Size(c)
  BY <1>3, CodeForm DEF IInv
<1>5. off[n-1] = taken /\ off[n] = off[n-1] + Len(c)
  BY <1>2 DEF Ring, Stream
<1>6. taken \in Nat /\ sent \in Nat
  BY DEF IInv, TypeOK
<1>7. ASSUME NEW i \in 0..Len(c)-1 PROVE At(i) = c[i + 1]
  <2>1. i + 1 \in 1..Len(c)
    BY <1>4
  <2>2. off[n-1] + (i + 1) > taken /\ off[n-1] + (i + 1) <= sent
    BY <1>4, <1>5, <1>6
  <2>3. (off[n-1] + (i + 1)) - (taken + 1) = i
    BY <1>5, <1>6
  <2>4. keyboard_buffer[Wrap(tail + i)] = c[i + 1]
    BY <1>2, <2>1, <2>2, <2>3 DEF Ring
  <2>5. QED
    BY <2>4 DEF At
<1>8. QED
  BY <1>3, <1>4, <1>5, <1>7

-----------------------------------------------------------------------------
(* The devices and the handlers *)

\* Once the ring was full when a byte came, it stays so that none is stored.
LEMMA StaysSound == ASSUME IInv, [Next]_vars PROVE Sound' => Sound
<1> SUFFICES ASSUME Sound' PROVE Sound
  OBVIOUS
<1>0. isr \subseteq {Kbd}
  BY DEF IInv, Held
<1>1. CASE write_to_buffer \/ update_time
  <2>1. ~HeldBack(Kbd) \/ ~HeldBack(Clock)
    BY <1>1 DEF write_to_buffer, update_time, Serve, Accepts
  <2>2. Kbd \notin isr
    BY <2>1, HoldsBack
  <2>3. early' = early /\ misled' = misled
    BY <1>1 DEF write_to_buffer, update_time, keys
  <2>4. QED
    BY <2>2, <2>3 DEF Sound
<1>2. CASE pit_timer
  <2>1. isr' = isr
    BY <1>0, <1>2, TimerEnds DEF pit_timer, Serve
  <2>2. QED
    BY <1>2, <2>1 DEF pit_timer, keys, Sound
<1>3. CASE UNCHANGED vars \/ (\E c \in keyboard.codes : Type(c)) \/ SendByte \/ (\E l \in {Timer, Clock} : Tick(l))
  <2>1. isr' = isr /\ early' = early /\ misled' = misled
    BY <1>3 DEF vars, Type, SendByte, Tick, keys
  <2>2. QED
    BY <2>1 DEF Sound
<1>4. CASE PollEmpty \/ Wake
  BY <1>4 DEF PollEmpty, Wake, keys, Sound
<1>5. ASSUME Noted, isr' = isr PROVE Sound
  BY <1>5 DEF Noted, Sound
<1>6. ASSUME NEW from, NEW to, Read(from, to) PROVE Sound
  BY <1>5, <1>6 DEF Read
<1>7. ASSUME NEW k, NEW n, Got(k, n) PROVE Sound
  BY <1>5, <1>7 DEF Got
<1>8. CASE Main
  BY <1>4, <1>6, <1>7, <1>8
     DEF Main, PollFirst, ReadReleased, ReadPrefixF0, ReadPrefix12, ReadExtended, ReadPrefix7C,
         ReadExtendedReleased
<1>9. QED
  BY <1>1, <1>2, <1>3, <1>8 DEF Next

\* A step that moves no byte and decodes none.
LEMMA QuietKeeps ==
  ASSUME NEW off, Stream(off), Sound => Following(off), Sound' => Sound,
         UNCHANGED <<wire, obf, keyboard_buffer, head, tail, key_state, keyboard, typed, events, sent, taken>>,
         pc' = pc \/ pc' \in {"poll", "sleep"}
  PROVE  Faithful'
<1>1. Stream(off)'
  BY DEF Stream, InPort
<1>2. ASSUME Sound' PROVE Following(off)'
  <2>1. Ring(off)'
    BY <1>2 DEF Following, Ring
  <2>2. Decoding'
    BY <1>2 DEF Following, Decoding
  <2>3. KeysDown' /\ \A n \in 1..Len(events') : Event(n)'
    BY <1>2 DEF Following, KeysDown, Event, DownAfter, ShiftDown
  <2>4. QED
    BY <2>1, <2>2, <2>3 DEF Following
<1>3. QED
  BY <1>1, <1>2 DEF Faithful

LEMMA Position ==
  ASSUME IInv, NEW off, Stream(off), NEW n \in 1..Len(typed), NEW i \in 1..Len(typed[n])
  PROVE  /\ typed[n] \in Seq(Bytes) /\ Len(typed[n]) \in 1..8
         /\ off[n-1] \in Nat /\ off[n] \in Nat /\ off[Len(typed)] \in Nat
         /\ off[n-1] + i \in 1..off[Len(typed)]
<1>1. typed \in Seq(keyboard.codes) /\ Len(typed) \in Nat
  BY DEF Stream
<1>2. typed[n] \in keyboard.codes
  BY <1>1
<1>3. typed[n] \in Seq(Bytes) /\ Len(typed[n]) \in 1..8
  BY <1>2, CodeForm DEF IInv
<1>4. n-1 \in 0..Len(typed) /\ n \in 0..Len(typed) /\ Len(typed) \in 0..Len(typed)
  BY <1>1
<1>5. off[n-1] \in Nat /\ off[n] \in Nat /\ off[Len(typed)] \in Nat
  BY <1>4 DEF Stream
<1>6. off[n] = off[n-1] + Len(typed[n]) /\ off[n] <= off[Len(typed)]
  BY DEF Stream
<1>7. QED
  BY <1>3, <1>5, <1>6

LEMMA SendByteStreams ==
  ASSUME IInv, NEW off, Stream(off), SendByte PROVE Stream(off)'
<1>1. wire \in Seq(Bytes) /\ wire # <<>> /\ sent \in Nat
  BY DEF IInv, TypeOK, SendByte
<1>2. obf' = wire[1] /\ obf' \in Bytes /\ wire' = Tail(wire) /\ InPort = 0
  BY <1>1 DEF SendByte, InPort
<1>3. InPort' = 1
  BY <1>2, KeyboardAssumption DEF InPort
<1>4. Len(wire') = Len(wire) - 1 /\ Len(wire) \in Nat /\ \A m \in 1..Len(wire)-1 : wire'[m] = wire[m+1]
  BY <1>1, <1>2
<1>5. typed' = typed /\ sent' = sent /\ keyboard' = keyboard
  BY DEF SendByte, keys
<1>6. off[Len(typed)] = sent + Len(wire)
  BY <1>1, <1>2 DEF Stream
<1>7. ASSUME NEW n \in 1..Len(typed), NEW i \in 1..Len(typed[n])
      PROVE  /\ off[n-1] + i = sent + 1 => obf' = typed[n][i]
             /\ off[n-1] + i > sent + 1 => wire'[(off[n-1] + i) - (sent + 1)] = typed[n][i]
  <2> DEFINE p == off[n-1] + i
  <2>1. p \in 1..(sent + Len(wire))
    BY <1>6, Position
  <2>2. p > sent => wire[p - sent] = typed[n][i]
    <3>1. p > sent + InPort => wire[p - (sent + InPort)] = typed[n][i]
      BY DEF Stream
    <3>2. sent + InPort = sent
      BY <1>1, <1>2
    <3>3. QED
      BY <3>1, <3>2
  <2> HIDE DEF p
  <2>3. p = sent + 1 => obf' = typed[n][i]
    BY <1>1, <1>2, <2>1, <2>2
  <2>4. p > sent + 1 => wire'[p - (sent + 1)] = typed[n][i]
    <3> SUFFICES ASSUME p > sent + 1 PROVE wire'[p - (sent + 1)] = typed[n][i]
      OBVIOUS
    <3> DEFINE m == p - (sent + 1)
    <3>1. m \in 1..Len(wire)-1 /\ m + 1 = p - sent
      BY <1>1, <1>4, <2>1
    <3>2. wire[m + 1] = typed[n][i]
      BY <1>1, <2>1, <2>2, <3>1
    <3>3. QED
      BY <1>4, <3>1, <3>2
  <2>5. QED
    BY <2>3, <2>4 DEF p
<1>8. off[Len(typed)] = sent + 1 + Len(wire')
  BY <1>1, <1>4, <1>6
<1>9. QED
  BY <1>3, <1>5, <1>7, <1>8 DEF Stream

LEMMA SendByteFaithful ==
  ASSUME IInv, NEW off, Stream(off), Sound => Following(off), Sound' => Sound, SendByte
  PROVE  Faithful'
<1>1. Stream(off)'
  BY SendByteStreams
<1>2. UNCHANGED <<keyboard_buffer, head, tail, key_state, typed, events, sent, taken, pc>>
  BY DEF SendByte, ring, keys
<1>3. ASSUME Sound' PROVE Following(off)'
  <2>1. Ring(off)' /\ Decoding'
    BY <1>2, <1>3 DEF Following, Ring, Decoding
  <2>2. KeysDown' /\ \A n \in 1..Len(events') : Event(n)'
    BY <1>2, <1>3 DEF Following, KeysDown, Event, DownAfter, ShiftDown
  <2>3. QED
    BY <2>1, <2>2 DEF Following
<1>4. QED
  BY <1>1, <1>3 DEF Faithful

LEMMA WriteStreams ==
  ASSUME IInv, NEW off, Stream(off), write_to_buffer, ~BufferFull PROVE Stream(off)'
<1>1. obf # NoByte /\ wire \in Seq(Bytes) /\ sent \in Nat
  <2>1. Kbd \in irr
    BY DEF write_to_buffer, Serve, Accepts
  <2>2. QED
    BY <2>1 DEF IInv, Held, TypeOK
<1>2. InPort = 1 /\ InPort' = 0 /\ sent' = sent + 1
  BY <1>1 DEF write_to_buffer, InPort
<1>3. typed' = typed /\ wire' = wire /\ keyboard' = keyboard
  BY DEF write_to_buffer, keys
<1>4. sent' + InPort' = sent + InPort /\ Len(wire) \in Nat
  BY <1>1, <1>2
<1>5. ASSUME NEW n \in 1..Len(typed), NEW i \in 1..Len(typed[n]), off[n-1] + i > sent' + InPort'
      PROVE  wire'[(off[n-1] + i) - (sent' + InPort')] = typed[n][i]
  <2>1. off[n-1] + i > sent + InPort => wire[(off[n-1] + i) - (sent + InPort)] = typed[n][i]
    BY DEF Stream
  <2>2. QED
    BY <1>3, <1>4, <1>5, <2>1
<1>6. off[Len(typed)] = sent' + InPort' + Len(wire')
  <2>1. off[Len(typed)] = sent + InPort + Len(wire)
    BY DEF Stream
  <2>2. QED
    BY <1>3, <1>4, <2>1
<1>7. /\ typed \in Seq(keyboard.codes) /\ Len(typed) <= keyboard.most
      /\ off \in [0..Len(typed) -> Nat] /\ off[0] = 0
      /\ \A n \in 1..Len(typed) : /\ off[n] = off[n-1] + Len(typed[n])
                                  /\ off[n] <= off[Len(typed)] /\ off[n] <= 8 * n
  BY DEF Stream
<1>8. \A n \in 1..Len(typed) : \A i \in 1..Len(typed[n]) :
        /\ off[n-1] + i = sent' + 1 /\ InPort' = 1 => obf' = typed[n][i]
        /\ off[n-1] + i > sent' + InPort' => wire'[(off[n-1] + i) - (sent' + InPort')] = typed[n][i]
  BY <1>2, <1>5
<1>9. QED
  BY <1>3, <1>6, <1>7, <1>8 DEF Stream

LEMMA WriteRing ==
  ASSUME IInv, NEW off, Stream(off), Ring(off), write_to_buffer, ~BufferFull
  PROVE  Ring(off)'
<1>1. /\ BufSize \in Nat /\ BufSize > 0 /\ taken \in Nat /\ sent \in Nat
      /\ head \in 0..BufSize-1 /\ tail \in 0..BufSize-1
      /\ keyboard_buffer \in [0..BufSize-1 -> Bytes]
  BY Sizes DEF IInv, TypeOK
<1>2. /\ keyboard_buffer' = [keyboard_buffer EXCEPT ![head] = obf]
      /\ head' = Wrap(head + 1) /\ sent' = sent + 1
      /\ UNCHANGED <<tail, typed, events, taken>>
  BY DEF write_to_buffer
<1>3. obf # NoByte
  <2>1. Kbd \in irr
    BY DEF write_to_buffer, Serve, Accepts
  <2>2. QED
    BY <2>1 DEF IInv, Held
<1>4. InPort = 1
  BY <1>3 DEF InPort
<1> DEFINE m == sent - taken
<1>5. m \in 0..BufSize-1 /\ head = IF tail + m < BufSize THEN tail + m ELSE (tail + m) - BufSize
  <2>1. m \in 0..BufSize-1
    BY <1>1 DEF Ring
  <2>2. head = Wrap(tail + m)
    BY DEF Ring
  <2> HIDE DEF m
  <2>3. tail + m \in Nat /\ tail + m < 2 * BufSize
    BY <1>1, <2>1
  <2>4. QED
    BY <2>1, <2>2, <2>3, WrapOf
<1>6. head' = IF head + 1 < BufSize THEN head + 1 ELSE 0
  <2>1. head + 1 \in Nat /\ head + 1 < 2 * BufSize
    BY <1>1
  <2>2. QED
    BY <1>1, <1>2, <2>1, WrapOf
<1>7. head' # tail
  BY <1>2 DEF BufferFull
<1>8. m + 1 < BufSize /\ sent' - taken = m + 1
  <2>1. m + 1 # BufSize
    <3> HIDE DEF m
    <3>1. QED
      BY <1>1, <1>5, <1>6, <1>7
  <2>2. QED
    BY <1>1, <1>2, <1>5, <2>1
<1>9. head' = Wrap(tail + (m + 1))
  <2> HIDE DEF m
  <2>1. tail + (m + 1) \in Nat /\ tail + (m + 1) < 2 * BufSize
    BY <1>1, <1>5, <1>8
  <2>2. Wrap(tail + (m + 1)) = IF tail + (m + 1) < BufSize THEN tail + (m + 1)
                               ELSE (tail + (m + 1)) - BufSize
    BY <2>1, WrapOf
  <2>3. QED
    BY <1>1, <1>5, <1>6, <1>8, <2>2
<1>10. ASSUME NEW n \in 1..Len(typed), NEW i \in 1..Len(typed[n]),
              taken < off[n-1] + i, off[n-1] + i <= sent + 1
       PROVE  keyboard_buffer'[Wrap(tail + ((off[n-1] + i) - (taken + 1)))] = typed[n][i]
  <2> DEFINE p == off[n-1] + i
             j == p - (taken + 1)
             w == Wrap(tail + j)
  <2>1. p \in Nat /\ taken < p /\ p <= sent + 1
    BY <1>10, Position
  <2>2. p <= sent => keyboard_buffer[w] = typed[n][i]
    BY <1>10 DEF Ring
  <2>3. p = sent + 1 => obf = typed[n][i]
    BY <1>4 DEF Stream
  <2> HIDE DEF p
  <2>4. j \in 0..m /\ (j = m <=> p = sent + 1)
    BY <1>1, <2>1
  <2> HIDE DEF j, m
  <2>5. tail + j \in Nat /\ tail + j < 2 * BufSize
    BY <1>1, <1>5, <2>4
  <2>6. w = IF tail + j < BufSize THEN tail + j ELSE (tail + j) - BufSize
    BY <2>5, WrapOf
  <2> HIDE DEF w
  <2>7. w \in 0..BufSize-1 /\ (w = head <=> j = m)
    BY <1>1, <1>5, <2>4, <2>6
  <2>8. CASE j = m
    <3>1. keyboard_buffer'[w] = obf
      BY <1>1, <1>2, <2>7, <2>8
    <3>2. QED
      BY <2>3, <2>4, <2>8, <3>1 DEF w, j, p
  <2>9. CASE j # m
    <3>1. keyboard_buffer'[w] = keyboard_buffer[w]
      BY <1>1, <1>2, <2>7, <2>9
    <3>2. p <= sent
      BY <1>1, <2>1, <2>4, <2>9
    <3>3. QED
      BY <2>2, <3>1, <3>2 DEF w, j, p
  <2>10. QED
    BY <2>8, <2>9
<1>11. Len(events) <= Len(typed) /\ taken = off[Len(events)] /\ taken <= sent + 1
  BY <1>1 DEF Ring
<1>12. QED
  BY <1>2, <1>8, <1>9, <1>10, <1>11 DEF Ring

LEMMA WriteFaithful ==
  ASSUME IInv, NEW off, Stream(off), Sound => Following(off), Sound' => Sound, write_to_buffer
  PROVE  Faithful'
<1>1. CASE BufferFull
  <2>1. UNCHANGED <<wire, obf, keyboard_buffer, head, tail, key_state, keyboard, typed, events, sent, taken, pc>>
    BY <1>1 DEF write_to_buffer, keys
  <2>2. QED
    BY <2>1, QuietKeeps
<1>2. CASE ~BufferFull
  <2>1. Stream(off)'
    BY <1>2, WriteStreams
  <2>2. UNCHANGED <<key_state, typed, events, pc, taken>> /\ sent' = sent + 1
    BY <1>2 DEF write_to_buffer, keys
  <2>3. ASSUME Sound' PROVE Following(off)'
    <3>1. Ring(off)'
      BY <1>2, <2>3, WriteRing DEF Following
    <3>2. sent - taken <= sent' - taken' /\ sent - taken \in Int
      BY <2>2 DEF IInv, TypeOK
    <3>3. Decoding'
      <4> SUFFICES ASSUME pc \notin {"poll", "sleep"} PROVE Decoding'
        BY <2>2 DEF Decoding
      <4>1. Decoding /\ Ring(off)
        BY <2>3 DEF Following
      <4>2. Len(typed[Len(events) + 1]) <= sent' - taken'
        <5>1. Len(events) < Len(typed) /\ Len(typed[Len(events) + 1]) <= sent - taken
          BY <4>1 DEF Decoding
        <5>2. Len(typed[Len(events) + 1]) \in Int
          BY <4>1, <5>1, ReadsCode
        <5>3. sent' - taken' = (sent - taken) + 1
          BY <2>2 DEF IInv, TypeOK
        <5>4. QED
          BY <3>2, <5>1, <5>2, <5>3
      <4>3. QED
        BY <2>2, <4>1, <4>2 DEF Decoding
    <3>4. KeysDown' /\ \A n \in 1..Len(events') : Event(n)'
      BY <2>2, <2>3 DEF Following, KeysDown, Event, DownAfter, ShiftDown
    <3>5. QED
      BY <3>1, <3>3, <3>4 DEF Following
  <2>4. QED
    BY <2>1, <2>3 DEF Faithful
<1>3. QED
  BY <1>1, <1>2

\* A code typed goes to the end of the stream.
LEMMA TypeStreams ==
  ASSUME IInv, NEW off, Stream(off), NEW c \in keyboard.codes, Type(c),
         NEW longer, longer = [n \in 0..Len(typed)+1 |-> IF n = Len(typed) + 1 THEN off[Len(typed)] + Len(c)
                                                         ELSE off[n]]
  PROVE  /\ Stream(longer)' /\ Len(typed') = Len(typed) + 1
         /\ \A n \in 1..Len(typed) : typed'[n] = typed[n]
         /\ \A n \in 0..Len(typed) : longer[n] = off[n]
<1> DEFINE L == Len(typed)
           P == sent + InPort
<1>1. typed \in Seq(keyboard.codes) /\ L \in Nat /\ L < keyboard.most /\ keyboard.most \in Nat
  BY BoundIn DEF Type, Stream, IInv
<1>2. typed' = Append(typed, c) /\ wire' = wire \o c /\ keyboard' = keyboard /\ obf' = obf /\ sent' = sent
  BY DEF Type, keys
<1>3. typed' \in Seq(keyboard.codes) /\ Len(typed') = L + 1 /\ typed'[L+1] = c /\ \A n \in 1..L : typed'[n] = typed[n]
  BY <1>1, <1>2
<1>4. c \in Seq(Bytes) /\ Len(c) \in 1..8 /\ wire \in Seq(Bytes) /\ Len(wire) \in Nat /\ P \in Nat /\ sent \in Nat
  BY CodeForm DEF IInv, TypeOK, InPort
<1>5. /\ Len(wire') = Len(wire) + Len(c)
      /\ \A i \in 1..Len(wire) : wire'[i] = wire[i]
      /\ \A i \in 1..Len(c) : wire'[Len(wire) + i] = c[i]
  BY <1>2, <1>4
<1>6. InPort' = InPort /\ InPort \in {0, 1} /\ sent' + InPort' = P
  BY <1>2 DEF InPort
<1>7. off \in [0..L -> Nat] /\ off[0] = 0 /\ off[L] = P + Len(wire)
  BY DEF Stream
<1>8. off[L] \in Nat /\ off[L] <= 8 * L
  <2>1. L = 0 \/ L \in 1..L
    BY <1>1
  <2>2. L \in 1..L => off[L] <= 8 * L
    BY DEF Stream
  <2>3. QED
    BY <1>1, <1>7, <2>1, <2>2
<1>9. longer[L+1] = off[L] + Len(c) /\ \A n \in 0..L : longer[n] = off[n]
  BY <1>1
<1>10. longer \in [0..L+1 -> Nat]
  BY <1>1, <1>4, <1>7, <1>8
<1>11. ASSUME NEW n \in 1..L+1
       PROVE  /\ longer[n] = longer[n-1] + Len(typed'[n])
              /\ longer[n] <= longer[L+1] /\ longer[n] <= 8 * n
  <2>1. CASE n = L + 1
    <3>1. n - 1 = L /\ L \in 0..L
      BY <1>1, <2>1
    <3>2. longer[n-1] = off[L] /\ longer[n] = off[L] + Len(c) /\ typed'[n] = c
      BY <1>3, <1>9, <2>1, <3>1
    <3>3. off[L] + Len(c) <= 8 * n
      <4>1. \A x \in Nat, y \in 1..8, l \in Nat : x <= 8 * l => x + y <= 8 * (l + 1)
        OBVIOUS
      <4>2. off[L] + Len(c) <= 8 * (L + 1)
        BY <1>1, <1>4, <1>8, <4>1
      <4>3. QED
        BY <2>1, <4>2
    <3>4. QED
      BY <1>4, <1>8, <2>1, <3>2, <3>3
  <2>2. CASE n \in 1..L
    <3>1. off[n] = off[n-1] + Len(typed[n]) /\ off[n] <= off[L] /\ off[n] <= 8 * n /\ off[n] \in Nat
      BY <2>2 DEF Stream
    <3>2. n - 1 \in 0..L /\ n \in 0..L
      BY <1>1, <2>2
    <3>3. longer[n-1] = off[n-1] /\ longer[n] = off[n] /\ typed'[n] = typed[n]
      BY <1>3, <1>9, <2>2, <3>2
    <3>4. QED
      BY <1>4, <1>8, <1>9, <3>1, <3>3
  <2>3. QED
    BY <1>1, <2>1, <2>2
<1>12. longer[L+1] = P + Len(wire')
  BY <1>4, <1>5, <1>7, <1>9
<1>13. ASSUME NEW n \in 1..L+1, NEW i \in 1..Len(typed'[n])
       PROVE  /\ longer[n-1] + i = sent + 1 /\ InPort = 1 => obf = typed'[n][i]
              /\ longer[n-1] + i > P => wire'[(longer[n-1] + i) - P] = typed'[n][i]
  <2>1. CASE n = L + 1
    <3>1. longer[n-1] = P + Len(wire) /\ typed'[n] = c
      <4>1. n - 1 = L /\ L \in 0..L
        BY <1>1, <2>1
      <4>2. QED
        BY <1>3, <1>7, <1>9, <2>1, <4>1
    <3>2. i \in 1..Len(c)
      BY <3>1
    <3>3. wire'[Len(wire) + i] = c[i]
      BY <1>5, <3>2
    <3>4. (longer[n-1] + i) - P = Len(wire) + i
      BY <1>4, <3>1, <3>2
    <3>5. ~(longer[n-1] + i = sent + 1 /\ InPort = 1)
      BY <1>4, <1>6, <3>1, <3>2
    <3>6. QED
      BY <3>1, <3>3, <3>4, <3>5
  <2>2. CASE n \in 1..L
    <3>1. typed'[n] = typed[n] /\ longer[n-1] = off[n-1]
      <4>1. n - 1 \in 0..L
        BY <1>1, <2>2
      <4>2. QED
        BY <1>3, <1>9, <2>2, <4>1
    <3>2. i \in 1..Len(typed[n])
      BY <3>1
    <3>3. /\ off[n-1] + i = sent + 1 /\ InPort = 1 => obf = typed[n][i]
          /\ off[n-1] + i > P => wire[(off[n-1] + i) - P] = typed[n][i]
      BY <2>2, <3>2 DEF Stream
    <3>4. off[n-1] + i \in 1..off[L]
      BY <2>2, <3>2, Position
    <3>5. off[n-1] + i > P => (off[n-1] + i) - P \in 1..Len(wire)
      BY <1>4, <1>7, <3>4
    <3>6. off[n-1] + i > P => wire'[(off[n-1] + i) - P] = wire[(off[n-1] + i) - P]
      BY <1>5, <3>5
    <3>7. QED
      BY <3>1, <3>3, <3>6
  <2>3. QED
    BY <1>1, <2>1, <2>2
<1>14. L + 1 <= keyboard.most /\ longer[0] = 0
  BY <1>1, <1>7, <1>9
<1>15. Stream(longer)'
  <2> HIDE DEF P, L
  <2>1. Len(typed') = L + 1 /\ typed' \in Seq(keyboard'.codes) /\ Len(typed') <= keyboard'.most
    BY <1>2, <1>3, <1>14
  <2>2. longer \in [0..Len(typed') -> Nat] /\ longer[0] = 0 /\ longer[Len(typed')] = sent' + InPort' + Len(wire')
    BY <1>6, <1>10, <1>12, <1>14, <2>1
  <2>3. \A n \in 1..Len(typed') : /\ longer[n] = longer[n-1] + Len(typed'[n])
                                  /\ longer[n] <= longer[Len(typed')] /\ longer[n] <= 8 * n
    BY <1>11, <2>1
  <2>4. \A n \in 1..Len(typed') : \A i \in 1..Len(typed'[n]) :
          /\ longer[n-1] + i = sent' + 1 /\ InPort' = 1 => obf' = typed'[n][i]
          /\ longer[n-1] + i > sent' + InPort' => wire'[(longer[n-1] + i) - (sent' + InPort')] = typed'[n][i]
    <3>1. \A n \in 1..L+1 : \A i \in 1..Len(typed'[n]) :
            /\ longer[n-1] + i = sent + 1 /\ InPort = 1 => obf = typed'[n][i]
            /\ longer[n-1] + i > P => wire'[(longer[n-1] + i) - P] = typed'[n][i]
      BY <1>13
    <3>2. sent' + InPort' = P /\ InPort' = InPort /\ obf' = obf /\ sent' = sent
      BY <1>2, <1>6
    <3>3. QED
      BY <2>1, <3>1, <3>2
  <2>5. QED
    BY <2>1, <2>2, <2>3, <2>4 DEF Stream
<1>16. QED
  BY <1>3, <1>9, <1>15

\* What the codes so far mean does not depend on those that follow.
LEMMA DownStays ==
  ASSUME NEW n \in Nat, \A i \in 1..n : typed'[i] = typed[i], NEW k
  PROVE  DownAfter(k, n)' <=> DownAfter(k, n)
BY DEF DownAfter

LEMMA TypeFaithful ==
  ASSUME IInv, NEW off, Stream(off), Sound => Following(off), Sound' => Sound,
         NEW c \in keyboard.codes, Type(c)
  PROVE  Faithful'
<1> DEFINE L == Len(typed)
<1>0. PICK longer : longer = [n \in 0..Len(typed)+1 |-> IF n = Len(typed) + 1 THEN off[Len(typed)] + Len(c)
                                                       ELSE off[n]]
  OBVIOUS
<1>1. /\ Stream(longer)' /\ Len(typed') = L + 1
      /\ \A n \in 1..L : typed'[n] = typed[n]
      /\ \A n \in 0..L : longer[n] = off[n]
  BY <1>0, TypeStreams
<1>2. UNCHANGED <<keyboard_buffer, head, tail, key_state, events, sent, taken, pc>>
  BY DEF Type, ring, keys
<1>3. L \in Nat /\ Len(events) \in Nat /\ sent \in Nat /\ taken \in Nat
  BY DEF Stream, IInv, TypeOK
<1>4. off[L] \in Nat /\ off[L] >= sent
  <2>1. off[L] = sent + InPort + Len(wire) /\ Len(wire) \in Nat /\ InPort \in Nat
    BY DEF Stream, InPort, IInv, TypeOK
  <2>2. QED
    BY <1>3, <2>1
<1>5. ASSUME Sound' PROVE Following(longer)'
  <2>1. Ring(off) /\ Decoding /\ KeysDown /\ \A n \in 1..Len(events) : Event(n)
    BY <1>5 DEF Following
  <2>2. Len(events) <= L
    BY <2>1 DEF Ring
  <2>3. Ring(longer)'
    <3>1. taken = longer[Len(events)]
      BY <1>1, <1>3, <2>1, <2>2 DEF Ring
    <3>2. ASSUME NEW n \in 1..L+1, NEW i \in 1..Len(typed'[n]),
                 taken < longer[n-1] + i, longer[n-1] + i <= sent
          PROVE  keyboard_buffer[Wrap(tail + ((longer[n-1] + i) - (taken + 1)))] = typed'[n][i]
      <4>1. n - 1 \in 0..L
        BY <1>3
      <4>2. longer[n-1] = off[n-1]
        BY <1>1, <4>1
      <4>3. i \in Nat /\ i > 0
        OBVIOUS
      <4>4. n # L + 1
        BY <1>3, <1>4, <3>2, <4>2, <4>3
      <4>5. n \in 1..L
        BY <1>3, <4>4
      <4>6. typed'[n] = typed[n]
        BY <1>1, <4>5
      <4>7. QED
        BY <2>1, <3>2, <4>2, <4>5, <4>6 DEF Ring
    <3>3. Len(events) <= L + 1 /\ taken <= sent /\ sent - taken < BufSize /\ head = Wrap(tail + (sent - taken))
      BY <1>3, <2>1, <2>2 DEF Ring
    <3>4. QED
      BY <1>1, <1>2, <3>1, <3>2, <3>3 DEF Ring
  <2>4. Decoding'
    <3> SUFFICES ASSUME pc \notin {"poll", "sleep"} PROVE Decoding'
      BY <1>2 DEF Decoding
    <3>1. Len(events) < L
      BY <2>1 DEF Decoding
    <3>2. Len(events) + 1 \in 1..L /\ Len(events) < L + 1
      BY <1>3, <3>1
    <3>3. typed'[Len(events) + 1] = typed[Len(events) + 1]
      BY <1>1, <3>2
    <3>4. QED
      BY <1>1, <1>2, <2>1, <3>2, <3>3 DEF Decoding
  <2>5. ASSUME NEW n \in 0..Len(events), NEW k PROVE DownAfter(k, n)' <=> DownAfter(k, n)
    <3>1. \A i \in 1..n : typed'[i] = typed[i]
      BY <1>1, <1>3, <2>2
    <3>2. n \in Nat
      OBVIOUS
    <3>3. QED
      BY <3>1, <3>2, DownStays
  <2>6. KeysDown'
    <3>1. Len(events) \in 0..Len(events)
      BY <1>3
    <3>2. QED
      BY <1>2, <2>1, <2>5, <3>1 DEF KeysDown
  <2>7. ASSUME NEW n \in 1..Len(events) PROVE Event(n)'
    <3>1. typed'[n] = typed[n] /\ n \in 0..Len(events)
      BY <1>1, <1>3, <2>2
    <3>2. Event(n)
      BY <2>1
    <3>3. ShiftDown(n)' <=> ShiftDown(n)
      BY <2>5, <3>1 DEF ShiftDown
    <3>4. QED
      BY <1>2, <3>1, <3>2, <3>3 DEF Event
  <2>8. QED
    BY <1>2, <2>3, <2>4, <2>6, <2>7 DEF Following
<1>6. QED
  BY <1>1, <1>5 DEF Faithful

-----------------------------------------------------------------------------
(* The main loop *)

\* A whole code is in the ring, and is what the reads from it give.
CodeAhead(c, off) ==
  /\ c = typed[Len(events) + 1] /\ Len(events) < Len(typed)
  /\ c \in Seq(Bytes) /\ Len(c) \in 1..8 /\ Len(c) = Size(c)
  /\ Len(c) <= sent - taken /\ taken + Len(c) = off[Len(events) + 1]
  /\ \A i \in 0..Len(c)-1 : At(i) = c[i + 1]

LEMMA Ahead ==
  ASSUME IInv, NEW off, Stream(off), Following(off), pc # "sleep", pc = "poll" => ~Early
  PROVE  CodeAhead(typed[Len(events) + 1], off)
<1>1. Len(events) < Len(typed) /\ Len(typed[Len(events) + 1]) <= sent - taken
  <2>1. CASE pc = "poll"
    <3>1. ~Early
      BY <2>1
    <3>2. Len(events) < Len(typed) /\ ~(sent - taken < Len(typed[Len(events) + 1]))
      BY <3>1 DEF Early, IInv, TypeOK, Stream
    <3>3. typed[Len(events) + 1] \in keyboard.codes
      BY <3>2 DEF IInv, TypeOK, Stream
    <3>4. Len(typed[Len(events) + 1]) \in Int /\ sent - taken \in Int
      BY <3>3, CodeForm DEF IInv, TypeOK
    <3>5. QED
      BY <3>2, <3>4
  <2>2. CASE pc # "poll"
    BY <2>2 DEF Following, Decoding
  <2>3. QED
    BY <2>1, <2>2
<1>2. Ring(off)
  BY DEF Following
<1>3. QED
  BY <1>1, <1>2, ReadsCode DEF CodeAhead

\* What the main loop has noted when a step leaves the decoding sound.
LEMMA NotedSound ==
  ASSUME Noted, Sound' PROVE (pc = "poll" => ~Early) /\ ~Misled
BY DEF Noted, Sound

\* As long as the byte behind the array does not mislead the test of 0x12.
LEMMA UnwrappedTells ==
  ASSUME pc = "E0_12", ~Misled
  PROVE  /\ AtUnwrapped # {"12"} => At(1) # "12"
         /\ "12" \in AtUnwrapped => At(1) = "12"
<1>1. \A b \in AtUnwrapped : (b = "12") = (At(1) = "12")
  BY DEF Misled
<1>2. AtUnwrapped # {}
  BY KeyboardAssumption DEF AtUnwrapped
<1>3. QED
  BY <1>1, <1>2

LEMMA ReadFaithful ==
  ASSUME NEW off, Stream(off), Sound => Following(off), Sound' => Sound,
         NEW from, NEW to, Read(from, to), Sound' => Decoding'
  PROVE  Faithful'
<1>1. UNCHANGED <<wire, obf, keyboard_buffer, head, tail, key_state, keyboard, typed, events, sent, taken>>
  BY DEF Read, Noted, ring
<1>2. Stream(off)'
  BY <1>1 DEF Stream, InPort
<1>3. ASSUME Sound' PROVE Following(off)'
  <2>1. Ring(off)'
    BY <1>1, <1>3 DEF Following, Ring
  <2>2. KeysDown' /\ \A n \in 1..Len(events') : Event(n)'
    BY <1>1, <1>3 DEF Following, KeysDown, Event, DownAfter, ShiftDown
  <2>3. QED
    BY <1>3, <2>1, <2>2 DEF Following
<1>4. QED
  BY <1>2, <1>3 DEF Faithful

\* The first test of a code, and the later ones.
LEMMA ReadsFaithful ==
  ASSUME IInv, NEW off, Stream(off), Sound => Following(off), Sound' => Sound,
         \/ At(0) = "E0" /\ Read("poll", "E0")
         \/ At(0) = "F0" /\ Read("poll", "F0")
         \/ ReadPrefixF0
         \/ AtUnwrapped # {"12"} /\ Read("E0_12", "E0x")
         \/ At(2) # "7C" /\ Read("E0F0", "E0F0x")
  PROVE  Faithful'
<1>1. \E from, to : Read(from, to) /\ pc # "sleep"
  BY DEF ReadPrefixF0, Read
<1>2. Noted /\ UNCHANGED <<typed, events, sent, taken>> /\ pc # "sleep"
  BY <1>1 DEF Read
<1>3. ASSUME Sound' PROVE Decoding'
  <2>1. PICK c : c = typed[Len(events) + 1]
    OBVIOUS
  <2>2. (pc = "poll" => ~Early) /\ ~Misled
    BY <1>2, <1>3, NotedSound
  <2>3. Following(off)
    BY <1>3
  <2>4. CodeAhead(c, off)
    BY <1>2, <2>1, <2>2, <2>3, Ahead
  <2>5. /\ Len(events) < Len(typed) /\ Len(c) <= sent - taken /\ Len(c) = Size(c) /\ Len(c) \in 1..8
        /\ At(0) = c[1] /\ (Len(c) >= 2 => At(1) = c[2]) /\ (Len(c) >= 3 => At(2) = c[3])
    <3>1. Len(c) \in 1..8 /\ \A i \in 0..Len(c)-1 : At(i) = c[i + 1]
      BY <2>4 DEF CodeAhead
    <3>2. 0 \in 0..Len(c)-1 /\ (Len(c) >= 2 => 1 \in 0..Len(c)-1) /\ (Len(c) >= 3 => 2 \in 0..Len(c)-1)
      <4>1. \A l \in 1..8 : 0 \in 0..l-1 /\ (l >= 2 => 1 \in 0..l-1) /\ (l >= 3 => 2 \in 0..l-1)
        OBVIOUS
      <4>2. QED
        BY <3>1, <4>1
    <3>3. At(0) = c[0 + 1] /\ (Len(c) >= 2 => At(1) = c[1 + 1]) /\ (Len(c) >= 3 => At(2) = c[2 + 1])
      BY <3>1, <3>2
    <3>4. QED
      BY <2>4, <3>3 DEF CodeAhead
  <2>6. pc # "poll" => /\ c[1] = IF pc = "F0" THEN "F0" ELSE "E0"
                       /\ pc = "E0F0" => c[2] = "F0"
                       /\ pc = "E0_12" => c[2] # "F0"
    BY <1>2, <2>1, <2>3 DEF Following, Decoding
  <2>7. c[1] = "E0" => Size(c) >= 2 /\ (c[2] = "F0" => Size(c) >= 3)
    BY SizeOf, ExtendedSizeOf
  <2>8. /\ c[1] = IF pc' = "F0" THEN "F0" ELSE "E0"
        /\ pc' \in {"E0F0", "E0F0x"} => c[2] = "F0"
        /\ pc' = "E0F0x" => c[3] # "7C"
        /\ pc' \in {"E0_12", "E0x"} => c[2] # "F0"
        /\ pc' = "E0x" => c[2] # "12"
    <3>1. CASE At(0) = "E0" /\ Read("poll", "E0")
      BY <2>5, <3>1 DEF Read
    <3>2. CASE At(0) = "F0" /\ Read("poll", "F0")
      BY <2>5, <3>2 DEF Read
    <3>3. CASE ReadPrefixF0
      <4>1. pc = "E0" /\ ((At(1) = "F0" /\ pc' = "E0F0") \/ (At(1) # "F0" /\ pc' = "E0_12"))
        BY <3>3 DEF ReadPrefixF0, Read
      <4>2. c[1] = "E0" /\ At(1) = c[2]
        BY <2>5, <2>6, <2>7, <4>1
      <4>3. QED
        BY <4>1, <4>2
    <3>4. CASE AtUnwrapped # {"12"} /\ Read("E0_12", "E0x")
      <4>1. pc = "E0_12" /\ pc' = "E0x" /\ AtUnwrapped # {"12"}
        BY <3>4 DEF Read
      <4>2. At(1) # "12"
        BY <2>2, <4>1, UnwrappedTells
      <4>3. c[1] = "E0" /\ At(1) = c[2] /\ c[2] # "F0"
        BY <2>5, <2>6, <2>7, <4>1
      <4>4. QED
        BY <4>1, <4>2, <4>3
    <3>5. CASE At(2) # "7C" /\ Read("E0F0", "E0F0x")
      <4>1. pc = "E0F0" /\ pc' = "E0F0x" /\ At(2) # "7C"
        BY <3>5 DEF Read
      <4>2. c[1] = "E0" /\ c[2] = "F0" /\ At(2) = c[3]
        BY <2>5, <2>6, <2>7, <4>1
      <4>3. QED
        BY <4>1, <4>2
    <3>6. QED
      BY <3>1, <3>2, <3>3, <3>4, <3>5
  <2>9. QED
    BY <1>2, <2>1, <2>5, <2>8 DEF Decoding
<1>4. QED
  BY <1>1, <1>3, ReadFaithful

\* Two steps along the ring are one.
LEMMA WrapSum ==
  ASSUME NEW t \in 0..BufSize-1, NEW m \in Nat, NEW j \in Nat, m + j < BufSize
  PROVE  Wrap(Wrap(t + m) + j) = Wrap(t + (m + j))
<1>1. BufSize \in Nat /\ BufSize > 0
  BY Sizes
<1>2. Wrap(t + m) = IF t + m < BufSize THEN t + m ELSE (t + m) - BufSize
  <2>1. t + m \in Nat /\ t + m < 2 * BufSize
    BY <1>1
  <2>2. QED
    BY <2>1, WrapOf
<1>3. Wrap(t + (m + j)) = IF t + (m + j) < BufSize THEN t + (m + j) ELSE (t + (m + j)) - BufSize
  <2>1. t + (m + j) \in Nat /\ t + (m + j) < 2 * BufSize
    BY <1>1
  <2>2. QED
    BY <2>1, WrapOf
<1>4. PICK w : w = Wrap(t + m)
  OBVIOUS
<1>5. w \in Nat /\ w + j \in Nat /\ w + j < 2 * BufSize
  BY <1>1, <1>2, <1>4
<1>6. Wrap(w + j) = IF w + j < BufSize THEN w + j ELSE (w + j) - BufSize
  BY <1>5, WrapOf
<1>7. QED
  BY <1>1, <1>2, <1>3, <1>4, <1>6

\* Which keys are down after one more code.
LEMMA DownNext ==
  ASSUME NEW n \in Nat, NEW k
  PROVE  DownAfter(k, n + 1) <=>
           \/ Meaning(typed[n + 1]) = k
           \/ DownAfter(k, n) /\ ~(Released(Meaning(typed[n + 1])) /\ KeyOf(Meaning(typed[n + 1])) = k)
<1>1. \A i \in 1..n+1 : i = n + 1 \/ i \in 1..n
  OBVIOUS
<1>2. ASSUME NEW i \in 1..n PROVE i \in 1..n+1 /\ (\A j \in i+1..n+1 : j = n + 1 \/ j \in i+1..n)
                                  /\ n + 1 \in i+1..n+1 /\ \A j \in i+1..n : j \in i+1..n+1
  OBVIOUS
<1>3. n + 1 \in 1..n+1 /\ \A j \in (n+1)+1..n+1 : FALSE
  OBVIOUS
<1>4. ASSUME DownAfter(k, n + 1), Meaning(typed[n + 1]) # k
      PROVE  DownAfter(k, n) /\ ~(Released(Meaning(typed[n + 1])) /\ KeyOf(Meaning(typed[n + 1])) = k)
  BY <1>1, <1>2, <1>4 DEF DownAfter
<1>5. ASSUME Meaning(typed[n + 1]) = k PROVE DownAfter(k, n + 1)
  BY <1>3, <1>5 DEF DownAfter
<1>6. ASSUME DownAfter(k, n), ~(Released(Meaning(typed[n + 1])) /\ KeyOf(Meaning(typed[n + 1])) = k)
      PROVE  DownAfter(k, n + 1)
  BY <1>2, <1>6 DEF DownAfter
<1>7. QED
  BY <1>4, <1>5, <1>6

\* The code that has just been read is the next one typed.
Decoded(k, n, off) ==
  CodeAhead(typed[Len(events) + 1], off) /\ k = Meaning(typed[Len(events) + 1]) /\ n = Len(typed[Len(events) + 1])

LEMMA GotCounts ==
  ASSUME IInv, NEW off, Stream(off), NEW k, NEW n, Got(k, n), Decoded(k, n, off)
  PROVE  /\ n \in 1..8 /\ n <= sent - taken /\ taken' = taken + n /\ taken' = off[Len(events) + 1]
         /\ events' = Append(events, EventOf(k, key_state')) /\ Len(events') = Len(events) + 1
         /\ Len(events') <= Len(typed) /\ Len(events) \in Nat
         /\ events'[Len(events) + 1] = EventOf(k, key_state')
         /\ \A i \in 1..Len(events) : events'[i] = events[i]
<1>1. n \in 1..8 /\ n <= sent - taken /\ taken + n = off[Len(events) + 1] /\ Len(events) < Len(typed)
  BY DEF Decoded, CodeAhead
<1>2. /\ Len(events) \in Nat /\ Len(typed) \in Nat /\ Len(typed) <= keyboard.most /\ keyboard.most \in Nat
      /\ taken \in Nat /\ sent \in Nat /\ events \in Seq(Events)
  BY BoundIn DEF IInv, TypeOK, Stream
<1>3. off[Len(events) + 1] <= TakenBound
  <2>1. Len(events) + 1 \in 1..Len(typed)
    BY <1>1, <1>2
  <2>2. off[Len(events) + 1] <= 8 * (Len(events) + 1) /\ off[Len(events) + 1] \in Nat
    BY <1>1, <1>2, <2>1 DEF Stream
  <2>3. \A e, l, m \in Nat : e < l /\ l <= m => 8 * (e + 1) <= 8 * (m + 1)
    OBVIOUS
  <2>4. 8 * (Len(events) + 1) <= 8 * (keyboard.most + 1)
    BY <1>1, <1>2, <2>3
  <2>5. QED
    BY <1>2, <2>2, <2>4 DEF TakenBound
<1>4. taken' = taken + n
  <2>1. taken + n \in Int /\ TakenBound \in Int
    BY <1>1, <1>2, BoundIn DEF IInv
  <2>2. QED
    BY <1>1, <1>3, <2>1, MinOfTwo DEF Got
<1>5. Len(events) < EventBound
  BY <1>1, <1>2 DEF EventBound
<1>6. events' = Append(events, EventOf(k, key_state'))
  BY <1>5 DEF Got
<1>7. /\ Len(events') = Len(events) + 1 /\ events'[Len(events) + 1] = EventOf(k, key_state')
      /\ \A i \in 1..Len(events) : events'[i] = events[i]
  BY <1>2, <1>6
<1>8. QED
  BY <1>1, <1>2, <1>4, <1>6, <1>7

LEMMA GotRing ==
  ASSUME IInv, NEW off, Stream(off), Ring(off), NEW k, NEW n, Got(k, n), Decoded(k, n, off)
  PROVE  Ring(off)'
<1>1. /\ n \in 1..8 /\ n <= sent - taken /\ taken' = taken + n /\ taken' = off[Len(events) + 1]
      /\ Len(events') = Len(events) + 1 /\ Len(events') <= Len(typed)
  BY GotCounts
<1>2. /\ BufSize \in Nat /\ BufSize > 0 /\ taken \in Nat /\ sent \in Nat /\ tail \in 0..BufSize-1
      /\ taken <= sent /\ sent - taken < BufSize
  BY Sizes DEF IInv, TypeOK, Ring
<1>3. tail' = Wrap(tail + n) /\ UNCHANGED <<keyboard_buffer, head, typed, sent>>
  BY DEF Got
<1>4. taken' <= sent /\ sent - taken' < BufSize
  BY <1>1, <1>2
<1>5. head = Wrap(tail' + (sent - taken'))
  <2>1. PICK j : j = sent - taken'
    OBVIOUS
  <2>2. j \in Nat /\ n \in Nat /\ n + j = sent - taken
    BY <1>1, <1>2, <2>1
  <2>3. Wrap(tail' + j) = Wrap(tail + (n + j))
    BY <1>2, <1>3, <2>2, WrapSum
  <2>4. QED
    BY <2>1, <2>2, <2>3 DEF Ring
<1>6. ASSUME NEW m \in 1..Len(typed), NEW i \in 1..Len(typed[m]),
             taken' < off[m-1] + i, off[m-1] + i <= sent
      PROVE  keyboard_buffer[Wrap(tail' + ((off[m-1] + i) - (taken' + 1)))] = typed[m][i]
  <2>1. PICK p : p = off[m-1] + i
    OBVIOUS
  <2>2. p \in Nat /\ taken' < p /\ p <= sent
    BY <1>6, <2>1, Position
  <2>3. PICK j : j = p - (taken' + 1)
    OBVIOUS
  <2>4. j \in Nat /\ n \in Nat /\ n + j = p - (taken + 1) /\ n + j < BufSize /\ taken < p
    BY <1>1, <1>2, <2>2, <2>3
  <2>5. Wrap(tail' + j) = Wrap(tail + (n + j))
    BY <1>2, <1>3, <2>4, WrapSum
  <2>6. keyboard_buffer[Wrap(tail + (p - (taken + 1)))] = typed[m][i]
    BY <2>1, <2>2, <2>4 DEF Ring
  <2>7. QED
    BY <2>1, <2>3, <2>4, <2>5, <2>6
<1>7. QED
  BY <1>1, <1>3, <1>4, <1>5, <1>6 DEF Ring

LEMMA GotKeys ==
  ASSUME IInv, NEW off, Stream(off), KeysDown, NEW k, NEW n, Got(k, n), Decoded(k, n, off)
  PROVE  key_state' = {x \in {"plain", "E0"} \X Bytes : DownAfter(x, Len(events) + 1)}
<1>1. PICK e : e = Len(events)
  OBVIOUS
<1>2. e \in Nat /\ k = Meaning(typed[e + 1]) /\ k \in Codes
  <2>1. PICK c : c = typed[Len(events) + 1]
    OBVIOUS
  <2>2. k = Meaning(c) /\ c \in Seq(Bytes) /\ Len(c) >= 1 /\ Len(c) = Size(c)
    BY <2>1 DEF Decoded, CodeAhead
  <2>3. k \in Codes
    BY <2>2, MeaningIn
  <2>4. e \in Nat
    BY <1>1 DEF IInv, TypeOK
  <2>5. QED
    BY <1>1, <2>1, <2>2, <2>3, <2>4
<1>3. key_state' = StateAfter(k, key_state) /\ key_state = {x \in {"plain", "E0"} \X Bytes : DownAfter(x, e)}
  BY <1>1 DEF Got, KeysDown
<1>4. \A x : DownAfter(x, e + 1) <=> k = x \/ (DownAfter(x, e) /\ ~(Released(k) /\ KeyOf(k) = x))
  BY <1>2, DownNext
<1>5. CASE k[1] \in Special
  <2>1. ~Released(k) /\ k \notin {"plain", "E0"} \X Bytes
    BY <1>5 DEF Special, Released
  <2>2. QED
    BY <1>1, <1>3, <1>4, <1>5, <2>1 DEF StateAfter
<1>6. CASE k[1] \notin Special /\ Released(k)
  <2>1. k \notin {"plain", "E0"} \X Bytes
    BY <1>6 DEF Released
  <2>2. key_state' = key_state \ {KeyOf(k)}
    BY <1>3, <1>6 DEF StateAfter
  <2>3. QED
    BY <1>1, <1>3, <1>4, <1>6, <2>1, <2>2
<1>7. CASE k[1] \notin Special /\ ~Released(k)
  <2>1. k \in {"plain", "E0"} \X Bytes
    BY <1>2, <1>7 DEF Codes, Plain, Released
  <2>2. key_state' = key_state \cup {k}
    BY <1>3, <1>7 DEF StateAfter
  <2>3. QED
    BY <1>1, <1>3, <1>4, <1>7, <2>1, <2>2
<1>8. QED
  BY <1>5, <1>6, <1>7

\* A shift key is down in key_state if it is down by the codes.
LEMMA ShiftInState ==
  ASSUME IInv, NEW off, Stream(off), NEW n \in 0..Len(typed),
         NEW held, held = {x \in {"plain", "E0"} \X Bytes : DownAfter(x, n)}
  PROVE  ShiftKeys \cap held # {} <=> ShiftDown(n)
<1>1. ASSUME NEW x \in ShiftKeys, DownAfter(x, n) PROVE x \in {"plain", "E0"} \X Bytes
  <2>1. PICK i \in 1..n : Meaning(typed[i]) = x
    BY <1>1 DEF DownAfter
  <2>2. typed[i] \in keyboard.codes
    <3>1. typed \in Seq(keyboard.codes)
      BY DEF Stream
    <3>2. i \in 1..Len(typed)
      BY <3>1
    <3>3. QED
      BY <3>1, <3>2
  <2>3. x \in Codes
    <3>1. PICK c \in keyboard.codes : c = typed[i]
      BY <2>2
    <3>2. c \in Seq(Bytes) /\ Len(c) >= 1 /\ Len(c) = Size(c)
      <4>1. TypeOK /\ c \in keyboard.codes
        BY <3>1 DEF IInv
      <4>2. c \in Seq(Bytes) /\ Len(c) \in 1..8 /\ Len(c) = Size(c)
        BY <4>1, CodeForm
      <4>3. QED
        BY <4>2
    <3>3. QED
      BY <2>1, <3>1, <3>2, MeaningIn
  <2>4. x[1] = "plain" /\ x = <<x[1], x[2]>>
    BY DEF ShiftKeys
  <2>5. QED
    BY <2>3, <2>4 DEF Codes, Special, Plain
<1>2. QED
  BY <1>1 DEF ShiftDown

LEMMA GotFaithful ==
  ASSUME IInv, NEW off, Stream(off), Sound => Following(off), Sound' => Sound,
         NEW k, NEW n, Got(k, n), Sound' => Decoded(k, n, off)
  PROVE  Faithful'
<1>1. UNCHANGED <<wire, obf, keyboard, typed, sent>> /\ pc' = "sleep"
  BY DEF Got, Noted
<1>2. Stream(off)'
  BY <1>1 DEF Stream, InPort
<1>3. ASSUME Sound' PROVE Following(off)'
  <2>1. Ring(off) /\ KeysDown /\ (\A i \in 1..Len(events) : Event(i)) /\ Decoded(k, n, off)
    BY <1>3 DEF Following
  <2>2. Ring(off)'
    BY <2>1, GotRing
  <2>3. Decoding'
    BY <1>1 DEF Decoding
  <2>4. PICK e : e = Len(events)
    OBVIOUS
  <2>5. e \in Nat /\ Len(events') = e + 1 /\ e + 1 <= Len(typed) /\ Len(typed) \in Nat
    <3>1. Len(events') = Len(events) + 1 /\ Len(events') <= Len(typed) /\ Len(events) \in Nat
      BY <2>1, GotCounts
    <3>2. Len(typed) \in Nat
      BY DEF Stream
    <3>3. QED
      BY <2>4, <3>1, <3>2
  <2>6. ASSUME NEW x, NEW i PROVE DownAfter(x, i)' <=> DownAfter(x, i)
    BY <1>1 DEF DownAfter
  <2>7. key_state' = {x \in {"plain", "E0"} \X Bytes : DownAfter(x, e + 1)}
    BY <2>1, <2>4, GotKeys
  <2>8. KeysDown'
    BY <2>5, <2>6, <2>7 DEF KeysDown
  <2>9. ASSUME NEW i \in 1..e PROVE Event(i)'
    <3>1. events'[i] = events[i] /\ Event(i)
      BY <2>1, <2>4, GotCounts
    <3>2. ShiftDown(i)' <=> ShiftDown(i)
      BY <2>6 DEF ShiftDown
    <3>3. QED
      BY <1>1, <3>1, <3>2 DEF Event
  <2>10. ASSUME NEW i, i = e + 1 PROVE Event(i)'
    <3>1. events'[i] = EventOf(k, key_state') /\ k = Meaning(typed[i])
      BY <2>1, <2>4, <2>10, GotCounts DEF Decoded
    <3>2. i \in 0..Len(typed)
      BY <2>5, <2>10
    <3>3. ShiftKeys \cap key_state' # {} <=> ShiftDown(i)
      <4>1. PICK held : held = key_state'
        OBVIOUS
      <4>2. held = {x \in {"plain", "E0"} \X Bytes : DownAfter(x, i)}
        BY <2>7, <2>10, <4>1
      <4>3. QED
        BY <3>2, <4>1, <4>2, ShiftInState
    <3>4. ShiftDown(i)' <=> ShiftDown(i)
      BY <2>6 DEF ShiftDown
    <3>5. events'[i].key = k /\ events'[i].shift = (~Released(k) /\ ShiftKeys \cap key_state' # {})
      BY <3>1 DEF EventOf
    <3>6. QED
      BY <1>1, <3>1, <3>3, <3>4, <3>5 DEF Event
  <2>11. \A i \in 1..Len(events') : Event(i)'
    BY <2>5, <2>9, <2>10
  <2>12. QED
    BY <2>2, <2>3, <2>8, <2>11 DEF Following
<1>4. QED
  BY <1>2, <1>3 DEF Faithful

\* Each return of read_from_buffer with a code, after the tests that led there.
LEMMA GotsFaithful ==
  ASSUME IInv, NEW off, Stream(off), Sound => Following(off), Sound' => Sound,
         \/ pc = "poll" /\ At(0) = "E1" /\ Got(<<"PAUSE", "00">>, 8)
         \/ pc = "poll" /\ At(0) \notin {"E0", "F0", "E1"} /\ Got(<<"plain", At(0)>>, 1)
         \/ pc = "F0" /\ Got(<<"F0", At(1)>>, 2)
         \/ pc = "E0_12" /\ "12" \in AtUnwrapped /\ Got(<<"PRINTSCREEN_PRESS", "00">>, 4)
         \/ pc = "E0x" /\ Got(<<"E0", At(1)>>, 2)
         \/ pc = "E0F0" /\ At(2) = "7C" /\ Got(<<"PRINTSCREEN_RELEASE", "00">>, 6)
         \/ pc = "E0F0x" /\ Got(<<"E0F0", At(2)>>, 3)
  PROVE  Faithful'
<1> DEFINE c == typed[Len(events) + 1]
<1>1. Noted /\ pc # "sleep"
  BY DEF Got
<1>2. ASSUME Sound'
      PROVE  /\ CodeAhead(c, off) /\ At(0) = c[1]
             /\ Len(c) >= 2 => At(1) = c[2]
             /\ Len(c) >= 3 => At(2) = c[3]
             /\ Len(c) = Size(c)
             /\ pc # "poll" => c[1] = IF pc = "F0" THEN "F0" ELSE "E0"
             /\ pc \in {"E0F0", "E0F0x"} => c[2] = "F0"
             /\ pc = "E0F0x" => c[3] # "7C"
             /\ pc \in {"E0_12", "E0x"} => c[2] # "F0"
             /\ pc = "E0x" => c[2] # "12"
             /\ pc = "E0_12" => ~Misled
  <2>1. (pc = "poll" => ~Early) /\ ~Misled
    BY <1>1, <1>2, NotedSound
  <2>2. Following(off)
    BY <1>2
  <2>3. CodeAhead(c, off)
    BY <1>1, <2>1, <2>2, Ahead
  <2>4. Len(c) \in 1..8 /\ Len(c) = Size(c) /\ \A i \in 0..Len(c)-1 : At(i) = c[i + 1]
    BY <2>3 DEF CodeAhead
  <2>5. \A l \in 1..8 : 0 \in 0..l-1 /\ (l >= 2 => 1 \in 0..l-1) /\ (l >= 3 => 2 \in 0..l-1)
    OBVIOUS
  <2>6. 0 \in 0..Len(c)-1 /\ (Len(c) >= 2 => 1 \in 0..Len(c)-1) /\ (Len(c) >= 3 => 2 \in 0..Len(c)-1)
    BY <2>4, <2>5
  <2> HIDE DEF c
  <2>7. At(0) = c[0 + 1] /\ (Len(c) >= 2 => At(1) = c[1 + 1]) /\ (Len(c) >= 3 => At(2) = c[2 + 1])
    BY <2>4, <2>6
  <2>8. pc # "poll" => /\ c[1] = IF pc = "F0" THEN "F0" ELSE "E0"
                       /\ pc \in {"E0F0", "E0F0x"} => c[2] = "F0"
                       /\ pc = "E0F0x" => c[3] # "7C"
                       /\ pc \in {"E0_12", "E0x"} => c[2] # "F0"
                       /\ pc = "E0x" => c[2] # "12"
    BY <1>1, <2>2 DEF Following, Decoding, c
  <2>9. QED
    BY <2>1, <2>3, <2>4, <2>7, <2>8
<1>3. ASSUME Sound', NEW k, NEW n, k = Meaning(c), n = Len(c) PROVE Decoded(k, n, off)
  BY <1>2, <1>3 DEF Decoded
<1> HIDE DEF c
<1>4. c[1] = "E0" => Size(c) >= 2 /\ (c[2] = "F0" => Size(c) >= 3)
  BY SizeOf, ExtendedSizeOf
<1>5. CASE pc = "poll" /\ At(0) = "E1" /\ Got(<<"PAUSE", "00">>, 8)
  <2>1. Sound' => Decoded(<<"PAUSE", "00">>, 8, off)
    BY <1>2, <1>3, <1>5, SizeOf
  <2>2. QED
    BY <1>5, <2>1, GotFaithful
<1>6. CASE pc = "poll" /\ At(0) \notin {"E0", "F0", "E1"} /\ Got(<<"plain", At(0)>>, 1)
  <2>1. Sound' => Decoded(<<"plain", At(0)>>, 1, off)
    BY <1>2, <1>3, <1>6, SizeOf
  <2>2. QED
    BY <1>6, <2>1, GotFaithful
<1>7. CASE pc = "F0" /\ Got(<<"F0", At(1)>>, 2)
  <2>1. Sound' => c[1] = "F0" /\ Len(c) = 2 /\ At(1) = c[2]
    BY <1>2, <1>7, SizeOf
  <2>2. Sound' => Decoded(<<"F0", At(1)>>, 2, off)
    BY <1>3, <2>1, SizeOf
  <2>3. QED
    BY <1>7, <2>2, GotFaithful
<1>8. CASE pc = "E0_12" /\ "12" \in AtUnwrapped /\ Got(<<"PRINTSCREEN_PRESS", "00">>, 4)
  <2>1. Sound' => c[1] = "E0" /\ At(1) = c[2] /\ At(1) = "12" /\ Len(c) = Size(c)
    BY <1>2, <1>4, <1>8, UnwrappedTells
  <2>2. Sound' => Decoded(<<"PRINTSCREEN_PRESS", "00">>, 4, off)
    BY <1>3, <2>1, ExtendedSizeOf
  <2>3. QED
    BY <1>8, <2>2, GotFaithful
<1>9. CASE pc = "E0x" /\ Got(<<"E0", At(1)>>, 2)
  <2>1. Sound' => c[1] = "E0" /\ At(1) = c[2] /\ c[2] \notin {"F0", "12"} /\ Len(c) = Size(c)
    BY <1>2, <1>4, <1>9
  <2>2. Sound' => Decoded(<<"E0", At(1)>>, 2, off)
    BY <1>3, <2>1, ExtendedSizeOf
  <2>3. QED
    BY <1>9, <2>2, GotFaithful
<1>10. CASE pc = "E0F0" /\ At(2) = "7C" /\ Got(<<"PRINTSCREEN_RELEASE", "00">>, 6)
  <2>1. Sound' => c[1] = "E0" /\ c[2] = "F0" /\ c[3] = "7C" /\ Len(c) = Size(c)
    BY <1>2, <1>4, <1>10
  <2>2. Sound' => Decoded(<<"PRINTSCREEN_RELEASE", "00">>, 6, off)
    BY <1>3, <2>1, ExtendedSizeOf
  <2>3. QED
    BY <1>10, <2>2, GotFaithful
<1>11. CASE pc = "E0F0x" /\ Got(<<"E0F0", At(2)>>, 3)
  <2>1. Sound' => c[1] = "E0" /\ c[2] = "F0" /\ c[3] # "7C" /\ At(2) = c[3] /\ Len(c) = Size(c)
    BY <1>2, <1>4, <1>11
  <2>2. Sound' => Decoded(<<"E0F0", At(2)>>, 3, off)
    BY <1>3, <2>1, ExtendedSizeOf
  <2>3. QED
    BY <1>11, <2>2, GotFaithful
<1>12. QED
  BY <1>5, <1>6, <1>7, <1>8, <1>9, <1>10, <1>11

LEMMA InitFaithful == Init => Faithful
<1> SUFFICES ASSUME Init PROVE Faithful
  OBVIOUS
<1>1. PICK off : off = [n \in 0..0 |-> 0]
  OBVIOUS
<1>2. typed = <<>> /\ Len(typed) = 0 /\ events = <<>> /\ Len(events) = 0 /\ Len(wire) = 0
  BY DEF Init
<1>3. obf = NoByte /\ sent = 0 /\ taken = 0 /\ head = 0 /\ tail = 0 /\ key_state = {} /\ pc = "poll"
  BY DEF Init
<1>4. InPort = 0
  BY <1>3 DEF InPort
<1>5. keyboard.most \in Nat
  BY KeyboardAssumption DEF Init
<1>6. Stream(off)
  <2>1. typed \in Seq(keyboard.codes)
    BY <1>2
  <2>2. off \in [0..Len(typed) -> Nat] /\ off[0] = 0 /\ Len(typed) <= keyboard.most
    BY <1>1, <1>2, <1>5
  <2>3. off[Len(typed)] = sent + InPort + Len(wire)
    BY <1>2, <1>3, <1>4, <2>2
  <2>4. \A n \in 1..Len(typed) : FALSE
    BY <1>2
  <2>5. QED
    BY <2>1, <2>2, <2>3, <2>4 DEF Stream
<1>7. Ring(off)
  <2>1. Wrap(0) = 0
    BY Sizes, WrapOf
  <2>2. \A n \in 1..Len(typed) : FALSE
    BY <1>2
  <2>3. head = Wrap(tail + (sent - taken))
    BY <1>3, <2>1
  <2>4. QED
    BY <1>1, <1>2, <1>3, <2>2, <2>3, Sizes DEF Ring
<1>8. Decoding
  BY <1>3 DEF Decoding
<1>9. KeysDown
  <2>1. \A k : ~DownAfter(k, 0)
    BY DEF DownAfter
  <2>2. QED
    BY <1>2, <1>3, <2>1 DEF KeysDown
<1>10. \A n \in 1..Len(events) : Event(n)
  BY <1>2
<1>11. QED
  BY <1>6, <1>7, <1>8, <1>9, <1>10 DEF Faithful, Following

LEMMA NextFaithful == IInv /\ Faithful /\ [Next]_vars => Faithful'
<1> SUFFICES ASSUME IInv, Faithful, [Next]_vars PROVE Faithful'
  OBVIOUS
<1>1. PICK off : Stream(off) /\ (Sound => Following(off))
  BY DEF Faithful
<1>2. Sound' => Sound
  BY StaysSound
<1>3. CASE UNCHANGED vars
  BY <1>1, <1>2, <1>3, QuietKeeps DEF vars, ring, keys
<1>4. CASE \E c \in keyboard.codes : Type(c)
  BY <1>1, <1>2, <1>4, TypeFaithful
<1>5. CASE SendByte
  BY <1>1, <1>2, <1>5, SendByteFaithful
<1>6. CASE write_to_buffer
  BY <1>1, <1>2, <1>6, WriteFaithful
<1>7. CASE (\E l \in {Timer, Clock} : Tick(l)) \/ pit_timer \/ update_time \/ PollEmpty \/ Wake
  <2>1. /\ UNCHANGED <<wire, obf, keyboard_buffer, head, tail, key_state, keyboard, typed, events, sent, taken>>
        /\ pc' = pc \/ pc' \in {"poll", "sleep"}
    BY <1>7 DEF Tick, pit_timer, update_time, PollEmpty, Wake, ring, keys
  <2>2. QED
    BY <1>1, <1>2, <2>1, QuietKeeps
<1>8. CASE \/ head # tail /\ At(0) = "E0" /\ Read("poll", "E0")
           \/ head # tail /\ At(0) = "F0" /\ Read("poll", "F0")
           \/ ReadPrefixF0
           \/ AtUnwrapped # {"12"} /\ Read("E0_12", "E0x")
           \/ At(2) # "7C" /\ Read("E0F0", "E0F0x")
  BY <1>1, <1>2, <1>8, ReadsFaithful
<1>9. CASE \/ pc = "poll" /\ At(0) = "E1" /\ Got(<<"PAUSE", "00">>, 8)
           \/ pc = "poll" /\ At(0) \notin {"E0", "F0", "E1"} /\ Got(<<"plain", At(0)>>, 1)
           \/ ReadReleased
           \/ pc = "E0_12" /\ "12" \in AtUnwrapped /\ Got(<<"PRINTSCREEN_PRESS", "00">>, 4)
           \/ ReadExtended
           \/ pc = "E0F0" /\ At(2) = "7C" /\ Got(<<"PRINTSCREEN_RELEASE", "00">>, 6)
           \/ ReadExtendedReleased
  BY <1>1, <1>2, <1>9, GotsFaithful DEF ReadReleased, ReadExtended, ReadExtendedReleased
<1>10. QED
  BY <1>3, <1>4, <1>5, <1>6, <1>7, <1>8, <1>9
     DEF Next, Main, PollFirst, ReadPrefix12, ReadPrefix7C

-----------------------------------------------------------------------------
\* A byte waits in the controller while its interrupt is requested or in service.
THEOREM Invariance == Spec => []IInv
  BY InitIInv, NextKeeps, PTL DEF Spec

\* The ring's indices stay in it, and what is taken from it is one of its bytes.
THEOREM TypeCorrect == Spec => []TypeOK
<1>1. IInv => TypeOK
  BY DEF IInv
<1> QED BY Invariance, <1>1, PTL

\* In whatever order the three lines ask, each EOI ends the line it is meant for;
\* only the keyboard's may be left out, over a full ring (pic.c:13-19,
\* keyboardhandler.c:34-36).
THEOREM OnlyTheKeyboardHangs == Spec => []OnlyKeyboardHangs
<1>1. IInv => OnlyKeyboardHangs
  BY DEF IInv, Held, OnlyKeyboardHangs
<1> QED BY Invariance, <1>1, PTL

\* What was typed is in the stream, in order, the ring holds its part of it, and
\* what was taken are the events and the keys held, whatever the keyboard sends.
THEOREM StreamInvariance == Spec => [](IInv /\ Faithful)
<1>1. Init => IInv /\ Faithful
  BY InitIInv, InitFaithful
<1>2. IInv /\ Faithful /\ [Next]_vars => (IInv /\ Faithful)'
  BY NextKeeps, NextFaithful
<1> QED BY <1>1, <1>2, PTL DEF Spec

\* The codes come out of the ring as they were typed, with the shift keys down at
\* that time, for every ring, set of codes and interleaving, as long as the ring
\* has not overflowed, no poll split a code and none misread the byte behind the
\* array (keyboardhandler.c:32-40, 140-232).
THEOREM KeysAsTyped == Spec => []EventsAsTyped
<1>1. IInv /\ Faithful => EventsAsTyped
  <2> SUFFICES ASSUME Faithful, Sound PROVE /\ Len(events) <= Len(typed)
                                            /\ \A n \in 1..Len(events) : Event(n)
    BY DEF EventsAsTyped, Sound, Event, ShiftDown
  <2> QED BY DEF Faithful, Following, Ring
<1> QED BY StreamInvariance, <1>1, PTL

\* Every key that was released is up when all that was typed has been taken
\* (update_key_state, keyboardhandler.c:186-198).
THEOREM KeysComeUp == Spec => []NoStuckKey
<1>1. IInv /\ Faithful => NoStuckKey
  BY DEF Faithful, Following, KeysDown, NoStuckKey, Sound
<1> QED BY StreamInvariance, <1>1, PTL
=============================================================================
