------------------------------- MODULE Player -------------------------------
(***************************************************************************)
(* orpheus and play: songs of src/orpheus.c, and the notes of src/pit.c    *)
(* that the speaker makes of them.  A song is the sequence of its words.   *)
(* A note is heard when the sleep behind it is over; the timer's divisor,  *)
(* too, has lost bits of its low byte, so that a millisecond is not quite  *)
(* one.  Integers of the kernel have 32 bits.                              *)
(***************************************************************************)
EXTENDS Integers, Sequences, FiniteSets, FiniteSetsExt

CONSTANT str_to_int   \* its value for each word that may be given

VARIABLES tokens,   \* the song being played, or <<>>
          next,     \* its next note
          heard,    \* history: what the speaker gave, [divisor, ms] each
          song,     \* history: the song played last
          divided   \* the kernel divided by zero and has stopped

player == <<tokens, next, heard, song, divided>>

-----------------------------------------------------------------------------
(* src/pit.c *)

PIT_FREQUENCY == 1193182

note_table == [
  C1 |-> 33, CSHARP1 |-> 35, D1 |-> 37, DSHARP1 |-> 39, E1 |-> 41, F1 |-> 44, FSHARP1 |-> 46,
  G1 |-> 49, GSHARP1 |-> 52, A1 |-> 55, ASHARP1 |-> 58, B1 |-> 62, C2 |-> 65, CSHARP2 |-> 69,
  D2 |-> 73, DSHARP2 |-> 78, E2 |-> 82, F2 |-> 87, FSHARP2 |-> 93, G2 |-> 98, GSHARP2 |-> 104,
  A2 |-> 110, ASHARP2 |-> 117, B2 |-> 123, C3 |-> 131, CSHARP3 |-> 139, D3 |-> 147,
  DSHARP3 |-> 156, E3 |-> 165, F3 |-> 175, FSHARP3 |-> 185, G3 |-> 196, GSHARP3 |-> 208,
  A3 |-> 220, ASHARP3 |-> 233, B3 |-> 247, C4 |-> 262, CSHARP4 |-> 277, D4 |-> 294,
  DSHARP4 |-> 311, E4 |-> 330, F4 |-> 349, FSHARP4 |-> 370, G4 |-> 392, GSHARP4 |-> 415,
  A4 |-> 440, ASHARP4 |-> 466, B4 |-> 494, C5 |-> 523, CSHARP5 |-> 554, D5 |-> 587,
  DSHARP5 |-> 622, E5 |-> 659, F5 |-> 698, FSHARP5 |-> 740, G5 |-> 784, GSHARP5 |-> 831,
  A5 |-> 880, ASHARP5 |-> 932, B5 |-> 988, C6 |-> 1047, CSHARP6 |-> 1109, D6 |-> 1175,
  DSHARP6 |-> 1245, E6 |-> 1319, F6 |-> 1397, FSHARP6 |-> 1480, G6 |-> 1568, GSHARP6 |-> 1661,
  A6 |-> 1760, ASHARP6 |-> 1865, B6 |-> 1976]

\* Mutant: the mask drops bits 1 to 6.
MutLatch(divisor) == divisor - 2 * ((divisor % 128) \div 2)

\* The mask 0xFF1 drops bits 1 to 3.
Latch(divisor) == divisor - 2 * ((divisor % 16) \div 2)

\* set_hertz(1000)
Tick == Latch(PIT_FREQUENCY \div 1000)

Silence == 0
Sound(divisor, ms) == [divisor |-> divisor, ms |-> ms]
play_sound(hertz, ms) == Sound(Latch(PIT_FREQUENCY \div hertz), ms)

\* A negative number of milliseconds is more than 24 days in 32 bits: it is
\* taken never to end.
Hears(sound) == sound.ms >= 0 /\ heard' = Append(heard, sound)

\* cmd_play_note, src/commands.c, with a number that is not negative.
cmd_play_note(note, word) ==
  /\ str_to_int[word] >= 0
  /\ song' = <<"play", note, word>>
  /\ heard' = IF note \in DOMAIN note_table /\ str_to_int[word] <= 10000
              THEN <<play_sound(note_table[note], str_to_int[word])>> ELSE <<>>
  /\ UNCHANGED <<tokens, next, divided>>

-----------------------------------------------------------------------------
(* src/orpheus.c *)

Abs(n) == IF n < 0 THEN -n ELSE n

\* Division in C is towards zero.
Div(a, b) == IF (a < 0) = (b < 0) THEN Abs(a) \div Abs(b) ELSE -(Abs(a) \div Abs(b))

\* bpm, the length of a quarter: the number itself is not checked.
Beat(words) == Div(60000, str_to_int[words[2]])

note_dur(beat, word) == CASE word = "W" -> beat * 4
                          [] word = "H" -> beat * 2
                          [] word = "Q" -> beat
                          [] word = "E" -> Div(beat, 2)
                          [] word = "S" -> Div(beat, 4)
                          [] OTHER -> -1

\* play_song up to its loop.
play_song(words) ==
  /\ song' = words /\ heard' = <<>> /\ next' = 1
  /\ LET begins == words # <<>> /\ Len(words) % 2 = 0 /\ words[1] = "BPM"
     IN  /\ tokens' = IF begins THEN words ELSE <<>>
         /\ divided' = (begins /\ str_to_int[words[2]] = 0)

Playing == tokens # <<>> /\ ~divided
Note == tokens[2 * next + 1]
Duration == note_dur(Beat(tokens), tokens[2 * next + 2])
More == next <= (Len(tokens) - 1) \div 2

SongFails ==
  /\ Playing /\ More
  /\ Duration = -1 \/ Note \notin DOMAIN note_table \cup {"REST"}
  /\ tokens' = <<>> /\ UNCHANGED <<next, heard, song, divided>>

PlayNote ==
  /\ Playing /\ More /\ Duration # -1
  /\ \/ Note \in DOMAIN note_table /\ Hears(play_sound(note_table[Note], Duration))
     \/ Note = "REST" /\ Hears(Sound(Silence, Duration))
  /\ next' = next + 1 /\ UNCHANGED <<tokens, song, divided>>

SongEnds == /\ Playing /\ ~More
            /\ tokens' = <<>> /\ UNCHANGED <<next, heard, song, divided>>

PlayerInit == tokens = <<>> /\ next = 1 /\ heard = <<>> /\ song = <<>> /\ divided = FALSE

\* The command after it forgets what was heard.
Quiet == tokens' = <<>> /\ next' = 1 /\ heard' = <<>> /\ song' = <<>> /\ divided' = FALSE

PlayerStep == SongFails \/ PlayNote \/ SongEnds

-----------------------------------------------------------------------------
(* Properties *)

\* The note of the table that the sound is nearest to is the one asked for.
InTune(sound, note) ==
  LET hertz == PIT_FREQUENCY \div sound.divisor
      off(h) == Abs(hertz - h)
  IN  \A other \in DOMAIN note_table : off(note_table[note]) <= off(note_table[other])

\* What is written, in sixteenths, against the ticks that are slept: at most
\* four milliseconds and one part in a hundred off.
Sixteenths == [W |-> 16, H |-> 8, Q |-> 4, E |-> 2, S |-> 1]
InTime(sound, bpm, word) ==
  LET written == 15000 * Sixteenths[word] * 1193
  IN  Abs(sound.ms * Tick * bpm - written) <= 4 * 1193 * bpm + written \div 100

Proper(words, k) == /\ words[2 * k + 1] \in DOMAIN note_table \cup {"REST"}
                    /\ words[2 * k + 2] \in DOMAIN Sixteenths
Notes(words) == IF words = <<>> \/ Len(words) % 2 = 1 \/ words[1] # "BPM" THEN 0
                ELSE Max({n \in 0..Len(words) \div 2 - 1 : \A k \in 1..n : Proper(words, k)})

\* A song is heard as it is written, in tune and in time, up to the first note
\* that is none, although the divisors have lost bits and every division drops
\* its remainder; unless it gives no tempo or a negative one, and dividing by
\* zero is the only way to stop the kernel (play_song, orpheus.c:5-47;
\* play_sound, pit.c:85-98).
PlaysAsWritten ==
  /\ divided => str_to_int[song[2]] = 0
  /\ tokens = <<>> /\ Notes(song) > 0 /\ str_to_int[song[2]] > 0 =>
       /\ Len(heard) = Notes(song)
       /\ \A k \in DOMAIN heard :
            /\ InTime(heard[k], str_to_int[song[2]], song[2 * k + 2])
            /\ song[2 * k + 1] = "REST" <=> heard[k].divisor = Silence
            /\ song[2 * k + 1] # "REST" => InTune(heard[k], song[2 * k + 1])
  /\ song # <<>> /\ song[1] = "play" /\ heard # <<>> => InTune(heard[1], song[2])
=============================================================================
