------------------------------ MODULE EditText ------------------------------
(***************************************************************************)
(* What a text editor promises: a text with a cursor in it, opened from a  *)
(* file, changed at the cursor only, and saved as it is.                   *)
(***************************************************************************)
EXTENDS Naturals, Sequences, SequencesExt

CONSTANT Chars

VARIABLES open,
          text, cursor,   \* the cursor is behind the first cursor characters
          file            \* what the file holds

Init == open = FALSE /\ text = <<>> /\ cursor = 0 /\ file \in Seq(Chars)

Open == /\ ~open /\ open' = TRUE
        /\ text' = file /\ cursor' = 0
        /\ UNCHANGED file

Type(c) == /\ open
           /\ text' = InsertAt(text, cursor + 1, c) /\ cursor' = cursor + 1
           /\ UNCHANGED <<open, file>>

Rub == /\ open /\ cursor > 0
       /\ text' = RemoveAt(text, cursor) /\ cursor' = cursor - 1
       /\ UNCHANGED <<open, file>>

Move == /\ open
        /\ cursor' \in 0..Len(text)
        /\ UNCHANGED <<open, text, file>>

Save == open /\ file' = text

Write == Save /\ UNCHANGED <<open, text, cursor>>

Quit == /\ open' = FALSE /\ text' = <<>> /\ cursor' = 0
        /\ open /\ (Save \/ UNCHANGED file)

Next == Open \/ (\E c \in Chars : Type(c)) \/ Rub \/ Move \/ Write \/ Quit

Spec == Init /\ [][Next]_<<open, text, cursor, file>>
=============================================================================
