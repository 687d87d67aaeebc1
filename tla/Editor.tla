------------------------------- MODULE Editor -------------------------------
(***************************************************************************)
(* The editor galatea, src/galatea.c: a text in one heap block that grows  *)
(* by whole clusters, a cursor, and a screen that shows a part of it.      *)
(* Keys arrive through keyparse (src/writingmode.c), which in the shell's  *)
(* mode runs the command that opens the editor, and then, for the same     *)
(* key, looks at the mode again.                                           *)
(*                                                                         *)
(* A handler runs to its end before the next key.  The screen is modelled  *)
(* as far as it decides anything: which line is its first, at which cell a *)
(* character is drawn, and where the drawing leaves its buffer.  Memory is *)
(* assumed to suffice, and the file is read and written without error.     *)
(***************************************************************************)
EXTENDS Integers, Sequences, FiniteSets, FiniteSetsExt

CONSTANTS Width, Height,  \* textbuffer_width, textbuffer_height
          Cluster,        \* 512*sectors_per_cluster
          Letters,        \* the characters typed, beside the next two
          NL, TAB,        \* '\n' and '\t'
          NUL,            \* '\0'
          NoFile,         \* there is no file
          Files,          \* what the file may hold at first
          MaxLen,         \* bound on the length of the text typed
          MaxSaved,       \* bound on the length of the text saved
          MaxOpens        \* bound on the times the editor is opened

Chars == Letters \cup {NL, TAB}

ASSUME EditorAssumption ==
  /\ Width \in Nat /\ Width > 1 /\ Height \in Nat /\ Height > 2
  /\ Cluster \in Nat /\ Cluster > 1
  /\ NUL \notin Chars /\ NL # TAB /\ {NL, TAB} \cap Letters = {}
  /\ Files \subseteq Seq(Chars) /\ NoFile \notin Seq(Chars)
  /\ MaxLen \in Nat /\ MaxSaved \in Nat /\ MaxOpens \in Nat

VARIABLES mode,              \* 1: shell, 2: editor
          entered,           \* the Enter that ran the command is still to be parsed
          text_buffer,       \* the block: offset -> character
          text_buffer_size, char_len, text_buffer_pos,
          startline,         \* the first line on the screen
          pointer,           \* text_buffer is "NULL", "held" or "freed"
          broken,            \* memory that is not the editor's has been written
          file,              \* the file's text, or NoFile
          opens

text == <<text_buffer, text_buffer_size, char_len, text_buffer_pos>>
vars == <<mode, entered, text_buffer, text_buffer_size, char_len, text_buffer_pos, startline,
          pointer, broken, file, opens>>

Init ==
  /\ mode = 1 /\ entered = FALSE
  /\ text_buffer = [i \in {} |-> NUL] /\ text_buffer_size = 0
  /\ char_len = 0 /\ text_buffer_pos = 0 /\ startline = 0
  /\ pointer = "NULL" /\ broken = FALSE
  /\ file \in Files \cup {NoFile} /\ opens = 0

-----------------------------------------------------------------------------
(* Lines *)

\* line_len of assign_line_starts when it comes to character i, and what it
\* is when a tab at i has been added.
Widened(buf, i, len) == IF buf[i] = TAB THEN len + 4 - (len % 4) ELSE len

Breaks(buf, i, len) == buf[i] = NL \/ Widened(buf, i, len) >= Width - 1

line_len(buf) ==
  LET len[i \in Nat] == IF i = 0 THEN 0
                        ELSE IF Breaks(buf, i-1, len[i-1]) THEN 0
                        ELSE Widened(buf, i-1, len[i-1]) + 1
  IN  len

\* assign_line_starts
line_starts(buf, n) == {0} \cup {i \in 1..n : Breaks(buf, i-1, line_len(buf)[i-1])}

\* get_cursor_line, and the start of a line given by its number.
LineOf(starts, pos) == Cardinality({s \in starts : s <= pos}) - 1
StartOf(starts, line) == CHOOSE s \in starts : LineOf(starts, s) = line

-----------------------------------------------------------------------------
(* The screen *)

Rows == Height - 2      \* two rows are for the instructions

\* Mutant: screenbuffer is a row too small.
MutScreen == Width * (Rows - 1)

Screen == Width * Rows  \* screensize

\* Cells that a newline and a tab at cell t are filled up with.
Pad(t, c) == IF c = NL THEN Width - (t % Width) ELSE 4 - ((t % Width) % 4)

\* One pass of the loop over the text, from cell s.t and character s.p: a
\* newline, a tab behind it and a character behind that are all drawn in it,
\* and only the blanks look for the end of screenbuffer.
Blanks(buf, c, s) == IF buf[s.p] = c THEN [t |-> Min({s.t + Pad(s.t, c), Screen}), p |-> s.p + 1]
                     ELSE s
AfterBlanks(buf, s) == Blanks(buf, TAB, Blanks(buf, NL, s))
Plain(buf, s) == buf[s.p] \notin {NL, TAB}
Pass(buf, s) == LET r == AfterBlanks(buf, s)
                IN  IF Plain(buf, r) THEN [t |-> r.t + 1, p |-> r.p + 1] ELSE r

\* A character is written behind the end of screenbuffer.
Overruns(buf, n, start) ==
  LET from[s \in [t : Nat, p : Nat]] ==
        LET r == AfterBlanks(buf, s)
        IN  /\ s.t < Screen /\ s.p < n
            /\ \/ r.t = Screen /\ Plain(buf, r)
               \/ from[Pass(buf, s)]
  IN  from[[t |-> 0, p |-> start]]

\* Mutant: the first line is not moved down for a cursor below the screen.
MutFirstLine(line) == IF line < startline THEN line ELSE startline

\* The first line moves so that the cursor's line is on the screen.
FirstLine(line) == IF line < startline THEN line
                   ELSE IF line >= startline + Rows THEN line - (Rows - 1)
                   ELSE startline

\* update_to_screen, for a text of n characters with the cursor at pos.  What
\* lies behind screenbuffer may be the header of a block or unused memory.
update_to_screen(buf, n, pos) ==
  LET starts == line_starts(buf, n)
      first == FirstLine(LineOf(starts, pos))
  IN  /\ startline' = first
      /\ broken' \in IF first < Cardinality(starts) /\ Overruns(buf, n, StartOf(starts, first))
                     THEN BOOLEAN ELSE {broken}

-----------------------------------------------------------------------------
(* Opening and leaving *)

\* file_contents, copied with its terminating zero into a block of that size,
\* or an empty text in a block of a cluster.
Loaded == IF file = NoFile THEN [i \in 0..Cluster-1 |-> NUL]
          ELSE [i \in 0..Len(file) |-> IF i = Len(file) THEN NUL ELSE file[i+1]]

\* init_editor.  Only the first time is the pointer it passes to krealloc
\* NULL; later it is one that was freed, and the block krealloc finds there
\* may be in use by another.
init_editor ==
  /\ mode = 1 /\ ~broken /\ opens < MaxOpens
  /\ mode' = 2 /\ entered' = TRUE /\ opens' = opens + 1
  /\ text_buffer' = Loaded /\ text_buffer_size' = Cardinality(DOMAIN Loaded)
  /\ char_len' = IF file = NoFile THEN 0 ELSE Len(file)
  /\ text_buffer_pos' = 0 /\ startline' = 0
  /\ pointer' = "held"
  /\ broken' \in IF pointer = "freed" THEN BOOLEAN ELSE {FALSE}
  /\ UNCHANGED file

\* The editor gets a key.
Key == mode = 2 /\ ~broken
UserKey == Key /\ ~entered

Text == [i \in 1..char_len |-> text_buffer[i-1]]
Saved == char_len <= MaxSaved /\ file' = Text

\* exit_editor; the variables keep their values until the next opening.
Left == /\ mode' = 1 /\ pointer' = "freed"
        /\ UNCHANGED <<entered, text, startline, opens>>

QuitKey == UserKey /\ Left /\ UNCHANGED <<broken, file>>

\* write_editor_buffer
WriteKey == /\ UserKey /\ Saved
            /\ update_to_screen(text_buffer, char_len, text_buffer_pos)
            /\ UNCHANGED <<mode, entered, text, pointer, opens>>

SaveAndQuitKey ==
  /\ UserKey /\ Saved
  /\ mode' = 1 /\ pointer' = "freed"
  /\ update_to_screen(text_buffer, char_len, text_buffer_pos)
  /\ UNCHANGED <<entered, text, opens>>

-----------------------------------------------------------------------------
(* Editing *)

\* memmove within the block.
Moved(buf, to, from, n) ==
  [i \in DOMAIN buf |-> IF to <= i /\ i < to + n THEN buf[i - to + from] ELSE buf[i]]

\* The text is now buf, n characters long, the cursor is at pos, all is drawn.
Becomes(buf, n, pos) ==
  /\ text_buffer' = buf /\ char_len' = n /\ text_buffer_pos' = pos
  /\ update_to_screen(buf, n, pos)
  /\ UNCHANGED <<mode, pointer, file, opens>>

Full == char_len + 1 >= text_buffer_size
Size == IF Full THEN text_buffer_size + Cluster ELSE text_buffer_size
Block == [i \in 0..Size-1 |-> IF i < text_buffer_size THEN text_buffer[i] ELSE NUL]

\* The text with c inserted at the cursor.
Inserted(c) ==
  LET pos == text_buffer_pos
  IN  [Moved(Block, pos + 1, pos, char_len - pos + 1) EXCEPT ![pos] = c, ![char_len + 1] = NUL]

editor_write(c) ==
  /\ text_buffer_size' = Size
  /\ Becomes(Inserted(c), char_len + 1, text_buffer_pos + 1)

\* keyparse goes on with the Enter that ran the command: the mode is now 2.
EnterAgain == Key /\ entered /\ entered' = FALSE /\ editor_write(NL)

TypeKey(c) == UserKey /\ char_len < MaxLen /\ editor_write(c) /\ UNCHANGED entered

\* Mutant: the character under the cursor is erased.
MutErased == [Moved(text_buffer, text_buffer_pos, text_buffer_pos + 1, char_len - text_buffer_pos)
                EXCEPT ![char_len - 1] = NUL]

Erased == [Moved(text_buffer, text_buffer_pos - 1, text_buffer_pos, char_len - text_buffer_pos + 1)
             EXCEPT ![char_len - 1] = NUL]

editor_backspace ==
  /\ UserKey
  /\ IF char_len = 0 \/ text_buffer_pos = 0
       THEN Becomes(text_buffer, char_len, text_buffer_pos)
       ELSE Becomes(Erased, char_len - 1, text_buffer_pos - 1)
  /\ UNCHANGED <<entered, text_buffer_size>>

\* The cursor moves to one of the places given, if there is one.
MoveTo(pos) == Becomes(text_buffer, char_len, pos) /\ UNCHANGED <<entered, text_buffer_size>>

CursorUp == LET before == {s \in line_starts(text_buffer, char_len) : s < text_buffer_pos}
            IN  UserKey /\ before # {} /\ MoveTo(Max(before))

CursorDown == LET behind == {s \in line_starts(text_buffer, char_len) : s > text_buffer_pos}
              IN  UserKey /\ behind # {} /\ MoveTo(Min(behind))

CursorLeft == UserKey /\ MoveTo(IF text_buffer_pos > 0 THEN text_buffer_pos - 1 ELSE 0)

CursorRight == UserKey /\ MoveTo(IF text_buffer_pos < char_len THEN text_buffer_pos + 1
                                                                ELSE text_buffer_pos)

-----------------------------------------------------------------------------
\* editor_parse
Next == \/ init_editor \/ EnterAgain
        \/ QuitKey \/ WriteKey \/ SaveAndQuitKey
        \/ (\E c \in Chars : TypeKey(c)) \/ editor_backspace
        \/ CursorUp \/ CursorDown \/ CursorLeft \/ CursorRight

Spec == Init /\ [][Next]_vars

-----------------------------------------------------------------------------
(* Properties *)

\* The editor implements a text with a cursor: each key changes the text where
\* the cursor is and nowhere else, and what is saved is the text.
FileText == IF file = NoFile THEN <<>> ELSE file
Opened == mode = 2
AsText == INSTANCE EditText WITH
  open <- Opened,
  text <- IF Opened THEN Text ELSE <<>>,
  cursor <- IF Opened THEN text_buffer_pos ELSE 0,
  file <- FileText
ImplementsText == AsText!Spec

\* Where a character is drawn.
Cell(buf) == LET cell[p \in Nat] == IF p = 0 THEN 0
                                    ELSE cell[p-1] + (IF Plain(buf, [p |-> p-1]) THEN 1
                                                      ELSE Pad(cell[p-1], buf[p-1]))
             IN  cell

\* The cursor's line is one of those on the screen.
CursorLine == LineOf(line_starts(text_buffer, char_len), text_buffer_pos)
CursorInView == mode = 2 /\ ~entered => startline <= CursorLine /\ CursorLine < startline + Rows

\* After every key the cursor's line is on the screen, and the screen's first
\* line is a line of the text (update_to_screen's early return, galatea.c:203,
\* is never taken), although lines come and go above and below it; and the
\* lines that this counts, by which the cursor moves, begin where the loop that
\* draws begins a row - in a text without tabs, which the first count takes
\* twice (galatea.c:165-193, 217-255).
CursorVisible ==
  /\ CursorInView
  /\ (mode = 2 /\ ~entered /\ \A i \in 0..char_len-1 : text_buffer[i] # TAB) =>
       LET starts == line_starts(text_buffer, char_len)
       IN  \A s \in starts : Cell(text_buffer)[s] = LineOf(starts, s) * Width

\* A tab may be drawn over the end of a row, which the count of lines does not
\* know of.
TabsCross == Width % 4 # 0 /\ \E i \in 0..char_len-1 : text_buffer[i] = TAB

\* The editor writes where it should not only when it is opened a second time,
\* when the text has more lines than the screen, or with tabs on a screen whose
\* width is no multiple of four, as with two of the three fonts: otherwise no
\* text makes the loop that draws come to the end of screenbuffer before the
\* end of the text (galatea.c:209-255).
BrokenOnlyByLong ==
  [][(~broken /\ broken') => \/ pointer = "freed"
                             \/ Cardinality(line_starts(text_buffer', char_len')) > Rows
                             \/ TabsCross']_vars
=============================================================================
