-------------------------------- MODULE Shell --------------------------------
(***************************************************************************)
(* The shell's input line (src/writingmode.c) with its history and the     *)
(* splitting of a line into arguments (src/inputhandler.c).                *)
(*                                                                         *)
(* The line is kept twice: as cells of the terminal, with the cursor's row *)
(* and column, and as bytes of input_buffer, with input_len and input_pos. *)
(* A cell has four bytes, and some of the moves count bytes for cells: the *)
(* model moves as many cells as those bytes touch, since a cell's first    *)
(* byte is its character.  A write, or a read for more than a look, outside *)
(* a buffer sets broken and ends the model.  Commands run and print        *)
(* nothing here, memory suffices for the history, and bytes of a fresh     *)
(* heap block are Other.                                                   *)
(***************************************************************************)
EXTENDS Integers, Sequences, FiniteSets, SequencesExt

CONSTANTS Width, Height,      \* textbuffer_width, textbuffer_height
          Extra,              \* EXTRA_TEXT_BUFFER_SIZE
          Letters, SP, NUL, Other,  \* ' ', '\\0', and any other character
          INPUT_BUFFER_SIZE, PREV_INPUTS_BUFFER,
          HistoryBytes,       \* historybuffersize at first
          ArgcValues,         \* 256: argc is a uint8_t
          MaxHistory,         \* bound on the bytes of all lines, entered and typed
          MaxLeft,            \* bound on the columns left of the screen
          MaxAstray           \* bound on the keys from the first that the buffer did not
                              \* follow until Enter or a recall

Chars == Letters \cup {SP}

ASSUME ShellAssumption ==
  /\ Width \in Nat /\ Width > 2 /\ Height \in Nat /\ Height > 1
  /\ Extra \in Nat /\ Extra >= Width
  /\ {NUL, Other} \cap Chars = {} /\ NUL # Other
  /\ INPUT_BUFFER_SIZE \in Nat /\ INPUT_BUFFER_SIZE > 1
  /\ INPUT_BUFFER_SIZE + 1 < Width * Height   \* a line with its prompt fits on the screen
  /\ INPUT_BUFFER_SIZE <= PREV_INPUTS_BUFFER /\ PREV_INPUTS_BUFFER <= HistoryBytes
  /\ PREV_INPUTS_BUFFER \in Nat /\ HistoryBytes \in Nat
  /\ ArgcValues \in Nat \ {0} /\ MaxHistory \in Nat /\ MaxLeft \in Nat
  /\ MaxAstray \in Nat \ {0}

VARIABLES terminal,     \* [cells, above, row, column, start]: terminal_buffer, shell_buffer,
                        \* terminal_row, terminal_column, input_start_row
          input_buffer, input_len, input_pos,
          previous_inputs_buffer, historybuffersize, history_position, history_current_size,
          pc,           \* "key": waiting for a key, "parse", "fail" or "run"
          parsed,       \* arguments found
          argv, argc,
          blocks,       \* heap blocks held: the number of an argument, 0 for argv
          wrapped,      \* history: argc has wrapped around
          broken,
          line,         \* history: the line as the user made it
          entered,      \* history: the lines entered
          recalled,     \* history: line is one that was recalled, not typed
          astray        \* history: keys from the first on that the buffer did not follow

input == <<input_buffer, input_len, input_pos>>
history == <<previous_inputs_buffer, historybuffersize, history_position, history_current_size>>
args == <<pc, parsed, argv, argc, blocks, wrapped>>
ghost == <<line, entered, recalled, astray>>
vars == <<terminal, input_buffer, input_len, input_pos,
          previous_inputs_buffer, historybuffersize, history_position, history_current_size,
          pc, parsed, argv, argc, blocks, wrapped, broken, line, entered, recalled, astray>>

-----------------------------------------------------------------------------
(* The terminal *)

Size == Width * Height
At(t) == t.row * Width + t.column     \* the cursor's cell
input_start_column == 1
AtStart(t) == t.row = t.start /\ t.column = input_start_column + 1

\* memmove of that many bytes of cells.
Moved(cells, to, from, bytes) ==
  [i \in DOMAIN cells |-> IF to <= i /\ i < to + (bytes + 3) \div 4 THEN cells[i - to + from]
                          ELSE cells[i]]

\* Mutant: the start of the input is not scrolled along.
MutScroll(t) ==
  [t EXCEPT !.above = [i \in 0..Extra-1 |-> IF i < Width THEN t.cells[i] ELSE t.above[i - Width]],
            !.cells = [i \in 0..Size-1 |-> IF i + Width < Size THEN t.cells[i + Width] ELSE NUL],
            !.row = Height - 1]

\* shell_scroll: the input is never is_input_from_user.
shell_scroll(t) ==
  [t EXCEPT !.above = [i \in 0..Extra-1 |-> IF i < Width THEN t.cells[i] ELSE t.above[i - Width]],
            !.cells = [i \in 0..Size-1 |-> IF i + Width < Size THEN t.cells[i + Width] ELSE NUL],
            !.start = @ - 1, !.row = Height - 1]

\* Unsigned: a column left of the screen is not less than Width.
PastEnd(column) == column < 0 \/ column >= Width

terminal_putchar(t, c) ==
  LET put == [t EXCEPT !.cells[At(t)] = c, !.column = @ + 1]
      next == [put EXCEPT !.column = 0, !.row = @ + 1]
  IN  IF ~PastEnd(put.column) THEN put
      ELSE IF next.row >= Height THEN shell_scroll(next) ELSE next

terminal_shell_set(t) ==
  LET home == [t EXCEPT !.column = 0, !.row = Height - 1]
      prompt == terminal_putchar(terminal_putchar(home, Other), SP)
  IN  [prompt EXCEPT !.start = prompt.row]

\* The row that was scrolled away comes back when column 0 is left.
shell_backspace(t) ==
  LET down == [t EXCEPT !.cells = [i \in 0..Size-1 |-> IF i < Width THEN t.above[i]
                                                       ELSE t.cells[i - Width]],
                        !.above = [i \in 0..Extra-1 |-> IF i + Width < Extra THEN t.above[i + Width]
                                                        ELSE t.above[i]],
                        !.column = Width - 1, !.start = @ + 1]
      back == IF t.column = 0 /\ t.row = Height - 1 THEN down ELSE [t EXCEPT !.column = @ - 1]
  IN  IF AtStart(t) THEN t ELSE [back EXCEPT !.cells = [i \in DOMAIN @ |-> IF i = At(back) THEN NUL ELSE @[i]]]

shift_forward_shell_input(t) ==
  [t EXCEPT !.cells = Moved(@, At(t), At(t) - 1, Size - At(t) - 1)]
shift_backwards_shell_input(t) ==
  [t EXCEPT !.cells = Moved(@, At(t), At(t) + 1, Size - At(t) - 1)]

clear_beyond_input(t) ==
  LET from == t.start * Width + input_start_column
  IN  [t EXCEPT !.cells = [i \in 0..Size-1 |-> IF from <= i /\ i < from + (Size - from + 3) \div 4
                                               THEN NUL ELSE t.cells[i]],
                !.row = t.start, !.column = input_start_column + 1]

-----------------------------------------------------------------------------
(* The input buffer *)

Waiting == pc = "key" /\ ~broken
faithful == astray = 0
Full == input_len >= INPUT_BUFFER_SIZE - 1
Empty == [i \in 0..INPUT_BUFFER_SIZE-1 |-> NUL]

clear_input_buffer == input_buffer' = Empty /\ input_len' = 0 /\ input_pos' = 0

\* Typing into a recalled line may leave no terminating zero.
Terminated == \E i \in DOMAIN input_buffer : input_buffer[i] = NUL

\* The characters before the terminating zero.
Text == LET zero == Min({i \in 0..INPUT_BUFFER_SIZE-1 : input_buffer[i] = NUL})
        IN  [i \in 1..zero |-> input_buffer[i-1]]

\* Mutant: one character too few is moved.
MutInserted(c) == [i \in 0..INPUT_BUFFER_SIZE-1 |->
                     IF i = input_pos THEN c
                     ELSE IF input_pos < i /\ i < input_len THEN input_buffer[i-1]
                     ELSE input_buffer[i]]

Inserted(c) == [i \in 0..INPUT_BUFFER_SIZE-1 |->
                  IF i = input_pos THEN c
                  ELSE IF input_pos < i /\ i <= input_len + 1 THEN input_buffer[i-1]
                  ELSE input_buffer[i]]

\* memmove's length is unsigned: a cursor behind the text makes it huge.
InsertOutside == ~Full /\ (input_pos < 0 \/ input_pos > input_len + 1)

add_to_input_buffer(c) ==
  IF Full THEN UNCHANGED input
  ELSE /\ input_buffer' = Inserted(c)
       /\ input_len' = input_len + 1 /\ input_pos' = input_pos + 1

\* The text from the cursor on goes to where it is less one, from there to one
\* before: the position has been counted down already.
Removed == [i \in 0..INPUT_BUFFER_SIZE-1 |->
              IF i = input_len - 1 THEN NUL
              ELSE IF input_pos - 2 <= i /\ i < input_len - 2 THEN input_buffer[i+1]
              ELSE input_buffer[i]]
RemoveOutside == input_len > 0 /\ (input_pos > input_len \/ (input_pos < input_len /\ input_pos <= 1))

remove_from_input_buffer ==
  IF input_len = 0 THEN UNCHANGED input
  ELSE /\ input_buffer' = Removed
       /\ input_len' = input_len - 1 /\ input_pos' = input_pos - 1

-----------------------------------------------------------------------------
(* Editing keys of keyparse *)

\* A write behind or before a buffer.
Outside(ok) == /\ broken' = TRUE
               /\ astray' = IF faithful /\ ok THEN 0 ELSE astray + 1
               /\ UNCHANGED <<terminal, input, args, line, entered, recalled>>

\* The key has done what it does; ok: the buffer followed.
Edited(ok, newline) ==
  /\ astray < MaxAstray
  /\ astray' = IF faithful /\ ok THEN 0 ELSE astray + 1
  /\ line' = IF faithful /\ ok THEN newline ELSE line
  /\ UNCHANGED <<history, args, broken, entered, recalled>>

\* Bound: a line is not typed on when its first row leaves the screen.
StaysOnScreen == terminal.start > 0 \/ terminal.row < Height - 1 \/ ~PastEnd(terminal.column + 1)

Room == history_current_size + input_len + 1 < MaxHistory

\* terminal_putchar takes a column two or more left of the screen for one past
\* its end.
TypeKey(c) ==
  /\ Waiting /\ StaysOnScreen /\ Room
  /\ LET ok == ~recalled /\ ~Full /\ terminal.column >= -1
     IN  IF InsertOutside \/ At(terminal) \notin 1..Size-1
           THEN Outside(ok) /\ UNCHANGED history
           ELSE /\ terminal' = terminal_putchar(shift_forward_shell_input(terminal), c)
                /\ add_to_input_buffer(c)
                /\ Edited(ok, InsertAt(line, input_pos + 1, c))

\* The start of a line is not recognised from the row below.
BackspaceKey ==
  /\ Waiting
  /\ LET ok == ~recalled /\ input_pos = input_len /\ (input_len = 0 => AtStart(terminal))
         back == shell_backspace(terminal)
     IN  IF RemoveOutside \/ At(back) \notin 0..Size-1
           THEN Outside(ok) /\ UNCHANGED history
           ELSE /\ terminal' = shift_backwards_shell_input(back)
                /\ remove_from_input_buffer
                /\ Edited(ok, IF line = <<>> THEN line ELSE Front(line))

\* terminal_column is unsigned: it is never less than 0, and the row stays.
LeftKey ==
  /\ Waiting /\ ~AtStart(terminal)
  /\ terminal.column > -MaxLeft
  /\ terminal' = [terminal EXCEPT !.column = @ - 1]
  /\ input_pos' = input_pos - 1
  /\ UNCHANGED <<input_buffer, input_len>>
  /\ Edited(~recalled /\ input_pos > 0, line)

\* What terminal_getcharat finds behind the screen is open.
Shown(i) == IF i \in 0..Size-1 THEN {terminal.cells[i]} ELSE {NUL, Other}

RightKey ==
  /\ Waiting /\ terminal.row < Height
  /\ \E here \in Shown(At(terminal)), next \in Shown(At(terminal) + 1) : here # NUL \/ next # NUL
  /\ terminal' = IF terminal.column + 1 = Width
                   THEN [terminal EXCEPT !.column = 0, !.row = @ + 1]
                   ELSE [terminal EXCEPT !.column = @ + 1]
  /\ input_pos' = input_pos + 1
  /\ UNCHANGED <<input_buffer, input_len>>
  /\ Edited(~recalled /\ input_pos < input_len /\ terminal'.row < Height, line)

-----------------------------------------------------------------------------
(* The history *)

\* The first zero from i on, or the end of the history.
EndOf(i) == Min({j \in i..history_current_size :
                   j = history_current_size \/ previous_inputs_buffer[j] = NUL})
Entry(i) == [j \in 1..EndOf(i) - i |-> previous_inputs_buffer[i + j - 1]]

\* The text is copied to the screen and to input_buffer, but input_len and
\* input_pos stay 0.
Recall(text) ==
  IF Len(text) >= INPUT_BUFFER_SIZE
    THEN Outside(FALSE)
    ELSE /\ terminal' = FoldLeft(terminal_putchar, clear_beyond_input(terminal), text)
         /\ input_buffer' = [i \in 0..INPUT_BUFFER_SIZE-1 |-> IF i < Len(text) THEN text[i+1] ELSE NUL]
         /\ input_len' = 0 /\ input_pos' = 0
         /\ line' = text /\ recalled' = (text # <<>>) /\ astray' = 0
         /\ UNCHANGED <<args, broken, entered>>

back_history ==
  LET i == history_position
  IN  IF i >= history_current_size
        THEN Recall(<<>>) /\ UNCHANGED history
        ELSE /\ Recall(Entry(i))
             /\ history_position' = EndOf(i) + 1
             /\ UNCHANGED <<previous_inputs_buffer, historybuffersize, history_current_size>>

\* From two before the position, the end of the entry before, its start is
\* looked for.
forward_history ==
  LET last == history_position - 2
      start == Max({-1} \cup {j \in 0..last : previous_inputs_buffer[j] = NUL}) + 1
  IN  IF last < 0
        THEN Recall(<<>>) /\ UNCHANGED history
        ELSE /\ Recall(Entry(start))
             /\ history_position' = start
             /\ UNCHANGED <<previous_inputs_buffer, historybuffersize, history_current_size>>

UpKey == Waiting /\ back_history
DownKey == Waiting /\ forward_history

\* The buffer is a null pointer, low memory that serves, until it must grow;
\* krealloc then returns a fresh block.
Grows(len) == history_current_size + len + 1 > historybuffersize
Grown(len) ==
  IF ~Grows(len) THEN previous_inputs_buffer
  ELSE [i \in 0..historybuffersize + (len + 1) * 5 - 1 |->
          IF historybuffersize > HistoryBytes /\ i < historybuffersize
            THEN previous_inputs_buffer[i] ELSE Other]

\* Mutant: the end of the line is not marked.
MutStored(text, buffer) ==
  [i \in DOMAIN buffer |-> IF i < Len(text) THEN text[i+1]
                           ELSE IF i < PREV_INPUTS_BUFFER THEN buffer[i - Len(text)]
                           ELSE buffer[i]]

\* Only PREV_INPUTS_BUFFER bytes are moved along.
Stored(text, buffer) ==
  [i \in DOMAIN buffer |-> IF i < Len(text) THEN text[i+1]
                           ELSE IF i = Len(text) THEN NUL
                           ELSE IF i < PREV_INPUTS_BUFFER THEN buffer[i - Len(text) - 1]
                           ELSE buffer[i]]

store_prev_inputs ==
  LET len == Len(Text)
  IN  /\ previous_inputs_buffer' = Stored(Text, Grown(len))
      /\ historybuffersize' = IF Grows(len) THEN historybuffersize + (len + 1) * 5
                                            ELSE historybuffersize
      /\ history_current_size' = history_current_size + len + 1
      /\ UNCHANGED history_position

-----------------------------------------------------------------------------
(* Enter *)

NextRow == [terminal EXCEPT !.column = 0, !.row = @ + 1]

\* The cursor is not in the last row - as after a recall over a line of two
\* rows: it moves down, and nothing is run.
EnterMoves ==
  /\ Waiting /\ terminal.row < Height /\ NextRow.row # Height
  /\ terminal' = NextRow
  /\ UNCHANGED input /\ Edited(FALSE, line)

EnterLine ==
  /\ history_current_size + Len(Text) <= MaxHistory
  /\ terminal' = shell_scroll(NextRow)
  /\ store_prev_inputs
  /\ pc' = "parse" /\ parsed' = 0 /\ argc' = 0 /\ blocks' = {} /\ wrapped' = FALSE
  /\ entered' = entered \cup {Text}
  /\ UNCHANGED <<input, argv, broken, line, recalled, astray>>

\* Without a terminating zero strlen runs on behind input_buffer.
EnterKey == /\ Waiting /\ NextRow.row = Height
            /\ IF Terminated THEN EnterLine ELSE Outside(FALSE) /\ UNCHANGED history

\* The arguments of a line begin where its words do.
Args == {i \in 1..Len(Text) : Text[i] # SP /\ (i = 1 \/ Text[i-1] = SP)}

\* An argument gets a block of its own, and argv one more slot.
ParseArg ==
  /\ pc = "parse" /\ parsed < Cardinality(Args)
  /\ parsed' = parsed + 1
  /\ blocks' = blocks \cup {0, parsed'}
  /\ argv' = [argv EXCEPT ![argc] = parsed']
  /\ argc' = (argc + 1) % ArgcValues
  /\ wrapped' = (wrapped \/ argc' = 0)
  /\ UNCHANGED <<terminal, input, history, pc, broken, ghost>>

\* kmalloc fails, or krealloc does and the argument's block is freed.
ParseFails ==
  /\ pc = "parse" /\ parsed < Cardinality(Args)
  /\ pc' = "fail"
  /\ UNCHANGED <<terminal, input, history, parsed, argv, argc, blocks, wrapped, broken, ghost>>

ParseDone ==
  /\ pc = "parse" /\ parsed = Cardinality(Args)
  /\ pc' = "run" /\ clear_input_buffer
  /\ UNCHANGED <<terminal, history, parsed, argv, argc, blocks, wrapped, broken, ghost>>

\* Mutant: all but the last argument are freed.
MutFreed == blocks \ ({0} \cup {argv[i] : i \in 0..argc-2})

\* What kfree leaves when the first argc slots and argv are freed.
Freed == blocks \ ({0} \cup {argv[i] : i \in 0..argc-1})

\* The end of parse_and_run, a new prompt.
Finished ==
  /\ pc' = "key" /\ blocks' = Freed
  /\ history_position' = 0
  /\ terminal' = terminal_shell_set(shell_scroll(terminal))
  /\ parsed' = 0 /\ argc' = 0 /\ argv' = [i \in 0..ArgcValues-1 |-> 0]
  /\ line' = <<>> /\ recalled' = FALSE /\ astray' = 0
  /\ UNCHANGED <<previous_inputs_buffer, historybuffersize, history_current_size, wrapped,
                 broken, entered>>

\* parse_input has freed all itself; no command is run.
ParseFailed == pc = "fail" /\ clear_input_buffer /\ Finished

\* run_command, whatever it does, and clear_args.
run_command == pc = "run" /\ UNCHANGED input /\ Finished

-----------------------------------------------------------------------------
Init ==
  /\ terminal = terminal_shell_set([cells |-> [i \in 0..Size-1 |-> NUL],
                                    above |-> [i \in 0..Extra-1 |-> NUL],
                                    row |-> 0, column |-> 0, start |-> 0])
  /\ input_buffer = Empty /\ input_len = 0 /\ input_pos = 0
  /\ previous_inputs_buffer = [i \in 0..HistoryBytes-1 |-> NUL]
  /\ historybuffersize = HistoryBytes
  /\ history_position = 0 /\ history_current_size = 0
  /\ pc = "key" /\ parsed = 0 /\ argc = 0 /\ blocks = {} /\ wrapped = FALSE
  /\ argv = [i \in 0..ArgcValues-1 |-> 0]
  /\ broken = FALSE
  /\ line = <<>> /\ entered = {} /\ recalled = FALSE /\ astray = 0

Next == \/ (\E c \in Chars : TypeKey(c)) \/ BackspaceKey \/ LeftKey \/ RightKey
        \/ UpKey \/ DownKey \/ EnterMoves \/ EnterKey
        \/ ParseArg \/ ParseFails \/ ParseDone \/ ParseFailed \/ run_command

Spec == Init /\ [][Next]_vars

-----------------------------------------------------------------------------
(* Properties *)

\* What Enter runs is the line that the user has made, by typing at its end or
\* in its middle, erasing its end, moving within it, or recalling it - unless a
\* recalled line was edited, a character in the middle erased, the cursor moved
\* over an end of the line or the screen, a character typed more than a column
\* left of the screen, a line erased from the row below its start, or the buffer
\* was full.  Nor does anything else write outside a buffer (writingmode.c:13-28).
LineKept ==
  /\ faithful /\ pc = "key" => Text = line
  /\ broken => ~faithful

\* As long as that is so, the screen's cursor is as far behind the prompt as
\* input_pos says, over all wraps and scrolls in both directions.
CursorAtText ==
  faithful /\ pc = "key" =>
    (terminal.row - terminal.start) * Width + terminal.column - (input_start_column + 1)
      = IF recalled THEN Len(line) ELSE input_pos

\* A line recalled is, from end to end, one that was entered, while no more
\* than PREV_INPUTS_BUFFER bytes were (inputhandler.c:41-82).
RecallsWhole ==
  recalled /\ faithful /\ history_current_size <= PREV_INPUTS_BUFFER => line \in entered

\* When the prompt is back every block of the arguments has been freed, also
\* when one could not be allocated; unless there were 256 arguments.
ArgsFreed == pc = "key" /\ ~wrapped => blocks = {}
=============================================================================
