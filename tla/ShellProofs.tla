----------------------------- MODULE ShellProofs ----------------------------
(***************************************************************************)
(* The screen, the buffer and the history tell the same line, for every    *)
(* screen, buffer and history; and its commands play songs as they are     *)
(* written, for every disk.                                                *)
(***************************************************************************)
EXTENDS Shell, Player, SequenceTheorems, FiniteSetTheorems, WellFoundedInduction, TLAPS

-----------------------------------------------------------------------------
(* Numbers *)

LEMMA Sizes ==
  /\ Width \in Nat /\ Width > 2 /\ Height \in Nat /\ Height > 1
  /\ INPUT_BUFFER_SIZE \in Nat /\ INPUT_BUFFER_SIZE > 1
  /\ INPUT_BUFFER_SIZE + 1 < Width * Height
  /\ PREV_INPUTS_BUFFER \in Nat /\ HistoryBytes \in Nat
  /\ INPUT_BUFFER_SIZE <= PREV_INPUTS_BUFFER /\ PREV_INPUTS_BUFFER <= HistoryBytes
  /\ ArgcValues \in Nat \ {0} /\ Size = Width * Height /\ Size \in Nat
  /\ Extra \in Nat
BY ShellAssumption DEF Size

LEMMA LeastNat ==
  ASSUME NEW S \in SUBSET Nat, S # {}
  PROVE  \E x \in S : \A y \in S : x <= y
<1>1. \E x \in S : \A y \in S : ~(<<y, x>> \in OpToRel(<, Nat))
  BY WFMin, NatLessThanWellFounded
<1>2. PICK x \in S : \A y \in S : ~(<<y, x>> \in OpToRel(<, Nat))
  BY <1>1
<1>3. ASSUME NEW y \in S PROVE x <= y
  <2>1. ~(y < x)
    BY <1>2 DEF OpToRel
  <2> QED BY <2>1
<1> QED BY <1>2, <1>3

\* A set of natural numbers with 0 in it and the successor of each member.
LEMMA AllNats ==
  ASSUME NEW S \in SUBSET Nat, NEW n \in Nat, 0 \in S,
         \A k \in S : k < n => k + 1 \in S
  PROVE  n \in S
<1> SUFFICES ASSUME n \notin S PROVE FALSE
  OBVIOUS
<1> DEFINE Missing == {k \in Nat : k <= n /\ k \notin S}
<1>1. Missing \in SUBSET Nat /\ Missing # {}
  OBVIOUS
<1>2. PICK x \in Missing : \A y \in Missing : x <= y
  BY <1>1, LeastNat
<1>3. x - 1 \in Nat /\ x - 1 \notin Missing
  BY <1>2
<1> QED BY <1>2, <1>3

LEMMA MinOfInts ==
  ASSUME NEW S \in SUBSET Nat, S # {}
  PROVE  Min(S) \in S /\ \A y \in S : Min(S) <= y
<1>1. \E x \in S : \A y \in S : x <= y
  BY LeastNat
<1> QED BY <1>1 DEF Min

LEMMA MaxOfInts ==
  ASSUME NEW S \in SUBSET Int, S # {}, NEW top \in Int, \A y \in S : y <= top
  PROVE  Max(S) \in S /\ \A y \in S : y <= Max(S)
<1> DEFINE Below == {top - y : y \in S}
<1>1. Below \in SUBSET Nat /\ Below # {}
  <2>1. \A y \in S : y \in Int /\ y <= top
    OBVIOUS
  <2>2. \A y \in S : top - y \in Nat
    BY <2>1
  <2> QED BY <2>2
<1>2. PICK d \in Below : \A e \in Below : d <= e
  BY <1>1, LeastNat
<1>3. PICK x \in S : d = top - x
  BY <1>2
<1>4. ASSUME NEW y \in S PROVE x >= y
  <2>1. top - y \in Below /\ d <= top - y
    BY <1>2
  <2> QED BY <2>1, <1>3
<1>5. \E z \in S : \A y \in S : z >= y
  BY <1>4
<1>6. Max(S) \in S /\ \A y \in S : Max(S) >= y
  BY <1>5 DEF Max
<1> QED BY <1>6

-----------------------------------------------------------------------------
(* Printing a text: FoldLeft follows a path *)

Step(h, text, base, s) ==
  IF s = {} THEN base ELSE terminal_putchar(h[s \ {Max(s)}], text[Max(s)])

LEMMA Iterates ==
  ASSUME NEW n \in Nat, NEW text, NEW base
  PROVE  \E h : h = [s \in SUBSET (1..n) |-> Step(h, text, base, s)]
<1> DEFINE S == {k \in Nat : \E h : h = [s \in SUBSET (1..k) |-> Step(h, text, base, s)]}
<1>1. 0 \in S
  <2> DEFINE h == [s \in SUBSET (1..0) |-> base]
  <2>1. h = [s \in SUBSET (1..0) |-> Step(h, text, base, s)]
    BY DEF Step
  <2> QED BY <2>1
<1>2. ASSUME NEW k \in S PROVE k + 1 \in S
  <2>0. k \in Nat
    OBVIOUS
  <2>1. PICK h : h = [s \in SUBSET (1..k) |-> Step(h, text, base, s)]
    OBVIOUS
  <2> DEFINE g == [s \in SUBSET (1..k+1) |->
                     IF k + 1 \in s THEN terminal_putchar(h[s \ {k + 1}], text[k + 1]) ELSE h[s]]
  <2>2. ASSUME NEW s \in SUBSET (1..k+1) PROVE g[s] = Step(g, text, base, s)
    <3>1. CASE k + 1 \in s
      <4>1. Max(s) \in s /\ \A y \in s : y <= Max(s)
        <5>1. s \in SUBSET Int /\ s # {} /\ k + 1 \in Int /\ \A y \in s : y <= k + 1
          BY <3>1
        <5> QED BY <5>1, MaxOfInts
      <4>2. Max(s) = k + 1
        <5>1. Max(s) \in 1..k+1 /\ k + 1 <= Max(s)
          BY <4>1, <3>1
        <5> QED BY <5>1, <2>0
      <4>3. s \ {k + 1} \in SUBSET (1..k+1) /\ k + 1 \notin s \ {k + 1}
        OBVIOUS
      <4>4. g[s \ {k + 1}] = h[s \ {k + 1}]
        BY <4>3
      <4>5. s # {}
        BY <3>1
      <4> HIDE DEF g
      <4>6. Step(g, text, base, s) = terminal_putchar(h[s \ {k + 1}], text[k + 1])
        BY <4>2, <4>4, <4>5 DEF Step
      <4> QED BY <3>1, <4>6 DEF g
    <3>2. CASE k + 1 \notin s
      <4>1. s \in SUBSET (1..k)
        BY <3>2
      <4>2. g[s] = h[s] /\ h[s] = Step(h, text, base, s)
        BY <4>1, <3>2, <2>1
      <4>3. s \ {Max(s)} \in SUBSET (1..k+1) /\ k + 1 \notin s \ {Max(s)}
        BY <3>2
      <4>4. g[s \ {Max(s)}] = h[s \ {Max(s)}]
        BY <4>3
      <4> HIDE DEF g
      <4> QED BY <4>2, <4>4 DEF Step
    <3> QED BY <3>1, <3>2
  <2>3. g = [s \in SUBSET (1..k+1) |-> Step(g, text, base, s)]
    <3> DEFINE st(s) == Step(g, text, base, s)
    <3>1. \A s \in SUBSET (1..k+1) : g[s] = st(s)
      BY <2>2
    <3>2. g = [s \in SUBSET (1..k+1) |-> g[s]]
      OBVIOUS
    <3> HIDE DEF g, st
    <3>3. g = [s \in SUBSET (1..k+1) |-> st(s)]
      BY <3>1, <3>2
    <3> QED BY <3>3 DEF st
  <2>4. k \in Nat /\ k + 1 \in Nat
    OBVIOUS
  <2> HIDE DEF g
  <2> QED BY <2>3, <2>4
<1> HIDE DEF S
<1>3. S \in SUBSET Nat
  BY DEF S
<1>4. n \in S
  BY <1>1, <1>2, <1>3, AllNats
<1> QED BY <1>4 DEF S

Printed(base, text) == FoldLeft(terminal_putchar, base, text)

IsPath(g, n, base, text) ==
  /\ g[0] = base
  /\ \A k \in 0..n-1 : g[k+1] = terminal_putchar(g[k], text[k+1])
  /\ Printed(base, text) = g[n]

LEMMA Path ==
  ASSUME NEW n \in Nat, NEW text, NEW base, DOMAIN text = 1..n
  PROVE  \E g : IsPath(g, n, base, text)
<1> DEFINE iter == CHOOSE h : h = [s \in SUBSET (1..n) |-> Step(h, text, base, s)]
<1>1. iter = [s \in SUBSET (1..n) |-> Step(iter, text, base, s)]
  BY Iterates
<1>2. Printed(base, text) = iter[1..n]
  BY DEF Printed, FoldLeft, MapThenFoldSet, Step
<1> HIDE DEF iter
<1> DEFINE g == [k \in 0..n |-> iter[1..k]]
<1>3. g[0] = base
  <2>1. 1..0 = {} /\ {} \in SUBSET (1..n)
    OBVIOUS
  <2>2. iter[{}] = base
    BY <1>1, <2>1 DEF Step
  <2> QED BY <2>1, <2>2
<1>4. ASSUME NEW k \in 0..n-1 PROVE g[k+1] = terminal_putchar(g[k], text[k+1])
  <2>1. 1..k+1 \in SUBSET (1..n) /\ 1..k+1 # {}
    <3>1. k \in Nat /\ k + 1 <= n
      OBVIOUS
    <3>2. ASSUME NEW y \in 1..k+1 PROVE y \in 1..n
      BY <3>1
    <3>3. 1 \in 1..k+1
      BY <3>1
    <3> QED BY <3>2, <3>3
  <2>2. Max(1..k+1) \in 1..k+1 /\ \A y \in 1..k+1 : y <= Max(1..k+1)
    <3>1. 1..k+1 \in SUBSET Int /\ k + 1 \in Int /\ \A y \in 1..k+1 : y <= k + 1
      OBVIOUS
    <3> QED BY <3>1, <2>1, MaxOfInts
  <2>3. Max(1..k+1) = k + 1
    BY <2>2
  <2>4. (1..k+1) \ {k + 1} = 1..k
    OBVIOUS
  <2>5. iter[1..k+1] = Step(iter, text, base, 1..k+1)
    BY <1>1, <2>1
  <2>6. iter[1..k+1] = terminal_putchar(iter[1..k], text[k+1])
    BY <2>1, <2>3, <2>4, <2>5 DEF Step
  <2>7. k \in 0..n /\ k + 1 \in 0..n
    OBVIOUS
  <2> QED BY <2>6, <2>7
<1>5. Printed(base, text) = g[n]
  BY <1>2
<1> HIDE DEF g
<1>6. IsPath(g, n, base, text)
  BY <1>3, <1>4, <1>5 DEF IsPath
<1> QED BY <1>6

-----------------------------------------------------------------------------
(* The cursor *)

\* A terminal, whatever its cells show.
IsTerminal(t) ==
  t \in [cells: {t.cells}, above: {t.above}, row: Int, column: Int, start: Int]

LEMMA Fields ==
  ASSUME NEW t, IsTerminal(t)
  PROVE  t.row \in Int /\ t.column \in Int /\ t.start \in Int
BY DEF IsTerminal

LEMMA PutMoves ==
  ASSUME NEW t, IsTerminal(t), NEW i, NEW c
  PROVE  LET n == [t EXCEPT !.cells[i] = c, !.column = @ + 1]
         IN  IsTerminal(n) /\ n.column = t.column + 1 /\ n.row = t.row /\ n.start = t.start
<1> DEFINE cells == [t.cells EXCEPT ![i] = c]
           column == t.column + 1
           n == [t EXCEPT !.cells = cells, !.column = column]
<1>1. column \in Int
  BY DEF IsTerminal
<1>2. [t EXCEPT !.cells[i] = c, !.column = @ + 1] = n
  OBVIOUS
<1> HIDE DEF cells, column
<1>3. n.column = column /\ n.row = t.row /\ n.start = t.start /\ n.cells = cells /\ n.above = t.above
  BY DEF IsTerminal
<1>4. n \in [cells: {cells}, above: {t.above}, row: Int, column: Int, start: Int]
  BY <1>1 DEF IsTerminal
<1>5. IsTerminal(n)
  BY <1>3, <1>4 DEF IsTerminal
<1> HIDE DEF n
<1> QED BY <1>2, <1>3, <1>5 DEF column

LEMMA NextRowMoves ==
  ASSUME NEW t, IsTerminal(t)
  PROVE  LET n == [t EXCEPT !.column = 0, !.row = @ + 1]
         IN  IsTerminal(n) /\ n.column = 0 /\ n.row = t.row + 1 /\ n.start = t.start
<1> DEFINE row == t.row + 1
           column == 0
           n == [t EXCEPT !.column = column, !.row = row]
<1>1. row \in Int /\ column \in Int
  BY DEF IsTerminal
<1>2. [t EXCEPT !.column = 0, !.row = @ + 1] = n
  OBVIOUS
<1> HIDE DEF row, column
<1>3. n.column = column /\ n.row = row /\ n.start = t.start /\ n.cells = t.cells /\ n.above = t.above
  BY DEF IsTerminal
<1>4. n \in [cells: {t.cells}, above: {t.above}, row: Int, column: Int, start: Int]
  BY <1>1 DEF IsTerminal
<1>5. IsTerminal(n)
  BY <1>3, <1>4 DEF IsTerminal
<1> HIDE DEF n
<1> QED BY <1>2, <1>3, <1>5 DEF row, column

LEMMA Scrolls ==
  ASSUME NEW t, IsTerminal(t)
  PROVE  LET n == shell_scroll(t)
         IN  IsTerminal(n) /\ n.column = t.column /\ n.row = Height - 1 /\ n.start = t.start - 1
<1> DEFINE above == [i \in 0..Extra-1 |-> IF i < Width THEN t.cells[i] ELSE t.above[i - Width]]
           cells == [i \in 0..Size-1 |-> IF i + Width < Size THEN t.cells[i + Width] ELSE NUL]
           start == t.start - 1
           row == Height - 1
           n == [t EXCEPT !.above = above, !.cells = cells, !.start = start, !.row = row]
<1>1. start \in Int /\ row \in Int
  BY Sizes DEF IsTerminal
<1>2. shell_scroll(t) = n
  BY DEF shell_scroll
<1> HIDE DEF above, cells, start, row
<1>3. n.column = t.column /\ n.row = row /\ n.start = start /\ n.cells = cells /\ n.above = above
  BY DEF IsTerminal
<1>4. n \in [cells: {cells}, above: {above}, row: Int, column: Int, start: Int]
  BY <1>1 DEF IsTerminal
<1>5. IsTerminal(n)
  BY <1>3, <1>4 DEF IsTerminal
<1> HIDE DEF n
<1> QED BY <1>2, <1>3, <1>5 DEF start, row

\* Whatever was typed, erased and moved over.
OnScreen(t) ==
  /\ IsTerminal(t)
  /\ t.start \in 0..Height-1 /\ t.row \in t.start..Height /\ t.column < Width
  /\ t.row = t.start => t.column > input_start_column

\* How far the cursor is behind the prompt.
PastPrompt(t) == (t.row - t.start) * Width + t.column - (input_start_column + 1)

LEMMA Times ==
  ASSUME NEW a \in Int, NEW b \in Int, a <= b
  PROVE  a * Width \in Int /\ a * Width <= b * Width
<1>1. Width \in Nat
  BY Sizes
<1>2. b - a \in Nat
  OBVIOUS
<1>3. (b - a) * Width >= 0
  BY <1>1, <1>2
<1>4. (b - a) * Width = b * Width - a * Width
  BY <1>1
<1>5. a * Width \in Int /\ b * Width \in Int
  BY <1>1
<1> QED BY <1>3, <1>4, <1>5

\* The cursor's cell, from what it is behind the prompt.
LEMMA CellOf ==
  ASSUME NEW t, OnScreen(t), t.row < Height, NEW n \in Nat, PastPrompt(t) = n
  PROVE  At(t) \in 2..Size-1
<1>1. /\ t.row \in Int /\ t.column \in Int /\ t.start \in Int /\ t.start >= 0
      /\ t.row <= Height - 1 /\ t.column <= Width - 1
  BY Sizes DEF OnScreen, IsTerminal
<1>2. /\ t.start * Width \in Int /\ 0 * Width <= t.start * Width
      /\ t.row * Width \in Int /\ t.row * Width <= (Height - 1) * Width
  BY <1>1, Times, Sizes
<1>3. (t.row - t.start) * Width = t.row * Width - t.start * Width
  BY <1>1, Sizes
<1>4. (Height - 1) * Width = Size - Width
  BY Sizes
<1>5. t.row * Width - t.start * Width + t.column - 2 = n
  BY <1>1, <1>3 DEF PastPrompt, input_start_column
<1>6. At(t) = t.row * Width + t.column
  BY DEF At
<1> QED BY <1>1, <1>2, <1>4, <1>5, <1>6, Sizes

\* terminal_putchar: one cell on, over the end of a row, and of the screen.
LEMMA Prints ==
  ASSUME NEW t, IsTerminal(t), NEW c
  PROVE  LET n == terminal_putchar(t, c)
         IN  /\ IsTerminal(n)
             /\ ~PastEnd(t.column + 1) => n.column = t.column + 1 /\ n.row = t.row /\ n.start = t.start
             /\ PastEnd(t.column + 1) /\ t.row + 1 < Height
                  => n.column = 0 /\ n.row = t.row + 1 /\ n.start = t.start
             /\ PastEnd(t.column + 1) /\ t.row + 1 >= Height
                  => n.column = 0 /\ n.row = Height - 1 /\ n.start = t.start - 1
<1> DEFINE put == [t EXCEPT !.cells[At(t)] = c, !.column = @ + 1]
           below == [put EXCEPT !.column = 0, !.row = @ + 1]
<1>1. IsTerminal(put) /\ put.column = t.column + 1 /\ put.row = t.row /\ put.start = t.start
  BY PutMoves, ZenonT(40)
<1> HIDE DEF put
<1>2. IsTerminal(below) /\ below.column = 0 /\ below.row = t.row + 1 /\ below.start = t.start
  BY <1>1, NextRowMoves, ZenonT(40)
<1> HIDE DEF below
<1>3. /\ IsTerminal(shell_scroll(below)) /\ shell_scroll(below).column = 0
      /\ shell_scroll(below).row = Height - 1 /\ shell_scroll(below).start = t.start - 1
  BY <1>2, Scrolls
<1>4. terminal_putchar(t, c) = IF ~PastEnd(put.column) THEN put
                               ELSE IF below.row >= Height THEN shell_scroll(below) ELSE below
  BY DEF terminal_putchar, put, below
<1>5. CASE ~PastEnd(t.column + 1)
  BY <1>1, <1>4, <1>5
<1>6. CASE PastEnd(t.column + 1) /\ t.row + 1 < Height
  <2>1. terminal_putchar(t, c) = below
    BY <1>1, <1>2, <1>4, <1>6, Sizes DEF IsTerminal
  <2>2. ~(t.row + 1 >= Height)
    BY <1>6, Sizes DEF IsTerminal
  <2> QED BY <1>2, <1>6, <2>1, <2>2
<1>7. CASE PastEnd(t.column + 1) /\ t.row + 1 >= Height
  <2>1. terminal_putchar(t, c) = shell_scroll(below)
    BY <1>1, <1>2, <1>4, <1>7
  <2>2. ~(t.row + 1 < Height)
    BY <1>7, Sizes DEF IsTerminal
  <2> QED BY <1>3, <1>7, <2>1, <2>2
<1>8. t.row + 1 \in Int
  BY DEF IsTerminal
<1>9. t.row + 1 < Height \/ t.row + 1 >= Height
  BY <1>8, Sizes
<1> QED BY <1>5, <1>6, <1>7, <1>9

LEMMA CellsOnly ==
  ASSUME NEW t, IsTerminal(t), NEW cells
  PROVE  LET n == [t EXCEPT !.cells = cells]
         IN  IsTerminal(n) /\ n.column = t.column /\ n.row = t.row /\ n.start = t.start
<1> DEFINE n == [t EXCEPT !.cells = cells]
<1>1. n.column = t.column /\ n.row = t.row /\ n.start = t.start /\ n.cells = cells /\ n.above = t.above
  BY DEF IsTerminal
<1>2. n \in [cells: {cells}, above: {t.above}, row: Int, column: Int, start: Int]
  BY DEF IsTerminal
<1> HIDE DEF n
<1>3. IsTerminal(n)
  BY <1>1, <1>2 DEF IsTerminal
<1> QED BY <1>1, <1>3 DEF n

LEMMA Shifts ==
  ASSUME NEW t, IsTerminal(t)
  PROVE  /\ LET n == shift_forward_shell_input(t)
            IN  IsTerminal(n) /\ n.column = t.column /\ n.row = t.row /\ n.start = t.start
         /\ LET n == shift_backwards_shell_input(t)
            IN  IsTerminal(n) /\ n.column = t.column /\ n.row = t.row /\ n.start = t.start
<1> DEFINE forward == Moved(t.cells, At(t), At(t) - 1, Size - At(t) - 1)
           backwards == Moved(t.cells, At(t), At(t) + 1, Size - At(t) - 1)
<1>1. shift_forward_shell_input(t) = [t EXCEPT !.cells = forward]
  BY DEF shift_forward_shell_input
<1>2. shift_backwards_shell_input(t) = [t EXCEPT !.cells = backwards]
  BY DEF shift_backwards_shell_input
<1> HIDE DEF forward, backwards
<1>3. LET n == [t EXCEPT !.cells = forward]
      IN  IsTerminal(n) /\ n.column = t.column /\ n.row = t.row /\ n.start = t.start
  BY CellsOnly
<1>4. LET n == [t EXCEPT !.cells = backwards]
      IN  IsTerminal(n) /\ n.column = t.column /\ n.row = t.row /\ n.start = t.start
  BY CellsOnly
<1> QED BY <1>1, <1>2, <1>3, <1>4

LEMMA ColumnOnly ==
  ASSUME NEW t, IsTerminal(t), NEW d \in Int
  PROVE  LET n == [t EXCEPT !.column = d]
         IN  IsTerminal(n) /\ n.column = d /\ n.row = t.row /\ n.start = t.start
<1> DEFINE n == [t EXCEPT !.column = d]
           cells == t.cells
           above == t.above
<1>0. t \in [cells: {cells}, above: {above}, row: Int, column: Int, start: Int]
  BY DEF IsTerminal
<1> HIDE DEF cells, above
<1>1. n.column = d /\ n.row = t.row /\ n.start = t.start /\ n.cells = cells /\ n.above = above
  BY <1>0
<1>2. n \in [cells: {cells}, above: {above}, row: Int, column: Int, start: Int]
  BY <1>0
<1> HIDE DEF n
<1>3. IsTerminal(n)
  BY <1>1, <1>2 DEF IsTerminal
<1> QED BY <1>1, <1>3 DEF n

\* shell_backspace: one cell back, with the screen where a row had been scrolled.
LEMMA StepsBack ==
  ASSUME NEW t, IsTerminal(t)
  PROVE  LET n == shell_backspace(t)
         IN  /\ AtStart(t) => n = t
             /\ IsTerminal(n)
             /\ ~AtStart(t) /\ t.column = 0 /\ t.row = Height - 1
                  => n.column = Width - 1 /\ n.row = t.row /\ n.start = t.start + 1
             /\ ~AtStart(t) /\ ~(t.column = 0 /\ t.row = Height - 1)
                  => n.column = t.column - 1 /\ n.row = t.row /\ n.start = t.start
<1> DEFINE cells == [i \in 0..Size-1 |-> IF i < Width THEN t.above[i] ELSE t.cells[i - Width]]
           above == [i \in 0..Extra-1 |-> IF i + Width < Extra THEN t.above[i + Width] ELSE t.above[i]]
           column == Width - 1
           start == t.start + 1
           down == [t EXCEPT !.cells = cells, !.above = above, !.column = column, !.start = start]
           left == t.column - 1
           beside == [t EXCEPT !.column = left]
           back == IF t.column = 0 /\ t.row = Height - 1 THEN down ELSE beside
           erased == [i \in DOMAIN back.cells |-> IF i = At(back) THEN NUL ELSE back.cells[i]]
<1>1. shell_backspace(t) = IF AtStart(t) THEN t ELSE [back EXCEPT !.cells = erased]
  BY DEF shell_backspace
<1>2. column \in Int /\ start \in Int /\ left \in Int
  BY Sizes DEF IsTerminal
<1> HIDE DEF cells, above, column, start, left
<1>3. IsTerminal(down) /\ down.column = column /\ down.row = t.row /\ down.start = start
  <2>1. down.column = column /\ down.row = t.row /\ down.start = start /\ down.cells = cells /\ down.above = above
    BY DEF IsTerminal
  <2>2. down \in [cells: {cells}, above: {above}, row: Int, column: Int, start: Int]
    BY <1>2 DEF IsTerminal
  <2> HIDE DEF down
  <2>3. IsTerminal(down)
    BY <2>1, <2>2 DEF IsTerminal
  <2> QED BY <2>1, <2>3
<1>4. IsTerminal(beside) /\ beside.column = left /\ beside.row = t.row /\ beside.start = t.start
  BY <1>2, ColumnOnly
<1> HIDE DEF down, beside
<1>5. /\ IsTerminal(back) /\ back.row = t.row
      /\ back.column = IF t.column = 0 /\ t.row = Height - 1 THEN column ELSE left
      /\ back.start = IF t.column = 0 /\ t.row = Height - 1 THEN start ELSE t.start
  BY <1>3, <1>4
<1> HIDE DEF back, erased
<1>6. LET n == [back EXCEPT !.cells = erased]
      IN  IsTerminal(n) /\ n.column = back.column /\ n.row = back.row /\ n.start = back.start
  BY <1>5, CellsOnly
<1>7. CASE AtStart(t)
  BY <1>1, <1>7
<1>8. CASE ~AtStart(t)
  <2>1. shell_backspace(t) = [back EXCEPT !.cells = erased]
    BY <1>1, <1>8
  <2> QED BY <1>5, <1>6, <1>8, <2>1 DEF column, start, left
<1> QED BY <1>7, <1>8

LEMMA Clears ==
  ASSUME NEW t, IsTerminal(t)
  PROVE  LET n == clear_beyond_input(t)
         IN  IsTerminal(n) /\ n.column = input_start_column + 1 /\ n.row = t.start /\ n.start = t.start
<1> DEFINE from == t.start * Width + input_start_column
           cells == [i \in 0..Size-1 |-> IF from <= i /\ i < from + (Size - from + 3) \div 4
                                         THEN NUL ELSE t.cells[i]]
           row == t.start
           column == input_start_column + 1
           n == [t EXCEPT !.cells = cells, !.row = row, !.column = column]
<1>1. row \in Int /\ column \in Int
  BY DEF IsTerminal, input_start_column
<1>2. clear_beyond_input(t) = n
  BY DEF clear_beyond_input
<1> HIDE DEF cells, row, column
<1>3. n.column = column /\ n.row = row /\ n.start = t.start /\ n.cells = cells /\ n.above = t.above
  BY DEF IsTerminal
<1>4. n \in [cells: {cells}, above: {t.above}, row: Int, column: Int, start: Int]
  BY <1>1 DEF IsTerminal
<1> HIDE DEF n
<1>5. IsTerminal(n)
  BY <1>3, <1>4 DEF IsTerminal
<1> QED BY <1>2, <1>3, <1>5 DEF row, column

\* A new prompt, in the last row.
LEMMA Prompts ==
  ASSUME NEW t, IsTerminal(t)
  PROVE  LET n == terminal_shell_set(t)
         IN  OnScreen(n) /\ n.row = Height - 1 /\ n.start = Height - 1 /\ PastPrompt(n) = 0
<1> DEFINE row == Height - 1
           column == 0
           home == [t EXCEPT !.column = column, !.row = row]
           one == terminal_putchar(home, Other)
           prompt == terminal_putchar(one, SP)
           start == prompt.row
           n == [prompt EXCEPT !.start = start]
<1>1. row \in Int /\ column \in Int
  BY Sizes
<1>2. terminal_shell_set(t) = n
  BY DEF terminal_shell_set
<1>3. column = 0 /\ row = Height - 1
  OBVIOUS
<1> HIDE DEF row, column
<1>4. IsTerminal(home) /\ home.column = column /\ home.row = row
  <2>1. home.column = column /\ home.row = row /\ home.start = t.start /\ home.cells = t.cells /\ home.above = t.above
    BY DEF IsTerminal
  <2>2. home \in [cells: {t.cells}, above: {t.above}, row: Int, column: Int, start: Int]
    BY <1>1 DEF IsTerminal
  <2> HIDE DEF home
  <2> QED BY <2>1, <2>2 DEF IsTerminal
<1> HIDE DEF home
<1>5. ~PastEnd(home.column + 1)
  BY <1>3, <1>4, Sizes DEF PastEnd
<1>6. IsTerminal(one) /\ one.column = 1 /\ one.row = Height - 1
  BY <1>3, <1>4, <1>5, Prints
<1> HIDE DEF one
<1>7. ~PastEnd(one.column + 1)
  BY <1>6, Sizes DEF PastEnd
<1>8. IsTerminal(prompt) /\ prompt.column = 2 /\ prompt.row = Height - 1
  BY <1>6, <1>7, Prints
<1> HIDE DEF prompt
<1>9. start \in Int /\ start = Height - 1
  BY <1>8, Sizes
<1> HIDE DEF start
<1>10. n.column = 2 /\ n.row = Height - 1 /\ n.start = start /\ n.cells = prompt.cells /\ n.above = prompt.above
  BY <1>8 DEF IsTerminal
<1>11. n \in [cells: {prompt.cells}, above: {prompt.above}, row: Int, column: Int, start: Int]
  BY <1>8, <1>9 DEF IsTerminal
<1> HIDE DEF n
<1>12. IsTerminal(n)
  BY <1>10, <1>11 DEF IsTerminal
<1>13. OnScreen(n)
  BY <1>9, <1>10, <1>12, Sizes DEF OnScreen, input_start_column
<1>14. PastPrompt(n) = 0
  BY <1>9, <1>10, Sizes DEF PastPrompt, input_start_column
<1> QED BY <1>2, <1>9, <1>10, <1>13, <1>14

\* What keeps a terminal OnScreen, and where its cursor is then.
LEMMA PrintKeeps ==
  ASSUME NEW t, OnScreen(t), NEW c,
         t.start > 0 \/ t.row < Height - 1 \/ ~PastEnd(t.column + 1)
  PROVE  OnScreen(terminal_putchar(t, c))
<1>1. /\ IsTerminal(t) /\ t.start \in 0..Height-1 /\ t.row \in t.start..Height /\ t.column < Width
      /\ t.row = t.start => t.column > 2 - 1
  BY DEF OnScreen, input_start_column
<1>2. t.row \in Int /\ t.column \in Int /\ t.start \in Int
  BY <1>1, Fields
<1> DEFINE n == terminal_putchar(t, c)
<1>3. /\ IsTerminal(n)
      /\ ~PastEnd(t.column + 1) => n.column = t.column + 1 /\ n.row = t.row /\ n.start = t.start
      /\ PastEnd(t.column + 1) /\ t.row + 1 < Height
           => n.column = 0 /\ n.row = t.row + 1 /\ n.start = t.start
      /\ PastEnd(t.column + 1) /\ t.row + 1 >= Height
           => n.column = 0 /\ n.row = Height - 1 /\ n.start = t.start - 1
  BY <1>1, Prints
<1> HIDE DEF n
<1>4. CASE ~PastEnd(t.column + 1)
  <2>1. n.column = t.column + 1 /\ n.row = t.row /\ n.start = t.start /\ t.column + 1 < Width
    BY <1>3, <1>4, <1>2, Sizes DEF PastEnd
  <2> QED BY <1>1, <1>2, <1>3, <2>1, Sizes DEF OnScreen, input_start_column, n
<1>5. CASE PastEnd(t.column + 1) /\ t.row + 1 < Height
  <2>1. n.column = 0 /\ n.row = t.row + 1 /\ n.start = t.start
    BY <1>3, <1>5
  <2> QED BY <1>1, <1>2, <1>3, <1>5, <2>1, Sizes DEF OnScreen, input_start_column, n
<1>6. CASE PastEnd(t.column + 1) /\ t.row + 1 >= Height
  <2>1. n.column = 0 /\ n.row = Height - 1 /\ n.start = t.start - 1
    BY <1>3, <1>6
  <2>2. t.start > 0
    BY <1>2, <1>6, Sizes
  <2> QED BY <1>1, <1>2, <1>3, <2>1, <2>2, Sizes DEF OnScreen, input_start_column, n
<1> QED BY <1>2, <1>4, <1>5, <1>6, Sizes

LEMMA PrintMoves ==
  ASSUME NEW t, IsTerminal(t), t.row < Height, t.column < Width, t.column >= -1, NEW c
  PROVE  LET n == terminal_putchar(t, c)
         IN  PastPrompt(n) = PastPrompt(t) + 1 /\ n.row < Height /\ n.column \in 0..Width-1
<1>1. t.row \in Int /\ t.column \in Int /\ t.start \in Int
  BY Fields
<1> DEFINE n == terminal_putchar(t, c)
<1>2. /\ IsTerminal(n)
      /\ ~PastEnd(t.column + 1) => n.column = t.column + 1 /\ n.row = t.row /\ n.start = t.start
      /\ PastEnd(t.column + 1) /\ t.row + 1 < Height
           => n.column = 0 /\ n.row = t.row + 1 /\ n.start = t.start
      /\ PastEnd(t.column + 1) /\ t.row + 1 >= Height
           => n.column = 0 /\ n.row = Height - 1 /\ n.start = t.start - 1
  BY Prints
<1> HIDE DEF n
<1>3. CASE ~PastEnd(t.column + 1)
  <2>1. n.column = t.column + 1 /\ n.row = t.row /\ n.start = t.start
    BY <1>2, <1>3
  <2>2. t.column + 1 \in 0..Width-1
    BY <1>1, <1>3, Sizes DEF PastEnd
  <2>3. PastPrompt(n) = PastPrompt(t) + 1
    BY <1>1, <2>1, Sizes DEF PastPrompt, input_start_column
  <2> QED BY <2>1, <2>2, <2>3 DEF n
<1>4. CASE PastEnd(t.column + 1)
  <2>1. t.column = Width - 1
    BY <1>1, <1>4, Sizes DEF PastEnd
  <2>2. n.column = 0 /\ n.row < Height /\ n.row - n.start = t.row - t.start + 1
    <3>1. CASE t.row + 1 < Height
      <4>1. n.column = 0 /\ n.row = t.row + 1 /\ n.start = t.start
        BY <1>2, <1>4, <3>1
      <4> QED BY <1>1, <3>1, <4>1
    <3>2. CASE t.row + 1 >= Height
      <4>1. n.column = 0 /\ n.row = Height - 1 /\ n.start = t.start - 1
        BY <1>2, <1>4, <3>2
      <4> QED BY <1>1, <3>2, <4>1, Sizes
    <3> QED BY <1>1, <3>1, <3>2, Sizes
  <2>3. (t.row - t.start + 1) * Width = (t.row - t.start) * Width + Width
    BY <1>1, Sizes
  <2>4. (t.row - t.start) * Width \in Int
    BY <1>1, Sizes
  <2>5. PastPrompt(n) = PastPrompt(t) + 1
    BY <1>1, <2>1, <2>2, <2>3, <2>4, Sizes DEF PastPrompt, input_start_column
  <2>6. 0 \in 0..Width-1
    BY Sizes
  <2> QED BY <2>2, <2>5, <2>6 DEF n
<1> QED BY <1>3, <1>4

LEMMA BackKeeps ==
  ASSUME NEW t, OnScreen(t)
  PROVE  OnScreen(shell_backspace(t))
<1>1. /\ IsTerminal(t) /\ t.start \in 0..Height-1 /\ t.row \in t.start..Height /\ t.column < Width
      /\ t.row = t.start => t.column > 1
  BY DEF OnScreen, input_start_column
<1>2. t.row \in Int /\ t.column \in Int /\ t.start \in Int
  BY <1>1, Fields
<1> DEFINE n == shell_backspace(t)
<1>3. /\ AtStart(t) => n = t
      /\ IsTerminal(n)
      /\ ~AtStart(t) /\ t.column = 0 /\ t.row = Height - 1
           => n.column = Width - 1 /\ n.row = t.row /\ n.start = t.start + 1
      /\ ~AtStart(t) /\ ~(t.column = 0 /\ t.row = Height - 1)
           => n.column = t.column - 1 /\ n.row = t.row /\ n.start = t.start
  BY <1>1, StepsBack
<1>4. AtStart(t) <=> t.row = t.start /\ t.column = 2
  BY DEF AtStart, input_start_column
<1> HIDE DEF n
<1>5. CASE AtStart(t)
  BY <1>3, <1>5 DEF n
<1>6. CASE ~AtStart(t) /\ t.column = 0 /\ t.row = Height - 1
  <2>1. n.column = Width - 1 /\ n.row = t.row /\ n.start = t.start + 1
    BY <1>3, <1>6
  <2>2. t.start < Height - 1
    BY <1>1, <1>2, <1>6, Sizes
  <2> QED BY <1>1, <1>2, <1>3, <1>6, <2>1, <2>2, Sizes DEF OnScreen, input_start_column, n
<1>7. CASE ~AtStart(t) /\ ~(t.column = 0 /\ t.row = Height - 1)
  <2>1. n.column = t.column - 1 /\ n.row = t.row /\ n.start = t.start
    BY <1>3, <1>7
  <2> QED BY <1>1, <1>2, <1>3, <1>4, <1>7, <2>1, Sizes DEF OnScreen, input_start_column, n
<1> QED BY <1>5, <1>6, <1>7

LEMMA BackMoves ==
  ASSUME NEW t, OnScreen(t), t.row < Height, ~AtStart(t)
  PROVE  LET n == shell_backspace(t)
         IN  PastPrompt(n) = PastPrompt(t) - 1 /\ n.row < Height
<1>1. IsTerminal(t)
  BY DEF OnScreen
<1>2. t.row \in Int /\ t.column \in Int /\ t.start \in Int
  BY <1>1, Fields
<1> DEFINE n == shell_backspace(t)
<1>3. /\ ~AtStart(t) /\ t.column = 0 /\ t.row = Height - 1
           => n.column = Width - 1 /\ n.row = t.row /\ n.start = t.start + 1
      /\ ~AtStart(t) /\ ~(t.column = 0 /\ t.row = Height - 1)
           => n.column = t.column - 1 /\ n.row = t.row /\ n.start = t.start
  BY <1>1, StepsBack
<1> HIDE DEF n
<1>4. CASE t.column = 0 /\ t.row = Height - 1
  <2>1. n.column = Width - 1 /\ n.row = t.row /\ n.start = t.start + 1
    BY <1>3, <1>4
  <2>2. (t.row - (t.start + 1)) * Width = (t.row - t.start) * Width - Width
    BY <1>2, Sizes
  <2>3. (t.row - t.start) * Width \in Int
    BY <1>2, Sizes
  <2>4. PastPrompt(n) = PastPrompt(t) - 1
    BY <1>2, <1>4, <2>1, <2>2, <2>3, Sizes DEF PastPrompt, input_start_column
  <2> QED BY <2>1, <2>4 DEF n
<1>5. CASE ~(t.column = 0 /\ t.row = Height - 1)
  <2>1. n.column = t.column - 1 /\ n.row = t.row /\ n.start = t.start
    BY <1>3, <1>5
  <2>2. (t.row - t.start) * Width \in Int
    BY <1>2, Sizes
  <2>3. PastPrompt(n) = PastPrompt(t) - 1
    BY <1>2, <2>1, <2>2 DEF PastPrompt, input_start_column
  <2> QED BY <2>1, <2>3 DEF n
<1> QED BY <1>4, <1>5

LEMMA StartIsNothing ==
  ASSUME NEW t, OnScreen(t), AtStart(t)
  PROVE  PastPrompt(t) = 0
<1>1. t.row \in Int /\ t.row = t.start /\ t.column = 2
  BY Fields DEF OnScreen, AtStart, input_start_column
<1> QED BY <1>1, Sizes DEF PastPrompt, input_start_column

\* A recalled text is printed without leaving the screen, as it is shorter.
LEMMA Recalled ==
  ASSUME NEW t, OnScreen(t), NEW n \in Nat, n < INPUT_BUFFER_SIZE, NEW text, DOMAIN text = 1..n
  PROVE  LET s == Printed(clear_beyond_input(t), text)
         IN  OnScreen(s) /\ s.row < Height /\ PastPrompt(s) = n
<1> DEFINE base == clear_beyond_input(t)
           Good(s, k) == /\ OnScreen(s) /\ s.row < Height /\ s.column \in 0..Width-1
                         /\ PastPrompt(s) = k
<1>1. IsTerminal(t) /\ t.start \in 0..Height-1
  BY DEF OnScreen
<1>2. Good(base, 0)
  <2>1. IsTerminal(base) /\ base.column = 2 /\ base.row = t.start /\ base.start = t.start
    BY <1>1, Clears DEF input_start_column
  <2> HIDE DEF base
  <2>2. OnScreen(base)
    BY <1>1, <2>1, Sizes DEF OnScreen, input_start_column
  <2>3. PastPrompt(base) = 0
    BY <1>1, <2>1, Sizes DEF PastPrompt, input_start_column
  <2> QED BY <1>1, <2>1, <2>2, <2>3, Sizes
<1> HIDE DEF base
<1>a. \E g : IsPath(g, n, base, text)
  BY Path
<1>b. PICK g : IsPath(g, n, base, text)
  BY <1>a
<1>3. /\ g[0] = base
      /\ \A k \in 0..n-1 : g[k+1] = terminal_putchar(g[k], text[k+1])
      /\ Printed(base, text) = g[n]
  BY <1>b DEF IsPath
<1>4. ASSUME NEW k \in 0..n-1, Good(g[k], k) PROVE Good(g[k+1], k + 1)
  <2> DEFINE s == g[k]
             c == text[k+1]
  <2>1. g[k+1] = terminal_putchar(s, c)
    BY <1>3
  <2>2. OnScreen(s) /\ s.row < Height /\ s.column \in 0..Width-1 /\ PastPrompt(s) = k
    BY <1>4
  <2> HIDE DEF s, c
  <2>3. IsTerminal(s) /\ s.start \in 0..Height-1 /\ s.row \in Int /\ s.column \in Int /\ s.start \in Int
    BY <2>2, Fields DEF OnScreen
  <2>4. s.start > 0 \/ s.row < Height - 1 \/ ~PastEnd(s.column + 1)
    <3> SUFFICES ASSUME s.start = 0, s.row = Height - 1, PastEnd(s.column + 1) PROVE FALSE
      BY <2>2, <2>3, Sizes
    <3>1. s.column = Width - 1
      BY <2>2, <2>3, Sizes DEF PastEnd
    <3>2. (Height - 1 - 0) * Width = Size - Width
      BY Sizes
    <3>3. PastPrompt(s) = Size - 3
      BY <3>1, <3>2, Sizes DEF PastPrompt, input_start_column
    <3>4. k + 3 < Size
      BY Sizes
    <3> QED BY <2>2, <3>3, <3>4, Sizes
  <2>5. OnScreen(terminal_putchar(s, c))
    BY <2>2, <2>4, PrintKeeps
  <2>6. s.column >= -1 /\ s.column < Width
    BY <2>2, <2>3, Sizes
  <2>7. /\ PastPrompt(terminal_putchar(s, c)) = PastPrompt(s) + 1 /\ terminal_putchar(s, c).row < Height
        /\ terminal_putchar(s, c).column \in 0..Width-1
    BY <2>2, <2>3, <2>6, PrintMoves
  <2> QED BY <2>1, <2>2, <2>5, <2>7
<1> DEFINE S == {k \in 0..n : Good(g[k], k)}
<1>5. S \in SUBSET Nat /\ 0 \in S
  BY <1>2, <1>3
<1>6. \A k \in S : k < n => k + 1 \in S
  <2> SUFFICES ASSUME NEW k \in S, k < n PROVE k + 1 \in S
    OBVIOUS
  <2>1. k \in 0..n-1 /\ k + 1 \in 0..n /\ Good(g[k], k)
    OBVIOUS
  <2> HIDE DEF Good
  <2>2. Good(g[k+1], k + 1)
    BY <2>1, <1>4
  <2> QED BY <2>1, <2>2
<1>7. n \in S
  <2> HIDE DEF S
  <2> QED BY <1>5, <1>6, AllNats
<1> QED BY <1>3, <1>7 DEF base

-----------------------------------------------------------------------------
(* Texts in buffers *)

\* A sequence of length n, whatever is in it.
IsText(t, n) == n \in Nat /\ t = [i \in 1..n |-> t[i]]

\* Text, for any buffer.
TextIn(buf) == LET zero == Min({i \in 0..INPUT_BUFFER_SIZE-1 : buf[i] = NUL})
               IN  [i \in 1..zero |-> buf[i-1]]

LEMMA TextLength ==
  ASSUME NEW t, NEW n, IsText(t, n)
  PROVE  Len(t) = n /\ DOMAIN t = 1..n
<1>1. n \in Nat /\ t = [i \in 1..n |-> t[i]]
  BY DEF IsText
<1> DEFINE S == {t[i] : i \in 1..n}
<1>2. t \in [1..n -> S]
  BY <1>1
<1> HIDE DEF S
<1>3. t \in Seq(S)
  BY <1>1, <1>2, SeqDef
<1>4. DOMAIN t = 1..n
  BY <1>1
<1>5. DOMAIN t = 1..Len(t) /\ Len(t) \in Nat
  BY <1>3, LenProperties
<1> QED BY <1>1, <1>4, <1>5

LEMMA SeqIsText ==
  ASSUME NEW S, NEW t \in Seq(S)
  PROVE  IsText(t, Len(t))
<1>1. Len(t) \in Nat /\ t \in [1..Len(t) -> S]
  BY LenProperties
<1> QED BY <1>1 DEF IsText

\* Two texts of one length with the same characters.
LEMMA SameText ==
  ASSUME NEW t, NEW u, NEW n, IsText(t, n), IsText(u, n), \A i \in 1..n : t[i] = u[i]
  PROVE  t = u
BY DEF IsText

LEMMA NoText ==
  ASSUME NEW t, NEW n, IsText(t, n)
  PROVE  t = <<>> <=> n = 0
<1>1. Len(t) = n
  BY TextLength
<1>2. n = 0 => t = <<>>
  <2> SUFFICES ASSUME n = 0 PROVE t = <<>>
    OBVIOUS
  <2>1. t = [i \in 1..0 |-> t[i]]
    BY DEF IsText
  <2>2. 1..0 = {}
    OBVIOUS
  <2>3. t \in [1..0 -> {}]
    BY <2>1, <2>2
  <2>4. 0 \in Nat
    OBVIOUS
  <2>5. t \in Seq({})
    BY <2>3, <2>4, SeqDef
  <2>6. t # <<>> => Len(t) \in Nat \ {0}
    BY <2>5, EmptySeq
  <2> QED BY <1>1, <2>6
<1>3. t = <<>> => n = 0
  BY <1>1, EmptySeq
<1> QED BY <1>2, <1>3

LEMMA FirstZero ==
  ASSUME NEW buf, NEW i \in 0..INPUT_BUFFER_SIZE-1, buf[i] = NUL
  PROVE  \E zero \in 0..INPUT_BUFFER_SIZE-1 :
            /\ buf[zero] = NUL /\ \A j \in 0..zero-1 : buf[j] # NUL
            /\ TextIn(buf) = [j \in 1..zero |-> buf[j-1]]
            /\ IsText(TextIn(buf), zero) /\ \A j \in 1..zero : TextIn(buf)[j] = buf[j-1]
<1> DEFINE Z == {j \in 0..INPUT_BUFFER_SIZE-1 : buf[j] = NUL}
           zero == Min(Z)
<1>1. Z \in SUBSET Nat /\ Z # {}
  BY Sizes
<1>2. zero \in Z /\ \A j \in Z : zero <= j
  <2> HIDE DEF Z
  <2> QED BY <1>1, MinOfInts
<1>3. TextIn(buf) = [j \in 1..zero |-> buf[j-1]]
  BY DEF TextIn
<1>4. zero \in 0..INPUT_BUFFER_SIZE-1 /\ buf[zero] = NUL
  BY <1>2
<1>5. ASSUME NEW j \in 0..zero-1 PROVE buf[j] # NUL
  <2>1. j \in 0..INPUT_BUFFER_SIZE-1 /\ ~(zero <= j)
    BY <1>4, Sizes
  <2>2. j \notin Z
    BY <1>2, <2>1
  <2> QED BY <2>1, <2>2
<1> HIDE DEF zero
<1>6. IsText(TextIn(buf), zero) /\ \A j \in 1..zero : TextIn(buf)[j] = buf[j-1]
  <2> DEFINE t == [j \in 1..zero |-> buf[j-1]]
  <2>1. t = [j \in 1..zero |-> t[j]] /\ \A j \in 1..zero : t[j] = buf[j-1]
    OBVIOUS
  <2>2. zero \in Nat
    BY <1>4, Sizes
  <2> HIDE DEF t
  <2>3. IsText(t, zero)
    BY <2>1, <2>2 DEF IsText
  <2> QED BY <1>3, <2>1, <2>3 DEF t
<1> QED BY <1>3, <1>4, <1>5, <1>6

\* A text without zeros, and a zero behind it.
Holds(buf, t, n) ==
  /\ n \in 0..INPUT_BUFFER_SIZE-1 /\ IsText(t, n)
  /\ \A i \in 0..n-1 : buf[i] = t[i+1] /\ t[i+1] # NUL
  /\ buf[n] = NUL

LEMMA TextHeld ==
  ASSUME NEW buf, NEW t, NEW n, Holds(buf, t, n)
  PROVE  TextIn(buf) = t
<1>1. n \in 0..INPUT_BUFFER_SIZE-1 /\ buf[n] = NUL /\ n \in Nat
  BY Sizes DEF Holds
<1>2. PICK zero \in 0..INPUT_BUFFER_SIZE-1 :
         /\ buf[zero] = NUL /\ \A j \in 0..zero-1 : buf[j] # NUL
         /\ IsText(TextIn(buf), zero) /\ \A j \in 1..zero : TextIn(buf)[j] = buf[j-1]
  BY <1>1, FirstZero
<1>3. \A i \in 0..n-1 : buf[i] # NUL
  BY DEF Holds
<1>4. zero = n
  BY <1>1, <1>2, <1>3, Sizes
<1>5. ASSUME NEW i \in 1..n PROVE TextIn(buf)[i] = t[i]
  <2>1. i - 1 \in 0..n-1
    BY <1>1
  <2>2. buf[i-1] = t[i-1+1]
    BY <2>1 DEF Holds
  <2> QED BY <1>1, <1>2, <1>4, <2>2
<1>6. IsText(t, n) /\ IsText(TextIn(buf), n)
  BY <1>2, <1>4 DEF Holds
<1> QED BY <1>5, <1>6, SameText

\* What InsertAt gives.
LEMMA Insertion ==
  ASSUME NEW t \in Seq(Chars), NEW p \in 0..Len(t), NEW c \in Chars
  PROVE  /\ InsertAt(t, p + 1, c) \in Seq(Chars)
         /\ Len(InsertAt(t, p + 1, c)) = Len(t) + 1
         /\ \A i \in 1..Len(t) + 1 :
              InsertAt(t, p + 1, c)[i] = IF i <= p THEN t[i] ELSE IF i = p + 1 THEN c ELSE t[i-1]
<1> DEFINE a == SubSeq(t, 1, p)
           b == SubSeq(t, p + 1, Len(t))
<1>1. Len(t) \in Nat /\ \A i \in 1..Len(t) : t[i] \in Chars
  BY LenProperties, ElementOfSeq
<1>2. a \in Seq(Chars) /\ Len(a) = p /\ \A i \in 1..p : a[i] = t[i]
  <2>1. 1 \in Int /\ p \in Int /\ \A i \in 1..p : t[i] \in Chars
    BY <1>1
  <2>2. SubSeq(t, 1, p) \in Seq(Chars) /\ Len(SubSeq(t, 1, p)) = (IF 1 <= p THEN p - 1 + 1 ELSE 0)
        /\ \A i \in 1..p - 1 + 1 : SubSeq(t, 1, p)[i] = t[1 + i - 1]
    BY <2>1, SubSeqProperties
  <2> QED BY <2>2, <1>1
<1>3. b \in Seq(Chars) /\ Len(b) = Len(t) - p /\ \A i \in 1..Len(t) - p : b[i] = t[p + i]
  <2>1. p + 1 \in Int /\ Len(t) \in Int /\ \A i \in p + 1..Len(t) : t[i] \in Chars
    BY <1>1
  <2>2. /\ SubSeq(t, p + 1, Len(t)) \in Seq(Chars)
        /\ Len(SubSeq(t, p + 1, Len(t))) = (IF p + 1 <= Len(t) THEN Len(t) - (p + 1) + 1 ELSE 0)
        /\ \A i \in 1..Len(t) - (p + 1) + 1 : SubSeq(t, p + 1, Len(t))[i] = t[p + 1 + i - 1]
    BY <2>1, SubSeqProperties
  <2> QED BY <2>2, <1>1
<1> DEFINE one == <<c>>
           ac == a \o one
           r == ac \o b
<1>4. InsertAt(t, p + 1, c) = r
  <2>1. (p + 1) - 1 = p
    BY <1>1
  <2>2. InsertAt(t, p + 1, c) = SubSeq(t, 1, (p + 1) - 1) \o <<c>> \o SubSeq(t, p + 1, Len(t))
    BY DEF InsertAt
  <2> QED BY <2>1, <2>2
<1>5. one \in Seq(Chars) /\ Len(one) = 1 /\ one[1] = c
  OBVIOUS
<1> HIDE DEF a, b, one
<1>6. /\ ac \in Seq(Chars) /\ Len(ac) = Len(a) + Len(one)
      /\ \A i \in 1..Len(a) + Len(one) : ac[i] = IF i <= Len(a) THEN a[i] ELSE one[i - Len(a)]
  BY <1>2, <1>5, ConcatProperties
<1> HIDE DEF ac
<1>7. /\ r \in Seq(Chars) /\ Len(r) = Len(ac) + Len(b)
      /\ \A i \in 1..Len(ac) + Len(b) : r[i] = IF i <= Len(ac) THEN ac[i] ELSE b[i - Len(ac)]
  <2>1. ac \in Seq(Chars) /\ b \in Seq(Chars)
    BY <1>3, <1>6
  <2> QED BY <2>1, ConcatProperties
<1> HIDE DEF r
<1>8. Len(ac) = p + 1 /\ Len(r) = Len(t) + 1
  BY <1>1, <1>2, <1>3, <1>5, <1>6, <1>7
<1>9. ASSUME NEW i \in 1..Len(t) + 1
      PROVE  r[i] = IF i <= p THEN t[i] ELSE IF i = p + 1 THEN c ELSE t[i-1]
  <2>1. r[i] = IF i <= p + 1 THEN ac[i] ELSE b[i - (p + 1)]
    BY <1>7, <1>8
  <2>2. i <= p => ac[i] = t[i]
    BY <1>2, <1>5, <1>6, <1>1
  <2>3. i = p + 1 => ac[i] = c
    BY <1>2, <1>5, <1>6, <1>1
  <2>4. i > p + 1 => b[i - (p + 1)] = t[i-1]
    BY <1>3, <1>1
  <2> QED BY <2>1, <2>2, <2>3, <2>4, <1>1
<1> QED BY <1>4, <1>7, <1>8, <1>9

\* The buffer holds the line as it was typed, the cursor in it.
TypedIn(buf, len, pos, t) ==
  /\ t \in Seq(Chars) /\ len = Len(t) /\ len \in 0..INPUT_BUFFER_SIZE-1 /\ pos \in 0..len
  /\ \A i \in 0..INPUT_BUFFER_SIZE-1 : buf[i] = IF i < len THEN t[i+1] ELSE NUL

LEMMA TypedText ==
  ASSUME NEW buf, NEW len, NEW pos, NEW t, TypedIn(buf, len, pos, t)
  PROVE  TextIn(buf) = t
<1>1. t \in Seq(Chars) /\ len = Len(t) /\ len \in 0..INPUT_BUFFER_SIZE-1 /\ len \in Nat
  BY Sizes DEF TypedIn
<1>2. IsText(t, len)
  BY <1>1, SeqIsText
<1>3. \A i \in 1..len : t[i] \in Chars
  BY <1>1, ElementOfSeq
<1>4. NUL \notin Chars
  BY ShellAssumption
<1>5. ASSUME NEW i \in 0..len-1 PROVE buf[i] = t[i+1] /\ t[i+1] # NUL
  <2>1. i \in 0..INPUT_BUFFER_SIZE-1 /\ i < len /\ i + 1 \in 1..len
    BY <1>1, Sizes
  <2> QED BY <2>1, <1>3, <1>4 DEF TypedIn
<1>6. buf[len] = NUL
  <2>1. ~(len < len)
    BY <1>1
  <2> QED BY <1>1, <2>1 DEF TypedIn
<1>7. Holds(buf, t, len)
  BY <1>1, <1>2, <1>5, <1>6 DEF Holds
<1> QED BY <1>7, TextHeld

LEMMA NothingTyped == TypedIn(Empty, 0, 0, <<>>)
<1>1. <<>> \in Seq(Chars) /\ Len(<<>>) = 0
  OBVIOUS
<1>2. 0 \in 0..INPUT_BUFFER_SIZE-1 /\ 0 \in 0..0
  BY Sizes
<1>3. \A i \in 0..INPUT_BUFFER_SIZE-1 : Empty[i] = NUL /\ ~(i < 0)
  BY Sizes DEF Empty
<1> QED BY <1>1, <1>2, <1>3 DEF TypedIn

LEMMA TypeText ==
  ASSUME TypedIn(input_buffer, input_len, input_pos, line), ~Full, NEW c \in Chars
  PROVE  TypedIn(Inserted(c), input_len + 1, input_pos + 1, InsertAt(line, input_pos + 1, c))
<1>1. /\ line \in Seq(Chars) /\ input_len = Len(line) /\ input_len \in Nat
      /\ input_pos \in 0..input_len /\ input_pos \in 0..Len(line)
      /\ input_len + 1 \in 0..INPUT_BUFFER_SIZE-1
  BY Sizes DEF TypedIn, Full
<1> DEFINE t == InsertAt(line, input_pos + 1, c)
<1>2. /\ t \in Seq(Chars) /\ Len(t) = input_len + 1
      /\ \A i \in 1..input_len + 1 :
           t[i] = IF i <= input_pos THEN line[i] ELSE IF i = input_pos + 1 THEN c ELSE line[i-1]
  BY <1>1, Insertion
<1> HIDE DEF t
<1>3. \A i \in 0..INPUT_BUFFER_SIZE-1 : input_buffer[i] = IF i < input_len THEN line[i+1] ELSE NUL
  BY DEF TypedIn
<1>4. ASSUME NEW i \in 0..INPUT_BUFFER_SIZE-1
      PROVE  Inserted(c)[i] = IF i < input_len + 1 THEN t[i+1] ELSE NUL
  <2>1. Inserted(c)[i] = IF i = input_pos THEN c
                         ELSE IF input_pos < i /\ i <= input_len + 1 THEN input_buffer[i-1]
                         ELSE input_buffer[i]
    BY DEF Inserted
  <2>2. CASE i < input_pos
    <3>1. i + 1 \in 1..input_len + 1 /\ i + 1 <= input_pos /\ i < input_len /\ i < input_len + 1
      BY <1>1, <2>2
    <3> QED BY <1>2, <1>3, <2>1, <2>2, <3>1, <1>1
  <2>3. CASE i = input_pos
    <3>1. i + 1 \in 1..input_len + 1 /\ ~(i + 1 <= input_pos) /\ i + 1 = input_pos + 1 /\ i < input_len + 1
      BY <1>1, <2>3
    <3> QED BY <1>2, <2>1, <2>3, <3>1
  <2>4. CASE input_pos < i /\ i <= input_len
    <3>1. /\ i + 1 \in 1..input_len + 1 /\ ~(i + 1 <= input_pos) /\ i + 1 # input_pos + 1 /\ i < input_len + 1
          /\ i - 1 \in 0..INPUT_BUFFER_SIZE-1 /\ i - 1 < input_len /\ i - 1 + 1 = i /\ i + 1 - 1 = i
          /\ i <= input_len + 1 /\ i # input_pos
      BY <1>1, <2>4, Sizes
    <3>2. t[i+1] = line[i]
      BY <1>2, <3>1
    <3>3. input_buffer[i-1] = line[i]
      BY <1>3, <3>1
    <3> QED BY <2>1, <2>4, <3>1, <3>2, <3>3
  <2>5. CASE i = input_len + 1
    <3>1. i - 1 \in 0..INPUT_BUFFER_SIZE-1 /\ ~(i - 1 < input_len) /\ ~(i < input_len + 1) /\ i # input_pos
          /\ input_pos < i /\ i <= input_len + 1
      BY <1>1, <2>5, Sizes
    <3>2. input_buffer[i-1] = NUL
      BY <1>3, <3>1
    <3> QED BY <2>1, <3>1, <3>2
  <2>6. CASE i > input_len + 1
    <3>1. ~(i < input_len) /\ ~(i < input_len + 1) /\ i # input_pos /\ ~(i <= input_len + 1)
      BY <1>1, <2>6, Sizes
    <3> QED BY <1>3, <2>1, <3>1
  <2> QED BY <1>1, <2>2, <2>3, <2>4, <2>5, <2>6, Sizes
<1>5. input_pos + 1 \in 0..input_len + 1
  BY <1>1
<1> QED BY <1>1, <1>2, <1>4, <1>5 DEF TypedIn, t

LEMMA EraseText ==
  ASSUME TypedIn(input_buffer, input_len, input_pos, line), input_pos = input_len, input_len > 0
  PROVE  TypedIn(Removed, input_len - 1, input_pos - 1, Front(line))
<1>1. /\ line \in Seq(Chars) /\ input_len = Len(line) /\ input_len \in Nat
      /\ input_len \in 0..INPUT_BUFFER_SIZE-1
      /\ input_len - 1 \in 0..INPUT_BUFFER_SIZE-1 /\ input_pos - 1 \in 0..input_len - 1
  BY Sizes DEF TypedIn
<1> DEFINE t == SubSeq(line, 1, Len(line) - 1)
<1>2. t \in Seq(Chars) /\ Len(t) = input_len - 1 /\ \A i \in 1..input_len - 1 : t[i] = line[i]
  <2>1. \A i \in 1..Len(line) - 1 : line[i] \in Chars
    <3>1. \A i \in 1..Len(line) : line[i] \in Chars
      BY <1>1, ElementOfSeq
    <3> QED BY <1>1, <3>1
  <2>2. 1 \in Int /\ Len(line) - 1 \in Int
    BY <1>1
  <2>3. /\ t \in Seq(Chars) /\ Len(t) = (IF 1 <= Len(line) - 1 THEN Len(line) - 1 - 1 + 1 ELSE 0)
        /\ \A i \in 1..Len(line) - 1 - 1 + 1 : t[i] = line[1 + i - 1]
    BY <2>1, <2>2, SubSeqProperties
  <2> HIDE DEF t
  <2>4. Len(line) - 1 - 1 + 1 = input_len - 1
    BY <1>1
  <2>5. \A i \in 1..input_len - 1 : 1 + i - 1 = i
    BY <1>1
  <2> QED BY <1>1, <2>3, <2>4, <2>5
<1> HIDE DEF t
<1>3. \A i \in 0..INPUT_BUFFER_SIZE-1 : input_buffer[i] = IF i < input_len THEN line[i+1] ELSE NUL
  BY DEF TypedIn
<1>4. ASSUME NEW i \in 0..INPUT_BUFFER_SIZE-1
      PROVE  Removed[i] = IF i < input_len - 1 THEN t[i+1] ELSE NUL
  <2>1. Removed[i] = IF i = input_len - 1 THEN NUL
                     ELSE IF input_pos - 2 <= i /\ i < input_len - 2 THEN input_buffer[i+1]
                     ELSE input_buffer[i]
    BY DEF Removed
  <2>2. ~(input_pos - 2 <= i /\ i < input_len - 2)
    BY <1>1, Sizes
  <2>3. CASE i < input_len - 1
    <3>1. i + 1 \in 1..input_len - 1 /\ i < input_len /\ i # input_len - 1
      BY <1>1, <2>3, Sizes
    <3> QED BY <1>2, <1>3, <2>1, <2>2, <2>3, <3>1
  <2>4. CASE i = input_len - 1
    <3>1. ~(i < input_len - 1)
      BY <1>1, <2>4
    <3> QED BY <2>1, <2>4, <3>1
  <2>5. CASE i > input_len - 1
    <3>1. ~(i < input_len) /\ ~(i < input_len - 1) /\ i # input_len - 1
      BY <1>1, <2>5, Sizes
    <3> QED BY <1>3, <2>1, <2>2, <3>1
  <2> QED BY <1>1, <2>3, <2>4, <2>5, Sizes
<1>5. Front(line) = t
  BY DEF Front, t
<1> QED BY <1>1, <1>2, <1>4, <1>5 DEF TypedIn

-----------------------------------------------------------------------------
(* The history *)

\* EndOf and Entry, for any history.
EndIn(buf, size, i) == Min({j \in i..size : j = size \/ buf[j] = NUL})
EntryIn(buf, size, i) == [j \in 1..EndIn(buf, size, i) - i |-> buf[i + j - 1]]

\* t is what stands from i up to a zero or the end, at end.
EntryAt(buf, size, i, end, t) ==
  /\ end \in i..size /\ (end = size \/ buf[end] = NUL)
  /\ \A j \in i..end-1 : buf[j] # NUL
  /\ IsText(t, end - i) /\ \A j \in 1..end - i : t[j] = buf[i + j - 1]

LEMMA EntryShape ==
  ASSUME NEW buf, NEW size \in Nat, NEW i \in 0..size
  PROVE  EntryAt(buf, size, i, EndIn(buf, size, i), EntryIn(buf, size, i))
<1> DEFINE Z == {j \in i..size : j = size \/ buf[j] = NUL}
           end == EndIn(buf, size, i)
           t == EntryIn(buf, size, i)
<1>1. Z \in SUBSET Nat /\ Z # {}
  <2>1. size \in Z
    OBVIOUS
  <2>2. \A j \in Z : j \in Nat
    OBVIOUS
  <2> QED BY <2>1, <2>2
<1>2. end \in Z /\ \A j \in Z : end <= j
  <2>1. end = Min(Z)
    BY DEF EndIn
  <2> HIDE DEF Z, end
  <2> QED BY <1>1, <2>1, MinOfInts
<1>3. end \in i..size /\ (end = size \/ buf[end] = NUL)
  BY <1>2
<1>4. ASSUME NEW j \in i..end-1 PROVE buf[j] # NUL
  <2>1. j \in i..size /\ ~(end <= j)
    BY <1>3
  <2>2. j \notin Z
    BY <1>2, <2>1
  <2> QED BY <2>1, <2>2
<1>5. t = [j \in 1..end - i |-> buf[i + j - 1]]
  BY DEF EntryIn
<1> HIDE DEF end, t
<1>6. \A j \in 1..end - i : t[j] = buf[i + j - 1]
  BY <1>5
<1>7. t = [j \in 1..end - i |-> t[j]]
  BY <1>5
<1>8. end - i \in Nat
  BY <1>3
<1>9. IsText(t, end - i)
  BY <1>7, <1>8 DEF IsText
<1>10. EntryAt(buf, size, i, end, t)
  BY <1>3, <1>4, <1>6, <1>9 DEF EntryAt
<1> QED BY <1>10 DEF end, t

\* The history is made of entries, each with a zero behind it.
Whole(buf, size, all) ==
  /\ size > 0 => buf[size-1] = NUL
  /\ \A i \in 0..size-1 : (i = 0 \/ buf[i-1] = NUL) => EntryIn(buf, size, i) \in all

\* A line put before what is there.
Before(text, len, old, new, size) ==
  /\ \A i \in 0..len-1 : new[i] = text[i+1] /\ text[i+1] # NUL
  /\ new[len] = NUL
  /\ \A i \in 0..size-1 : new[i + len + 1] = old[i]

LEMMA WholeBefore ==
  ASSUME NEW text, NEW len, IsText(text, len), NEW old, NEW new, NEW size \in Nat, NEW all,
         Whole(old, size, all), Before(text, len, old, new, size)
  PROVE  Whole(new, size + len + 1, all \cup {text})
<1>1. len \in Nat
  BY DEF IsText
<1> DEFINE size2 == size + len + 1
<1>2. size2 \in Nat /\ size2 = size + len + 1
  BY <1>1
<1> HIDE DEF size2
<1>3. size2 > 0 => new[size2-1] = NUL
  <2>1. CASE size = 0
    <3>1. size2 - 1 = len
      BY <1>1, <1>2, <2>1
    <3> QED BY <3>1 DEF Before
  <2>2. CASE size > 0
    <3>1. size2 - 1 = size - 1 + len + 1 /\ size - 1 \in 0..size-1
      BY <1>1, <1>2, <2>2
    <3>2. old[size-1] = NUL
      BY <2>2 DEF Whole
    <3>3. new[size - 1 + len + 1] = old[size-1]
      BY <3>1 DEF Before
    <3> QED BY <3>1, <3>2, <3>3
  <2> QED BY <2>1, <2>2
<1>4. ASSUME NEW i \in 0..size2-1, i = 0 \/ new[i-1] = NUL
      PROVE  EntryIn(new, size2, i) \in all \cup {text}
  <2> DEFINE e == EndIn(new, size2, i)
             t == EntryIn(new, size2, i)
  <2>1. i \in 0..size2
    BY <1>2
  <2>a. EntryAt(new, size2, i, e, t)
    BY <1>2, <2>1, EntryShape
  <2> HIDE DEF e, t
  <2>2. /\ e \in i..size2 /\ (e = size2 \/ new[e] = NUL) /\ \A j \in i..e-1 : new[j] # NUL
        /\ IsText(t, e - i) /\ \A j \in 1..e - i : t[j] = new[i + j - 1]
    BY <2>a DEF EntryAt
  <2>3. CASE i = 0
    <3>1. new[len] = NUL /\ \A j \in 0..len-1 : new[j] # NUL /\ new[j] = text[j+1]
      BY DEF Before
    <3>2. len \in i..size2 /\ ~(len \in i..e-1)
      BY <1>1, <1>2, <2>2, <2>3, <3>1
    <3>3. e <= len /\ e # size2
      BY <1>1, <1>2, <2>2, <2>3, <3>2
    <3>4. e = len
      BY <1>1, <1>2, <2>2, <2>3, <3>1, <3>3
    <3>5. IsText(t, len)
      BY <1>1, <2>2, <2>3, <3>4
    <3>6. ASSUME NEW j \in 1..len PROVE t[j] = text[j]
      <4>1. j - 1 \in 0..len-1 /\ j - 1 + 1 = j /\ i + j - 1 = j - 1 /\ j \in 1..e - i
        BY <1>1, <2>3, <3>4
      <4>2. new[j-1] = text[j-1+1]
        BY <3>1, <4>1
      <4>3. t[j] = new[i + j - 1]
        BY <2>2, <4>1
      <4> QED BY <4>1, <4>2, <4>3
    <3>7. t = text
      BY <3>5, <3>6, SameText
    <3> QED BY <3>7 DEF t
  <2>4. CASE i > 0
    <3> DEFINE k == i - len - 1
               f == EndIn(old, size, k)
               u == EntryIn(old, size, k)
    <3>1. ~(i - 1 \in 0..len-1)
      BY <1>4, <2>4 DEF Before
    <3>2. k \in Int /\ i = k + len + 1
      BY <1>1
    <3> HIDE DEF k
    <3>3. k \in 0..size-1 /\ k \in 0..size
      BY <1>1, <1>2, <2>4, <3>1, <3>2
    <3>4. k = 0 \/ old[k-1] = NUL
      <4>1. CASE k > 0
        <5>1. k - 1 \in 0..size-1 /\ k - 1 + len + 1 = i - 1
          BY <1>1, <3>2, <3>3, <4>1
        <5>2. new[k - 1 + len + 1] = old[k-1]
          BY <5>1 DEF Before
        <5> QED BY <1>4, <2>4, <5>1, <5>2
      <4> QED BY <3>3, <4>1
    <3>5. u \in all
      BY <3>3, <3>4 DEF Whole
    <3>a. EntryAt(old, size, k, f, u)
      BY <3>3, EntryShape
    <3> HIDE DEF f, u
    <3>6. /\ f \in k..size /\ (f = size \/ old[f] = NUL) /\ \A j \in k..f-1 : old[j] # NUL
          /\ IsText(u, f - k) /\ \A j \in 1..f - k : u[j] = old[k + j - 1]
      BY <3>a DEF EntryAt
    <3>7. ASSUME NEW j \in 0..size-1 PROVE new[j + len + 1] = old[j]
      BY DEF Before
    <3>8. e = f + len + 1
      <4>1. e \in Int /\ f \in Int /\ k \in Int /\ i \in Int
        BY <1>1, <2>2, <3>2, <3>6
      <4>2. ~(e < f + len + 1)
        <5> SUFFICES ASSUME e < f + len + 1 PROVE FALSE
          OBVIOUS
        <5>1. e - len - 1 \in k..f-1 /\ e - len - 1 \in 0..size-1 /\ e - len - 1 + len + 1 = e /\ e # size2
          BY <1>1, <1>2, <2>2, <3>2, <3>3, <3>6, <4>1
        <5>2. new[e - len - 1 + len + 1] = old[e - len - 1]
          BY <3>7, <5>1
        <5> QED BY <2>2, <3>6, <5>1, <5>2
      <4>3. ~(e > f + len + 1)
        <5> SUFFICES ASSUME e > f + len + 1 PROVE FALSE
          OBVIOUS
        <5>1. f + len + 1 \in i..e-1 /\ f # size /\ f \in 0..size-1
          BY <1>1, <1>2, <2>2, <3>2, <3>3, <3>6, <4>1
        <5>2. new[f + len + 1] = old[f]
          BY <3>7, <5>1
        <5> QED BY <2>2, <3>6, <5>1, <5>2
      <4> QED BY <1>1, <4>1, <4>2, <4>3
    <3>9. e - i = f - k
      BY <1>1, <2>2, <3>2, <3>6, <3>8
    <3>10. ASSUME NEW j \in 1..f - k PROVE t[j] = u[j]
      <4>1. /\ k + j - 1 \in 0..size-1 /\ i + j - 1 = k + j - 1 + len + 1 /\ j \in 1..e - i
        BY <1>1, <3>2, <3>3, <3>6, <3>9
      <4>2. t[j] = new[i + j - 1] /\ u[j] = old[k + j - 1]
        BY <2>2, <3>6, <4>1
      <4>3. new[k + j - 1 + len + 1] = old[k + j - 1]
        BY <3>7, <4>1
      <4> QED BY <4>1, <4>2, <4>3
    <3>11. IsText(t, f - k)
      BY <2>2, <3>9
    <3>12. t = u
      BY <3>6, <3>10, <3>11, SameText
    <3> QED BY <3>5, <3>12 DEF t
  <2> QED BY <1>2, <2>3, <2>4
<1> QED BY <1>3, <1>4 DEF Whole, size2

LEMMA TextShape ==
  ASSUME DOMAIN input_buffer = 0..INPUT_BUFFER_SIZE-1, Terminated
  PROVE  \E len \in 0..INPUT_BUFFER_SIZE-1 :
            IsText(Text, len) /\ \A j \in 0..len-1 : Text[j+1] # NUL
<1>1. PICK i \in 0..INPUT_BUFFER_SIZE-1 : input_buffer[i] = NUL
  BY DEF Terminated
<1>2. PICK len \in 0..INPUT_BUFFER_SIZE-1 :
         /\ input_buffer[len] = NUL /\ \A j \in 0..len-1 : input_buffer[j] # NUL
         /\ IsText(TextIn(input_buffer), len)
         /\ \A j \in 1..len : TextIn(input_buffer)[j] = input_buffer[j-1]
  BY <1>1, FirstZero
<1>3. Text = TextIn(input_buffer)
  BY DEF Text, TextIn
<1>4. ASSUME NEW j \in 0..len-1 PROVE Text[j+1] # NUL
  <2>1. j + 1 \in 1..len /\ j + 1 - 1 = j
    BY Sizes
  <2>2. TextIn(input_buffer)[j+1] = input_buffer[j + 1 - 1]
    BY <1>2, <2>1
  <2> QED BY <1>2, <1>3, <2>1, <2>2
<1> QED BY <1>2, <1>3, <1>4

HistoryHolds ==
  /\ history_current_size \in Nat
  /\ historybuffersize \in Nat /\ historybuffersize >= HistoryBytes
  /\ DOMAIN previous_inputs_buffer = 0..historybuffersize-1
  /\ history_position \in 0..history_current_size + 1
  /\ history_current_size <= PREV_INPUTS_BUFFER
       => Whole(previous_inputs_buffer, history_current_size, entered)

\* history_position is where an entry begins, or behind them all.
AtEntry ==
  \/ history_position = 0 \/ history_position > history_current_size
  \/ previous_inputs_buffer[history_position - 1] = NUL

LEMMA StoreKeeps ==
  ASSUME HistoryHolds, store_prev_inputs, entered' = entered \cup {Text},
         DOMAIN input_buffer = 0..INPUT_BUFFER_SIZE-1, Terminated
  PROVE  HistoryHolds'
<1>1. PICK len \in 0..INPUT_BUFFER_SIZE-1 : IsText(Text, len) /\ \A j \in 0..len-1 : Text[j+1] # NUL
  BY TextShape
<1>2. Len(Text) = len
  BY <1>1, TextLength
<1> DEFINE text == Text
           size == history_current_size
           old == previous_inputs_buffer
           grown == Grown(len)
           more == historybuffersize + (len + 1) * 5
<1>3. /\ previous_inputs_buffer' = Stored(text, grown)
      /\ historybuffersize' = IF Grows(len) THEN more ELSE historybuffersize
      /\ history_current_size' = size + len + 1
      /\ history_position' = history_position
  BY <1>2 DEF store_prev_inputs
<1>4. /\ size \in Nat /\ historybuffersize \in Nat /\ historybuffersize >= HistoryBytes /\ len \in Nat
      /\ DOMAIN old = 0..historybuffersize-1 /\ history_position \in 0..size + 1
      /\ size <= PREV_INPUTS_BUFFER => Whole(old, size, entered)
  BY Sizes DEF HistoryHolds
<1>5. more \in Nat /\ more >= HistoryBytes
  BY <1>4, Sizes
<1>6. DOMAIN grown = 0..(IF Grows(len) THEN more ELSE historybuffersize)-1
  BY <1>4 DEF Grown
<1>7. ~Grows(len) => grown = old
  BY DEF Grown
<1>8. Grows(len) <=> size + len + 1 > historybuffersize
  BY DEF Grows
<1>9. Len(text) = len
  BY <1>2
<1> HIDE DEF text, grown, more
<1>10. Stored(text, grown) = [i \in DOMAIN grown |-> IF i < len THEN text[i+1]
                                ELSE IF i = len THEN NUL
                                ELSE IF i < PREV_INPUTS_BUFFER THEN grown[i - len - 1]
                                ELSE grown[i]]
  BY <1>9 DEF Stored
<1>11. DOMAIN previous_inputs_buffer' = 0..historybuffersize'-1
  BY <1>3, <1>6, <1>10
<1>12. ASSUME size + len + 1 <= PREV_INPUTS_BUFFER
       PROVE  Whole(previous_inputs_buffer', size + len + 1, entered \cup {text})
  <2>1. ~Grows(len)
    BY <1>4, <1>8, <1>12, Sizes
  <2>2. grown = old /\ DOMAIN grown = 0..historybuffersize-1
    BY <1>4, <1>7, <2>1
  <2> DEFINE new == Stored(text, grown)
  <2>3. \A i \in 0..historybuffersize-1 :
          new[i] = IF i < len THEN text[i+1]
                   ELSE IF i = len THEN NUL
                   ELSE IF i < PREV_INPUTS_BUFFER THEN old[i - len - 1]
                   ELSE old[i]
    BY <1>10, <2>2
  <2> HIDE DEF new
  <2>4. ASSUME NEW i \in 0..len-1 PROVE new[i] = text[i+1] /\ text[i+1] # NUL
    <3>1. i \in 0..historybuffersize-1 /\ i < len
      BY <1>4, <1>12, Sizes
    <3>2. text[i+1] # NUL
      BY <1>1 DEF text
    <3> QED BY <2>3, <3>1, <3>2
  <2>5. new[len] = NUL
    <3>1. len \in 0..historybuffersize-1 /\ ~(len < len)
      BY <1>4, <1>12, Sizes
    <3> QED BY <2>3, <3>1
  <2>6. ASSUME NEW i \in 0..size-1 PROVE new[i + len + 1] = old[i]
    <3>1. /\ i + len + 1 \in 0..historybuffersize-1 /\ ~(i + len + 1 < len) /\ i + len + 1 # len
          /\ i + len + 1 < PREV_INPUTS_BUFFER /\ i + len + 1 - len - 1 = i
      BY <1>4, <1>12, Sizes
    <3> QED BY <2>3, <3>1
  <2>7. Before(text, len, old, new, size)
    BY <2>4, <2>5, <2>6 DEF Before
  <2>8. Whole(old, size, entered)
    BY <1>4, <1>12, Sizes
  <2>9. IsText(text, len)
    BY <1>1 DEF text
  <2>10. Whole(new, size + len + 1, entered \cup {text})
    BY <1>4, <2>7, <2>8, <2>9, WholeBefore
  <2> QED BY <1>3, <2>10 DEF new
<1>13. entered' = entered \cup {text}
  BY DEF text
<1>14. history_current_size' \in Nat /\ history_position' \in 0..history_current_size' + 1
  BY <1>3, <1>4
<1>15. historybuffersize' \in Nat /\ historybuffersize' >= HistoryBytes
  BY <1>3, <1>4, <1>5
<1>16. history_current_size' <= PREV_INPUTS_BUFFER
         => Whole(previous_inputs_buffer', history_current_size', entered')
  BY <1>3, <1>12, <1>13
<1> QED BY <1>11, <1>14, <1>15, <1>16 DEF HistoryHolds

\* What is recalled upwards and downwards.
LEMMA EntryIs ==
  EndOf(history_position) = EndIn(previous_inputs_buffer, history_current_size, history_position)
    /\ \A i : Entry(i) = EntryIn(previous_inputs_buffer, history_current_size, i)
<1>1. \A i : EndOf(i) = EndIn(previous_inputs_buffer, history_current_size, i)
  BY DEF EndOf, EndIn
<1>2. \A i : Entry(i) = EntryIn(previous_inputs_buffer, history_current_size, i)
  BY <1>1 DEF Entry, EntryIn
<1> QED BY <1>1, <1>2

LEMMA EntryHas ==
  ASSUME HistoryHolds, NEW i \in 0..history_current_size
  PROVE  \E n \in Nat : /\ IsText(Entry(i), n) /\ \A j \in 1..n : Entry(i)[j] # NUL
                        /\ i = history_current_size => n = 0
                        /\ (i = 0 \/ previous_inputs_buffer[i-1] = NUL) /\ n > 0
                             /\ history_current_size <= PREV_INPUTS_BUFFER => Entry(i) \in entered
<1> DEFINE size == history_current_size
           buf == previous_inputs_buffer
           e == EndIn(buf, size, i)
           t == EntryIn(buf, size, i)
<1>1. size \in Nat
  BY DEF HistoryHolds
<1>2. EntryAt(buf, size, i, e, t)
  BY <1>1, EntryShape
<1>3. Entry(i) = t
  BY EntryIs
<1> HIDE DEF e
<1>4. e \in i..size /\ e - i \in Nat /\ i \in Nat
  BY <1>1, <1>2 DEF EntryAt
<1>5. i = size => e - i = 0
  BY <1>1, <1>4
<1>6. ASSUME i = 0 \/ buf[i-1] = NUL, e - i > 0, size <= PREV_INPUTS_BUFFER PROVE t \in entered
  <2>1. i \in 0..size-1
    BY <1>1, <1>4, <1>6
  <2>2. Whole(buf, size, entered)
    BY <1>6 DEF HistoryHolds
  <2> QED BY <1>6, <2>1, <2>2 DEF Whole
<1> HIDE DEF t
<1>7. IsText(t, e - i) /\ \A j \in 1..e - i : t[j] # NUL
  <2>1. ASSUME NEW j \in 1..e - i PROVE t[j] # NUL
    <3>1. i + j - 1 \in i..e-1
      BY <1>1, <1>4
    <3> QED BY <1>2, <3>1 DEF EntryAt
  <2> QED BY <1>2, <2>1 DEF EntryAt
<1> QED BY <1>3, <1>4, <1>5, <1>6, <1>7

-----------------------------------------------------------------------------
(* The invariant *)

Types ==
  /\ pc \in {"key", "parse", "fail", "run"} /\ broken \in BOOLEAN
  /\ recalled \in BOOLEAN /\ wrapped \in BOOLEAN /\ astray \in Nat
  /\ DOMAIN input_buffer = 0..INPUT_BUFFER_SIZE-1

Screen == IF pc = "key" THEN OnScreen(terminal) ELSE IsTerminal(terminal)

\* The line, the buffer and the cursor tell the same.
InLine(t, buf, len, pos) ==
  /\ t.row < Height /\ TypedIn(buf, len, pos, line) /\ PastPrompt(t) = pos

InRecall(t, buf, text) ==
  /\ t.row < Height /\ TextIn(buf) = text /\ PastPrompt(t) = Len(text)

Followed ==
  faithful /\ pc = "key" =>
    IF recalled THEN InRecall(terminal, input_buffer, line)
    ELSE InLine(terminal, input_buffer, input_len, input_pos)

Safe == broken => pc = "key" /\ ~faithful

Cleared == pc = "run" => input_buffer = Empty /\ input_len = 0 /\ input_pos = 0

\* The blocks of the arguments found, each in its slot.
Slots(n, slots, count, held) ==
  /\ n \in Nat /\ count = n /\ n < ArgcValues
  /\ \A i \in 0..n-1 : slots[i] = i + 1
  /\ held = IF n = 0 THEN {} ELSE 0..n

InSlots ==
  /\ DOMAIN argv = 0..ArgcValues-1
  /\ ~wrapped => IF pc = "key" THEN blocks = {} ELSE Slots(parsed, argv, argc, blocks)

Known == recalled /\ faithful /\ history_current_size <= PREV_INPUTS_BUFFER => line \in entered

IInv ==
  /\ Types /\ Screen /\ Followed /\ Safe /\ Cleared /\ InSlots
  /\ HistoryHolds /\ (pc = "key" => AtEntry) /\ Known

LEMMA InitHolds == Init => IInv
<1> SUFFICES ASSUME Init PROVE IInv
  OBVIOUS
<1>1. Types
  BY DEF Init, Types, Empty
<1>2. OnScreen(terminal) /\ terminal.row = Height - 1 /\ PastPrompt(terminal) = 0
  <2> DEFINE cells == [i \in 0..Size-1 |-> NUL]
             above == [i \in 0..Extra-1 |-> NUL]
             t == [cells |-> cells, above |-> above, row |-> 0, column |-> 0, start |-> 0]
  <2>1. terminal = terminal_shell_set(t)
    BY DEF Init
  <2> HIDE DEF cells, above
  <2>2. t \in [cells: {t.cells}, above: {t.above}, row: Int, column: Int, start: Int]
    OBVIOUS
  <2> HIDE DEF t
  <2>3. IsTerminal(t)
    BY <2>2 DEF IsTerminal
  <2> QED BY <2>1, <2>3, Prompts
<1>3. Screen
  BY <1>2 DEF Screen, Init
<1>4. Followed
  <2>1. input_buffer = Empty /\ input_len = 0 /\ input_pos = 0 /\ line = <<>> /\ recalled = FALSE
    BY DEF Init
  <2>2. TypedIn(Empty, 0, 0, <<>>)
    BY NothingTyped
  <2>3. terminal.row < Height
    BY <1>2, Sizes
  <2>4. InLine(terminal, input_buffer, input_len, input_pos)
    BY <1>2, <2>1, <2>2, <2>3, Zenon DEF InLine
  <2> QED BY <2>1, <2>4 DEF Followed
<1>5. Safe /\ Cleared /\ InSlots
  BY DEF Init, Safe, Cleared, InSlots
<1>6. HistoryHolds /\ AtEntry
  BY Sizes DEF Init, HistoryHolds, AtEntry, Whole
<1>7. Known
  BY DEF Init, Known
<1> QED BY <1>1, <1>3, <1>4, <1>5, <1>6, <1>7 DEF IInv

\* A key that the buffer followed, or was led astray by.
LEMMA KeyKeeps ==
  ASSUME IInv, Waiting, UNCHANGED <<history, args, broken, entered, recalled>>, astray' \in Nat,
         DOMAIN input_buffer' = 0..INPUT_BUFFER_SIZE-1, OnScreen(terminal'),
         astray' = 0 => /\ ~recalled /\ terminal'.row < Height /\ PastPrompt(terminal') = input_pos'
                        /\ TypedIn(input_buffer', input_len', input_pos', line')
  PROVE  IInv'
<1>1. /\ pc = "key" /\ broken = FALSE /\ recalled \in BOOLEAN /\ wrapped \in BOOLEAN
      /\ InSlots /\ HistoryHolds /\ AtEntry
  BY DEF IInv, Types, Waiting
<1>2. /\ pc' = pc /\ broken' = broken /\ recalled' = recalled /\ wrapped' = wrapped
      /\ argv' = argv /\ blocks' = blocks /\ entered' = entered
      /\ previous_inputs_buffer' = previous_inputs_buffer /\ historybuffersize' = historybuffersize
      /\ history_position' = history_position /\ history_current_size' = history_current_size
  BY DEF history, args
<1>3. Types'
  BY <1>1, <1>2 DEF Types
<1>4. Screen'
  BY <1>1, <1>2 DEF Screen
<1>5. Followed'
  BY <1>1, <1>2 DEF Followed, faithful, InLine
<1>6. Safe' /\ Cleared'
  BY <1>1, <1>2 DEF Safe, Cleared
<1>7. InSlots'
  BY <1>1, <1>2 DEF InSlots
<1>8. HistoryHolds' /\ AtEntry'
  BY <1>1, <1>2 DEF HistoryHolds, AtEntry
<1>9. Known'
  BY <1>2 DEF Known, faithful
<1> QED BY <1>3, <1>4, <1>5, <1>6, <1>7, <1>8, <1>9 DEF IInv

\* A write or read outside a buffer, when the buffer did not follow.
LEMMA StrayKeeps ==
  ASSUME IInv, Waiting, broken' = TRUE, astray' \in Nat, astray' # 0,
         UNCHANGED <<terminal, input, args, line, entered, recalled>>, HistoryHolds', AtEntry'
  PROVE  IInv'
<1>1. /\ pc = "key" /\ recalled \in BOOLEAN /\ wrapped \in BOOLEAN /\ OnScreen(terminal)
      /\ InSlots /\ DOMAIN input_buffer = 0..INPUT_BUFFER_SIZE-1
  BY DEF IInv, Types, Waiting, Screen
<1>2. /\ pc' = pc /\ recalled' = recalled /\ wrapped' = wrapped /\ argv' = argv /\ blocks' = blocks
      /\ terminal' = terminal /\ input_buffer' = input_buffer
  BY DEF input, args
<1>3. Types'
  BY <1>1, <1>2 DEF Types
<1>4. Screen'
  BY <1>1, <1>2 DEF Screen
<1>5. Followed' /\ Safe' /\ Cleared' /\ Known'
  BY <1>1, <1>2 DEF Followed, Safe, Cleared, Known, faithful
<1>6. InSlots'
  BY <1>1, <1>2 DEF InSlots
<1> QED BY <1>3, <1>4, <1>5, <1>6 DEF IInv

\* What the invariant says while keys are waited for.
LEMMA AtKeys ==
  ASSUME IInv, Waiting
  PROVE  /\ OnScreen(terminal) /\ IsTerminal(terminal)
         /\ terminal.row \in Int /\ terminal.column \in Int /\ terminal.start \in Int
         /\ DOMAIN input_buffer = 0..INPUT_BUFFER_SIZE-1 /\ astray \in Nat
         /\ HistoryHolds /\ AtEntry
         /\ faithful /\ ~recalled =>
              /\ terminal.row < Height /\ PastPrompt(terminal) = input_pos
              /\ TypedIn(input_buffer, input_len, input_pos, line)
              /\ input_len \in 0..INPUT_BUFFER_SIZE-1 /\ input_pos \in 0..input_len
              /\ input_len \in Nat /\ input_pos \in Nat /\ Len(line) = input_len
              /\ At(terminal) \in 2..Size-1
<1>1. pc = "key" /\ OnScreen(terminal) /\ recalled \in BOOLEAN
  BY DEF IInv, Waiting, Screen, Types
<1>2. IsTerminal(terminal)
  BY <1>1 DEF OnScreen
<1>3. terminal.row \in Int /\ terminal.column \in Int /\ terminal.start \in Int
  BY <1>2, Fields
<1>4. ASSUME faithful, ~recalled
      PROVE  /\ terminal.row < Height /\ PastPrompt(terminal) = input_pos
             /\ TypedIn(input_buffer, input_len, input_pos, line)
             /\ input_len \in 0..INPUT_BUFFER_SIZE-1 /\ input_pos \in 0..input_len
             /\ input_len \in Nat /\ input_pos \in Nat /\ Len(line) = input_len
             /\ At(terminal) \in 2..Size-1
  <2>1. /\ terminal.row < Height /\ PastPrompt(terminal) = input_pos
        /\ TypedIn(input_buffer, input_len, input_pos, line)
    BY <1>1, <1>4 DEF IInv, Followed, InLine
  <2>2. input_len \in 0..INPUT_BUFFER_SIZE-1 /\ input_pos \in 0..input_len /\ Len(line) = input_len
    BY <2>1 DEF TypedIn
  <2>3. input_len \in Nat /\ input_pos \in Nat
    BY <2>2, Sizes
  <2>4. At(terminal) \in 2..Size-1
    BY <1>1, <2>1, <2>3, CellOf
  <2> QED BY <2>1, <2>2, <2>3, <2>4
<1> QED BY <1>1, <1>2, <1>3, <1>4 DEF IInv, Types

LEMMA TypeKeeps ==
  ASSUME IInv, Waiting, NEW c \in Chars, TypeKey(c)
  PROVE  IInv'
<1> DEFINE ok == ~recalled /\ ~Full /\ terminal.column >= -1
           outside == InsertOutside \/ At(terminal) \notin 1..Size-1
           s == shift_forward_shell_input(terminal)
<1>1. /\ OnScreen(terminal) /\ IsTerminal(terminal)
      /\ terminal.row \in Int /\ terminal.column \in Int /\ terminal.start \in Int
      /\ DOMAIN input_buffer = 0..INPUT_BUFFER_SIZE-1 /\ astray \in Nat
      /\ HistoryHolds /\ AtEntry
  BY AtKeys
<1>2. ASSUME faithful, ~recalled
      PROVE  /\ terminal.row < Height /\ PastPrompt(terminal) = input_pos
             /\ TypedIn(input_buffer, input_len, input_pos, line)
             /\ input_len \in 0..INPUT_BUFFER_SIZE-1 /\ input_pos \in 0..input_len
             /\ input_len \in Nat /\ input_pos \in Nat /\ Len(line) = input_len
             /\ At(terminal) \in 2..Size-1
  BY <1>2, AtKeys
<1>3. CASE outside
  <2>1. ~(faithful /\ ok)
    <3> SUFFICES ASSUME faithful, ok PROVE FALSE
      OBVIOUS
    <3>1. ~recalled /\ ~Full
      OBVIOUS
    <3>2. At(terminal) \in 1..Size-1
      BY <1>2, <3>1, Sizes
    <3>3. ~InsertOutside
      BY <1>2, <3>1 DEF InsertOutside
    <3> QED BY <1>3, <3>2, <3>3
  <2>2. Outside(ok) /\ UNCHANGED history
    BY <1>3 DEF TypeKey
  <2> HIDE DEF ok, outside
  <2>3. /\ broken' = TRUE /\ astray' = astray + 1
        /\ UNCHANGED <<terminal, input, args, line, entered, recalled>>
    BY <2>1, <2>2 DEF Outside
  <2>4. HistoryHolds' /\ AtEntry'
    BY <1>1, <2>2, <2>3 DEF history, HistoryHolds, AtEntry
  <2>5. astray' \in Nat /\ astray' # 0
    BY <1>1, <2>3
  <2> QED BY <2>3, <2>4, <2>5, StrayKeeps
<1>4. CASE ~outside
  <2>1. /\ terminal' = terminal_putchar(s, c) /\ add_to_input_buffer(c)
        /\ Edited(ok, InsertAt(line, input_pos + 1, c)) /\ StaysOnScreen
    BY <1>4 DEF TypeKey
  <2>2. IsTerminal(s) /\ s.column = terminal.column /\ s.row = terminal.row /\ s.start = terminal.start
    BY <1>1, Shifts
  <2> HIDE DEF s, outside
  <2>3. OnScreen(s) /\ PastPrompt(s) = PastPrompt(terminal)
    BY <1>1, <2>2 DEF OnScreen, PastPrompt
  <2>4. OnScreen(terminal')
    <3>1. s.start > 0 \/ s.row < Height - 1 \/ ~PastEnd(s.column + 1)
      BY <2>1, <2>2 DEF StaysOnScreen
    <3> QED BY <2>1, <2>3, <3>1, PrintKeeps
  <2>5. DOMAIN input_buffer' = 0..INPUT_BUFFER_SIZE-1
    BY <1>1, <2>1 DEF add_to_input_buffer, input, Inserted
  <2>6. ASSUME faithful, ok
        PROVE  /\ ~recalled /\ terminal'.row < Height /\ PastPrompt(terminal') = input_pos'
               /\ TypedIn(input_buffer', input_len', input_pos', InsertAt(line, input_pos + 1, c))
    <3>1. ~recalled /\ ~Full /\ terminal.column >= -1
      BY <2>6
    <3>2. /\ terminal.row < Height /\ PastPrompt(terminal) = input_pos
          /\ TypedIn(input_buffer, input_len, input_pos, line)
      BY <1>2, <2>6, <3>1
    <3>3. /\ input_buffer' = Inserted(c) /\ input_len' = input_len + 1 /\ input_pos' = input_pos + 1
      BY <2>1, <3>1 DEF add_to_input_buffer
    <3>4. TypedIn(Inserted(c), input_len + 1, input_pos + 1, InsertAt(line, input_pos + 1, c))
      BY <3>1, <3>2, TypeText
    <3>5. s.row < Height /\ s.column < Width /\ s.column >= -1
      BY <2>2, <3>1, <3>2, <1>1 DEF OnScreen
    <3>6. PastPrompt(terminal_putchar(s, c)) = PastPrompt(s) + 1 /\ terminal_putchar(s, c).row < Height
      BY <2>2, <3>5, PrintMoves
    <3> QED BY <2>1, <2>3, <3>1, <3>2, <3>3, <3>4, <3>6
  <2> DEFINE newline == InsertAt(line, input_pos + 1, c)
  <2> HIDE DEF ok, newline
  <2>7. /\ UNCHANGED <<history, args, broken, entered, recalled>>
        /\ astray' = IF faithful /\ ok THEN 0 ELSE astray + 1
        /\ line' = IF faithful /\ ok THEN newline ELSE line
    BY <2>1 DEF Edited, newline
  <2>8. astray' \in Nat /\ (astray' = 0 => faithful /\ ok)
    BY <1>1, <2>7
  <2>9. astray' = 0 => /\ ~recalled /\ terminal'.row < Height /\ PastPrompt(terminal') = input_pos'
                       /\ TypedIn(input_buffer', input_len', input_pos', line')
    <3> SUFFICES ASSUME astray' = 0
                 PROVE  /\ ~recalled /\ terminal'.row < Height /\ PastPrompt(terminal') = input_pos'
                        /\ TypedIn(input_buffer', input_len', input_pos', line')
      OBVIOUS
    <3>1. faithful /\ ok /\ line' = newline
      BY <2>7, <2>8
    <3> QED BY <2>6, <3>1 DEF newline
  <2> QED BY <2>4, <2>5, <2>7, <2>8, <2>9, KeyKeeps
<1> QED BY <1>3, <1>4

LEMMA BackspaceKeeps ==
  ASSUME IInv, BackspaceKey
  PROVE  IInv'
<1> DEFINE ok == ~recalled /\ input_pos = input_len /\ (input_len = 0 => AtStart(terminal))
           back == shell_backspace(terminal)
           outside == RemoveOutside \/ At(back) \notin 0..Size-1
           newline == IF line = <<>> THEN line ELSE Front(line)
<1>0. Waiting
  BY DEF BackspaceKey
<1>1. /\ OnScreen(terminal) /\ IsTerminal(terminal)
      /\ terminal.row \in Int /\ terminal.column \in Int /\ terminal.start \in Int
      /\ DOMAIN input_buffer = 0..INPUT_BUFFER_SIZE-1 /\ astray \in Nat
      /\ HistoryHolds /\ AtEntry
  BY <1>0, AtKeys
<1>2. OnScreen(back) /\ (AtStart(terminal) => back = terminal)
  BY <1>1, BackKeeps, StepsBack
<1>3. ASSUME faithful, ok
      PROVE  /\ ~recalled /\ ~RemoveOutside /\ back.row < Height /\ At(back) \in 0..Size-1
             /\ input_len = 0 => PastPrompt(back) = 0 /\ input_pos = 0 /\ newline = line
                                 /\ TypedIn(input_buffer, input_len, input_pos, line)
             /\ input_len # 0 => PastPrompt(back) = input_pos - 1
                                 /\ TypedIn(Removed, input_len - 1, input_pos - 1, newline)
  <2>1. /\ ~recalled /\ input_pos = input_len /\ (input_len = 0 => AtStart(terminal))
    BY <1>3
  <2>2. /\ terminal.row < Height /\ PastPrompt(terminal) = input_pos
        /\ TypedIn(input_buffer, input_len, input_pos, line)
        /\ input_len \in Nat /\ Len(line) = input_len /\ At(terminal) \in 2..Size-1
    BY <1>0, <1>3, <2>1, AtKeys
  <2> HIDE DEF ok, back
  <2>3. ~RemoveOutside
    BY <2>1, <2>2 DEF RemoveOutside
  <2>4. CASE input_len = 0
    <3>1. back = terminal
      BY <1>2, <2>1, <2>4
    <3>2. line = <<>>
      <4>1. line \in Seq(Chars)
        BY <2>2 DEF TypedIn
      <4>2. Len(line) = 0
        BY <2>2, <2>4
      <4> QED BY <4>1, <4>2, EmptySeq
    <3>3. newline = line
      BY <3>2
    <3>4. At(back) \in 0..Size-1
      BY <2>2, <3>1, Sizes
    <3> HIDE DEF newline
    <3> QED BY <2>1, <2>2, <2>3, <2>4, <3>1, <3>3, <3>4
  <2>5. CASE input_len # 0
    <3>1. ~AtStart(terminal)
      BY <1>1, <2>1, <2>2, <2>5, StartIsNothing
    <3>2. PastPrompt(back) = input_pos - 1 /\ back.row < Height
      BY <1>1, <2>2, <3>1, BackMoves DEF back
    <3>3. At(back) \in 2..Size-1
      <4>1. input_pos - 1 \in Nat
        BY <2>1, <2>2, <2>5
      <4> QED BY <1>2, <3>2, <4>1, CellOf
    <3>4. line # <<>>
      <4>1. Len(<<>>) = 0
        OBVIOUS
      <4> QED BY <2>2, <2>5, <4>1
    <3>5. newline = Front(line)
      BY <3>4
    <3> HIDE DEF newline
    <3>6. TypedIn(Removed, input_len - 1, input_pos - 1, Front(line))
      BY <2>1, <2>2, <2>5, EraseText
    <3>7. At(back) \in 0..Size-1
      BY <3>3, Sizes
    <3> QED BY <2>1, <2>3, <2>5, <3>2, <3>5, <3>6, <3>7
  <2> QED BY <2>4, <2>5
<1>4. CASE outside
  <2>1. ~(faithful /\ ok)
    BY <1>3, <1>4
  <2>2. Outside(ok) /\ UNCHANGED history
    BY <1>4 DEF BackspaceKey
  <2> HIDE DEF ok, outside
  <2>3. /\ broken' = TRUE /\ astray' = astray + 1
        /\ UNCHANGED <<terminal, input, args, line, entered, recalled>>
    BY <2>1, <2>2 DEF Outside
  <2>4. HistoryHolds' /\ AtEntry'
    BY <1>1, <2>2, <2>3 DEF history, HistoryHolds, AtEntry
  <2>5. astray' \in Nat /\ astray' # 0
    BY <1>1, <2>3
  <2> QED BY <1>0, <2>3, <2>4, <2>5, StrayKeeps
<1>5. CASE ~outside
  <2>1. /\ terminal' = shift_backwards_shell_input(back) /\ remove_from_input_buffer
        /\ Edited(ok, newline)
    BY <1>5 DEF BackspaceKey
  <2> HIDE DEF back, outside
  <2>2. IsTerminal(back)
    BY <1>2 DEF OnScreen
  <2>3. /\ IsTerminal(terminal') /\ terminal'.column = back.column /\ terminal'.row = back.row
        /\ terminal'.start = back.start
    BY <2>1, <2>2, Shifts
  <2>4. OnScreen(terminal') /\ PastPrompt(terminal') = PastPrompt(back)
    BY <1>2, <2>3 DEF OnScreen, PastPrompt
  <2>5. DOMAIN input_buffer' = 0..INPUT_BUFFER_SIZE-1
    BY <1>1, <2>1 DEF remove_from_input_buffer, input, Removed
  <2>6. ASSUME faithful, ok
        PROVE  /\ ~recalled /\ terminal'.row < Height /\ PastPrompt(terminal') = input_pos'
               /\ TypedIn(input_buffer', input_len', input_pos', newline)
    <3>1. CASE input_len = 0
      <4>1. input_buffer' = input_buffer /\ input_len' = input_len /\ input_pos' = input_pos
        BY <2>1, <3>1 DEF remove_from_input_buffer, input
      <4> HIDE DEF newline, ok
      <4> QED BY <1>3, <2>3, <2>4, <2>6, <3>1, <4>1
    <3>2. CASE input_len # 0
      <4>1. input_buffer' = Removed /\ input_len' = input_len - 1 /\ input_pos' = input_pos - 1
        BY <2>1, <3>2 DEF remove_from_input_buffer
      <4> HIDE DEF newline, ok
      <4> QED BY <1>3, <2>3, <2>4, <2>6, <3>2, <4>1
    <3> QED BY <3>1, <3>2
  <2> HIDE DEF ok, newline
  <2>7. /\ UNCHANGED <<history, args, broken, entered, recalled>>
        /\ astray' = IF faithful /\ ok THEN 0 ELSE astray + 1
        /\ line' = IF faithful /\ ok THEN newline ELSE line
    BY <2>1 DEF Edited
  <2>8. astray' \in Nat /\ (astray' = 0 => faithful /\ ok)
    BY <1>1, <2>7
  <2>9. ASSUME astray' = 0
        PROVE  /\ ~recalled /\ terminal'.row < Height /\ PastPrompt(terminal') = input_pos'
               /\ TypedIn(input_buffer', input_len', input_pos', line')
    <3>1. faithful /\ ok /\ line' = newline
      BY <2>7, <2>8, <2>9
    <3> QED BY <2>6, <3>1
  <2> QED BY <1>0, <2>4, <2>5, <2>7, <2>8, <2>9, KeyKeeps
<1> QED BY <1>4, <1>5

\* A key that only moves the cursor.
LEMMA MoveKeeps ==
  ASSUME IInv, Waiting, NEW ok, Edited(ok, line), OnScreen(terminal'),
         UNCHANGED <<input_buffer, input_len>>,
         faithful /\ ok => /\ ~recalled /\ terminal'.row < Height /\ input_pos' \in 0..input_len
                           /\ PastPrompt(terminal') = input_pos'
  PROVE  IInv'
<1>1. DOMAIN input_buffer = 0..INPUT_BUFFER_SIZE-1 /\ astray \in Nat
  BY AtKeys
<1>2. /\ UNCHANGED <<history, args, broken, entered, recalled>>
      /\ astray' = IF faithful /\ ok THEN 0 ELSE astray + 1
      /\ line' = line
  BY DEF Edited
<1>3. astray' \in Nat /\ (astray' = 0 => faithful /\ ok)
  BY <1>1, <1>2
<1>4. ASSUME astray' = 0
      PROVE  /\ ~recalled /\ terminal'.row < Height /\ PastPrompt(terminal') = input_pos'
             /\ TypedIn(input_buffer', input_len', input_pos', line')
  <2>1. /\ faithful /\ ~recalled /\ terminal'.row < Height /\ input_pos' \in 0..input_len
        /\ PastPrompt(terminal') = input_pos'
    BY <1>3, <1>4
  <2>2. TypedIn(input_buffer, input_len, input_pos, line)
    BY <2>1, AtKeys
  <2>3. TypedIn(input_buffer', input_len', input_pos', line')
    BY <1>2, <2>1, <2>2 DEF TypedIn
  <2> QED BY <2>1, <2>3
<1>5. DOMAIN input_buffer' = 0..INPUT_BUFFER_SIZE-1
  BY <1>1
<1> QED BY <1>2, <1>3, <1>4, <1>5, KeyKeeps

LEMMA LeftKeeps ==
  ASSUME IInv, LeftKey
  PROVE  IInv'
<1>1. Waiting /\ ~AtStart(terminal) /\ terminal' = [terminal EXCEPT !.column = @ - 1]
      /\ input_pos' = input_pos - 1 /\ UNCHANGED <<input_buffer, input_len>>
      /\ Edited(~recalled /\ input_pos > 0, line)
  BY DEF LeftKey
<1>2. /\ OnScreen(terminal) /\ IsTerminal(terminal)
      /\ terminal.row \in Int /\ terminal.column \in Int /\ terminal.start \in Int
  BY <1>1, AtKeys
<1>3. /\ IsTerminal(terminal') /\ terminal'.column = terminal.column - 1
      /\ terminal'.row = terminal.row /\ terminal'.start = terminal.start
  <2> DEFINE d == terminal.column - 1
  <2>1. d \in Int /\ terminal' = [terminal EXCEPT !.column = d]
    BY <1>1, <1>2
  <2> HIDE DEF d
  <2>2. /\ IsTerminal(terminal') /\ terminal'.column = d
        /\ terminal'.row = terminal.row /\ terminal'.start = terminal.start
    BY <1>2, <2>1, ColumnOnly
  <2> QED BY <2>2 DEF d
<1>4. OnScreen(terminal')
  BY <1>1, <1>2, <1>3, Sizes DEF OnScreen, AtStart, input_start_column
<1>5. ASSUME faithful, ~recalled, input_pos > 0
      PROVE  /\ terminal'.row < Height /\ input_pos' \in 0..input_len /\ PastPrompt(terminal') = input_pos'
  <2>1. /\ terminal.row < Height /\ PastPrompt(terminal) = input_pos
        /\ input_len \in Nat /\ input_pos \in 0..input_len
    BY <1>1, <1>5, AtKeys
  <2>2. (terminal.row - terminal.start) * Width \in Int
    BY <1>2, Sizes
  <2>3. PastPrompt(terminal') = PastPrompt(terminal) - 1
    BY <1>2, <1>3, <2>2 DEF PastPrompt, input_start_column
  <2> QED BY <1>1, <1>3, <1>5, <2>1, <2>3
<1> QED BY <1>1, <1>4, <1>5, MoveKeeps

LEMMA RightKeeps ==
  ASSUME IInv, RightKey
  PROVE  IInv'
<1> DEFINE below == [terminal EXCEPT !.column = 0, !.row = @ + 1]
           ok == ~recalled /\ input_pos < input_len /\ terminal'.row < Height
<1>1. Waiting /\ terminal.row < Height /\ input_pos' = input_pos + 1
      /\ terminal' = (IF terminal.column + 1 = Width THEN below ELSE [terminal EXCEPT !.column = @ + 1])
      /\ UNCHANGED <<input_buffer, input_len>> /\ Edited(ok, line)
  BY DEF RightKey
<1>2. /\ OnScreen(terminal) /\ IsTerminal(terminal)
      /\ terminal.row \in Int /\ terminal.column \in Int /\ terminal.start \in Int
  BY <1>1, AtKeys
<1>3. IsTerminal(below) /\ below.column = 0 /\ below.row = terminal.row + 1 /\ below.start = terminal.start
  BY <1>2, NextRowMoves
<1> HIDE DEF below
<1>4. OnScreen(terminal') /\ PastPrompt(terminal') = PastPrompt(terminal) + 1
  <2>1. CASE terminal.column + 1 = Width
    <3>1. terminal' = below
      BY <1>1, <2>1
    <3>2. OnScreen(terminal')
      BY <1>1, <1>2, <1>3, <3>1, Sizes DEF OnScreen, input_start_column
    <3>3. /\ (terminal.row + 1 - terminal.start) * Width = (terminal.row - terminal.start) * Width + Width
          /\ (terminal.row - terminal.start) * Width \in Int
      BY <1>2, Sizes
    <3>4. PastPrompt(terminal') = PastPrompt(terminal) + 1
      BY <1>2, <1>3, <2>1, <3>1, <3>3, Sizes DEF PastPrompt, input_start_column
    <3> QED BY <3>2, <3>4
  <2>2. CASE terminal.column + 1 # Width
    <3> DEFINE d == terminal.column + 1
    <3>1. d \in Int /\ terminal' = [terminal EXCEPT !.column = d]
      BY <1>1, <1>2, <2>2
    <3> HIDE DEF d
    <3>2. /\ IsTerminal(terminal') /\ terminal'.column = d
          /\ terminal'.row = terminal.row /\ terminal'.start = terminal.start
      BY <1>2, <3>1, ColumnOnly
    <3>3. d = terminal.column + 1 /\ d < Width
      BY <1>2, <2>2, Sizes DEF d, OnScreen
    <3>4. OnScreen(terminal')
      BY <1>2, <3>2, <3>3, Sizes DEF OnScreen, input_start_column
    <3>5. (terminal.row - terminal.start) * Width \in Int
      BY <1>2, Sizes
    <3>6. PastPrompt(terminal') = PastPrompt(terminal) + 1
      BY <1>2, <3>2, <3>3, <3>5 DEF PastPrompt, input_start_column
    <3> QED BY <3>4, <3>6
  <2> QED BY <2>1, <2>2
<1>5. ASSUME faithful, ~recalled, input_pos < input_len, terminal'.row < Height
      PROVE  input_pos' \in 0..input_len /\ PastPrompt(terminal') = input_pos'
  <2>1. PastPrompt(terminal) = input_pos /\ input_len \in Nat /\ input_pos \in 0..input_len
    BY <1>1, <1>5, AtKeys
  <2> QED BY <1>1, <1>4, <1>5, <2>1
<1> QED BY <1>1, <1>4, <1>5, MoveKeeps

LEMMA EnterMovesKeeps ==
  ASSUME IInv, EnterMoves
  PROVE  IInv'
<1>1. Waiting /\ terminal.row < Height /\ NextRow.row # Height /\ terminal' = NextRow
      /\ UNCHANGED input /\ Edited(FALSE, line)
  BY DEF EnterMoves
<1>2. /\ OnScreen(terminal) /\ IsTerminal(terminal)
      /\ terminal.row \in Int /\ terminal.column \in Int /\ terminal.start \in Int
  BY <1>1, AtKeys
<1>3. /\ IsTerminal(NextRow) /\ NextRow.column = 0 /\ NextRow.row = terminal.row + 1
      /\ NextRow.start = terminal.start
  BY <1>2, NextRowMoves DEF NextRow
<1>4. OnScreen(terminal')
  BY <1>1, <1>2, <1>3, Sizes DEF OnScreen, input_start_column
<1>5. UNCHANGED <<input_buffer, input_len>>
  BY <1>1 DEF input
<1> QED BY <1>1, <1>4, <1>5, MoveKeeps

\* Up and Down: an entry of the history, or nothing, takes the line's place.
LEMMA RecallKeeps ==
  ASSUME IInv, Waiting, NEW text, NEW n, IsText(text, n), \A j \in 1..n : text[j] # NUL,
         Recall(text), HistoryHolds', AtEntry',
         n > 0 /\ history_current_size' <= PREV_INPUTS_BUFFER => text \in entered
  PROVE  IInv'
<1>1. n \in Nat /\ Len(text) = n /\ DOMAIN text = 1..n /\ (text = <<>> <=> n = 0)
  BY TextLength, NoText DEF IsText
<1>2. OnScreen(terminal) /\ astray \in Nat /\ DOMAIN input_buffer = 0..INPUT_BUFFER_SIZE-1
  BY AtKeys
<1>3. CASE n >= INPUT_BUFFER_SIZE
  <2>1. Outside(FALSE)
    BY <1>1, <1>3 DEF Recall
  <2>2. /\ broken' = TRUE /\ astray' = astray + 1
        /\ UNCHANGED <<terminal, input, args, line, entered, recalled>>
    BY <2>1 DEF Outside
  <2>3. astray' \in Nat /\ astray' # 0
    BY <1>2, <2>2
  <2> QED BY <2>2, <2>3, StrayKeeps
<1>4. CASE n < INPUT_BUFFER_SIZE
  <2> DEFINE buf == [i \in 0..INPUT_BUFFER_SIZE-1 |-> IF i < n THEN text[i+1] ELSE NUL]
             s == Printed(clear_beyond_input(terminal), text)
  <2>1. /\ terminal' = s /\ input_buffer' = buf /\ input_len' = 0 /\ input_pos' = 0
        /\ line' = text /\ recalled' = (text # <<>>) /\ astray' = 0
        /\ UNCHANGED <<args, broken, entered>>
    <3>1. ~(Len(text) >= INPUT_BUFFER_SIZE)
      BY <1>1, <1>4, Sizes
    <3> QED BY <1>1, <3>1 DEF Recall, Printed
  <2>2. OnScreen(s) /\ s.row < Height /\ PastPrompt(s) = n
    BY <1>1, <1>2, <1>4, Recalled
  <2> HIDE DEF s
  <2>3. \A i \in 0..INPUT_BUFFER_SIZE-1 : buf[i] = IF i < n THEN text[i+1] ELSE NUL
    OBVIOUS
  <2>4. DOMAIN buf = 0..INPUT_BUFFER_SIZE-1
    OBVIOUS
  <2> HIDE DEF buf
  <2>5. n \in 0..INPUT_BUFFER_SIZE-1
    BY <1>1, <1>4, Sizes
  <2>6. TextIn(buf) = text
    <3>1. ASSUME NEW i \in 0..n-1 PROVE buf[i] = text[i+1] /\ text[i+1] # NUL
      <4>1. i \in 0..INPUT_BUFFER_SIZE-1 /\ i < n /\ i + 1 \in 1..n
        BY <1>1, <2>5, Sizes
      <4> QED BY <2>3, <4>1
    <3>2. buf[n] = NUL
      <4>1. ~(n < n)
        BY <1>1
      <4> QED BY <2>3, <2>5, <4>1
    <3>3. Holds(buf, text, n)
      BY <2>5, <3>1, <3>2 DEF Holds
    <3> QED BY <3>3, TextHeld
  <2>7. pc' = "key" /\ broken' = FALSE /\ blocks' = blocks /\ argv' = argv /\ wrapped' = wrapped
    BY <2>1 DEF args, Waiting, IInv, Types
  <2>8. recalled' \in BOOLEAN /\ (recalled' <=> n # 0)
    <3>1. recalled' = (text # <<>>)
      BY <2>1
    <3> QED BY <1>1, <3>1, Zenon
  <2>9. Types'
    BY <2>1, <2>4, <2>7, <2>8 DEF Types, IInv
  <2>10. Screen'
    BY <2>1, <2>2, <2>7 DEF Screen
  <2>11. Followed'
    <3>1. CASE recalled'
      <4>1. InRecall(terminal', input_buffer', text)
        BY <1>1, <2>1, <2>2, <2>6 DEF InRecall
      <4> QED BY <2>1, <3>1, <4>1 DEF Followed, InRecall
    <3>2. CASE ~recalled'
      <4>1. n = 0 /\ text = <<>>
        BY <1>1, <2>8, <3>2
      <4>2. buf = Empty
        BY <2>3, <2>4, <4>1, Sizes DEF Empty, buf
      <4>3. TypedIn(buf, 0, 0, text)
        BY <4>1, <4>2, NothingTyped, Zenon
      <4>4. /\ terminal'.row < Height /\ TypedIn(input_buffer', input_len', input_pos', line')
            /\ PastPrompt(terminal') = input_pos'
        BY <2>1, <2>2, <4>1, <4>3
      <4> QED BY <3>2, <4>4 DEF Followed, InLine
    <3> QED BY <3>1, <3>2
  <2>12. Safe' /\ Cleared'
    BY <2>7 DEF Safe, Cleared
  <2>13. InSlots'
    BY <2>7 DEF InSlots, IInv, Waiting
  <2>14. Known'
    <3> SUFFICES ASSUME recalled', history_current_size' <= PREV_INPUTS_BUFFER PROVE line' \in entered'
      BY DEF Known
    <3>1. n > 0
      BY <1>1, <2>8
    <3> QED BY <2>1, <3>1
  <2> QED BY <2>9, <2>10, <2>11, <2>12, <2>13, <2>14 DEF IInv
<1> QED BY <1>1, <1>3, <1>4, Sizes

LEMMA NothingRecalled ==
  ASSUME IInv, Waiting, Recall(<<>>), UNCHANGED history
  PROVE  IInv'
<1>1. HistoryHolds /\ AtEntry
  BY AtKeys
<1>2. entered' = entered
  BY DEF Recall, Outside
<1>3. HistoryHolds' /\ AtEntry'
  BY <1>1, <1>2 DEF history, HistoryHolds, AtEntry
<1> DEFINE t == <<>>
<1>4. IsText(t, 0)
  <2>1. t \in Seq({}) /\ Len(t) = 0
    OBVIOUS
  <2> HIDE DEF t
  <2> QED BY <2>1, SeqIsText
<1>5. Recall(t)
  OBVIOUS
<1> HIDE DEF t
<1>6. \A j \in 1..0 : t[j] # NUL
  OBVIOUS
<1> QED BY <1>3, <1>4, <1>5, <1>6, RecallKeeps

LEMMA UpKeeps ==
  ASSUME IInv, UpKey
  PROVE  IInv'
<1> DEFINE i == history_position
<1>1. Waiting /\ back_history
  BY DEF UpKey
<1>2. HistoryHolds /\ AtEntry
  BY <1>1, AtKeys
<1>3. history_current_size \in Nat /\ i \in 0..history_current_size + 1
  BY <1>2 DEF HistoryHolds
<1>4. CASE i >= history_current_size
  <2>1. Recall(<<>>) /\ UNCHANGED history
    BY <1>1, <1>4 DEF back_history
  <2> QED BY <1>1, <2>1, NothingRecalled
<1>5. CASE ~(i >= history_current_size)
  <2>1. /\ Recall(Entry(i)) /\ history_position' = EndOf(i) + 1
        /\ UNCHANGED <<previous_inputs_buffer, historybuffersize, history_current_size>>
    BY <1>1, <1>5 DEF back_history
  <2>2. i \in 0..history_current_size
    BY <1>3, <1>5
  <2>3. EntryAt(previous_inputs_buffer, history_current_size, i, EndOf(i), Entry(i))
    BY <1>3, <2>2, EntryShape, EntryIs
  <2> DEFINE end == EndOf(i)
  <2>4. end \in i..history_current_size
        /\ (end = history_current_size \/ previous_inputs_buffer[end] = NUL)
    BY <2>3 DEF EntryAt
  <2>5. history_position' = end + 1
    BY <2>1
  <2> HIDE DEF end
  <2>6. entered' = entered
    BY <2>1 DEF Recall, Outside
  <2>7. HistoryHolds'
    BY <1>2, <1>3, <2>1, <2>4, <2>5, <2>6 DEF HistoryHolds
  <2>8. AtEntry'
    <3>1. end \in Nat /\ end + 1 - 1 = end
      BY <1>3, <2>4
    <3>2. CASE end = history_current_size
      BY <2>1, <2>5, <3>1, <3>2 DEF AtEntry
    <3>3. CASE previous_inputs_buffer[end] = NUL
      BY <2>1, <2>5, <3>1, <3>3 DEF AtEntry
    <3> QED BY <2>4, <3>2, <3>3
  <2>9. i = 0 \/ previous_inputs_buffer[i-1] = NUL
    BY <1>2, <1>3, <2>2 DEF AtEntry
  <2>10. PICK n \in Nat : /\ IsText(Entry(i), n) /\ \A j \in 1..n : Entry(i)[j] # NUL
                          /\ (i = 0 \/ previous_inputs_buffer[i-1] = NUL) /\ n > 0
                               /\ history_current_size <= PREV_INPUTS_BUFFER => Entry(i) \in entered
    BY <1>2, <2>2, EntryHas
  <2>11. n > 0 /\ history_current_size' <= PREV_INPUTS_BUFFER => Entry(i) \in entered
    BY <2>1, <2>9, <2>10
  <2> DEFINE text == Entry(i)
  <2>12. IsText(text, n) /\ (\A j \in 1..n : text[j] # NUL) /\ Recall(text)
         /\ (n > 0 /\ history_current_size' <= PREV_INPUTS_BUFFER => text \in entered)
    BY <2>1, <2>10, <2>11
  <2> HIDE DEF text
  <2> QED BY <1>1, <2>7, <2>8, <2>12, RecallKeeps
<1> QED BY <1>4, <1>5

LEMMA DownKeeps ==
  ASSUME IInv, DownKey
  PROVE  IInv'
<1> DEFINE last == history_position - 2
           Z == {-1} \cup {j \in 0..last : previous_inputs_buffer[j] = NUL}
           i == Max(Z) + 1
<1>1. Waiting /\ forward_history
  BY DEF DownKey
<1>2. HistoryHolds /\ AtEntry
  BY <1>1, AtKeys
<1>3. history_current_size \in Nat /\ history_position \in 0..history_current_size + 1
  BY <1>2 DEF HistoryHolds
<1>4. CASE last < 0
  <2>1. Recall(<<>>) /\ UNCHANGED history
    BY <1>1, <1>4 DEF forward_history
  <2> QED BY <1>1, <2>1, NothingRecalled
<1>5. CASE ~(last < 0)
  <2>1. /\ Recall(Entry(i)) /\ history_position' = i
        /\ UNCHANGED <<previous_inputs_buffer, historybuffersize, history_current_size>>
    BY <1>1, <1>5 DEF forward_history
  <2>2. Max(Z) \in Z
    <3>1. Z \in SUBSET Int /\ Z # {} /\ last \in Int /\ \A y \in Z : y <= last
      BY <1>3, <1>5
    <3> HIDE DEF Z, last
    <3> QED BY <3>1, MaxOfInts
  <2>3. i \in 0..history_current_size /\ (i = 0 \/ previous_inputs_buffer[i-1] = NUL)
    <3> DEFINE m == Max(Z)
    <3>1. m \in Z /\ i = m + 1
      BY <2>2
    <3> HIDE DEF m, i
    <3>2. CASE m = -1
      BY <1>3, <3>1, <3>2
    <3>3. CASE m \in 0..last /\ previous_inputs_buffer[m] = NUL
      <4>1. i - 1 = m /\ i \in 0..history_current_size
        BY <1>3, <3>1, <3>3
      <4> QED BY <3>3, <4>1
    <3> QED BY <3>1, <3>2, <3>3
  <2> HIDE DEF i
  <2>4. entered' = entered
    BY <2>1 DEF Recall, Outside
  <2>5. HistoryHolds'
    BY <1>2, <1>3, <2>1, <2>3, <2>4 DEF HistoryHolds
  <2>6. AtEntry'
    BY <2>1, <2>3 DEF AtEntry
  <2>7. PICK n \in Nat : /\ IsText(Entry(i), n) /\ \A j \in 1..n : Entry(i)[j] # NUL
                         /\ (i = 0 \/ previous_inputs_buffer[i-1] = NUL) /\ n > 0
                              /\ history_current_size <= PREV_INPUTS_BUFFER => Entry(i) \in entered
    BY <1>2, <2>3, EntryHas
  <2>8. n > 0 /\ history_current_size' <= PREV_INPUTS_BUFFER => Entry(i) \in entered
    BY <2>1, <2>3, <2>7
  <2> DEFINE text == Entry(i)
  <2>9. IsText(text, n) /\ (\A j \in 1..n : text[j] # NUL) /\ Recall(text)
        /\ (n > 0 /\ history_current_size' <= PREV_INPUTS_BUFFER => text \in entered)
    BY <2>1, <2>7, <2>8
  <2> HIDE DEF text
  <2> QED BY <1>1, <2>5, <2>6, <2>9, RecallKeeps
<1> QED BY <1>4, <1>5

LEMMA EnterKeeps ==
  ASSUME IInv, EnterKey
  PROVE  IInv'
<1>1. Waiting /\ NextRow.row = Height
  BY DEF EnterKey
<1>2. /\ OnScreen(terminal) /\ IsTerminal(terminal) /\ astray \in Nat
      /\ DOMAIN input_buffer = 0..INPUT_BUFFER_SIZE-1 /\ HistoryHolds /\ AtEntry
  BY <1>1, AtKeys
<1>3. CASE Terminated
  <2>1. /\ terminal' = shell_scroll(NextRow) /\ store_prev_inputs
        /\ pc' = "parse" /\ parsed' = 0 /\ argc' = 0 /\ blocks' = {} /\ wrapped' = FALSE
        /\ entered' = entered \cup {Text}
        /\ UNCHANGED <<input, argv, broken, line, recalled, astray>>
    BY <1>3 DEF EnterKey, EnterLine
  <2>2. IsTerminal(terminal')
    <3>1. IsTerminal(NextRow)
      BY <1>2, NextRowMoves DEF NextRow
    <3> QED BY <2>1, <3>1, Scrolls
  <2>3. Types'
    BY <1>2, <2>1 DEF Types, IInv, input
  <2>4. Screen' /\ Followed' /\ Cleared'
    BY <2>1, <2>2 DEF Screen, Followed, Cleared
  <2>5. Safe'
    BY <1>1, <2>1 DEF Safe, Waiting, Types, IInv
  <2>6. InSlots'
    BY <2>1, Sizes DEF InSlots, IInv, Slots
  <2>7. HistoryHolds'
    BY <1>2, <1>3, <2>1, StoreKeeps
  <2>8. Known'
    <3> SUFFICES ASSUME recalled', faithful', history_current_size' <= PREV_INPUTS_BUFFER
                 PROVE  line' \in entered'
      BY DEF Known
    <3>1. recalled /\ faithful
      BY <2>1 DEF faithful
    <3>2. \E len \in Nat : Len(Text) = len
      <4>1. PICK len \in 0..INPUT_BUFFER_SIZE-1 : IsText(Text, len)
        BY <1>2, <1>3, TextShape
      <4> QED BY <4>1, TextLength, Sizes
    <3>3. history_current_size' = history_current_size + Len(Text) + 1
      BY <2>1 DEF store_prev_inputs
    <3>4. history_current_size <= PREV_INPUTS_BUFFER
      BY <1>2, <3>2, <3>3, Sizes DEF HistoryHolds
    <3> QED BY <2>1, <3>1, <3>4 DEF Known, IInv
  <2> QED BY <2>1, <2>3, <2>4, <2>5, <2>6, <2>7, <2>8 DEF IInv
<1>4. CASE ~Terminated
  <2>1. Outside(FALSE) /\ UNCHANGED history
    BY <1>4 DEF EnterKey
  <2>2. /\ broken' = TRUE /\ astray' = astray + 1
        /\ UNCHANGED <<terminal, input, args, line, entered, recalled>>
    BY <2>1 DEF Outside
  <2>3. HistoryHolds' /\ AtEntry'
    BY <1>2, <2>1, <2>2 DEF history, HistoryHolds, AtEntry
  <2>4. astray' \in Nat /\ astray' # 0
    BY <1>2, <2>2
  <2> QED BY <1>1, <2>2, <2>3, <2>4, StrayKeeps
<1> QED BY <1>3, <1>4

-----------------------------------------------------------------------------
(* The arguments *)

LEMMA NextArg ==
  ASSUME NEW n \in Nat, n < ArgcValues, (n + 1) % ArgcValues # 0
  PROVE  n + 1 < ArgcValues /\ (n + 1) % ArgcValues = n + 1
<1>1. ArgcValues \in Nat /\ ArgcValues > 0
  BY Sizes
<1>2. n + 1 # ArgcValues
  BY <1>1
<1>3. n + 1 < ArgcValues
  BY <1>1, <1>2
<1> QED BY <1>1, <1>3

\* While the line is parsed nothing but the arguments is touched.
LEMMA ParseKeeps ==
  ASSUME IInv, pc # "key", pc' \in {"parse", "fail"}, wrapped' \in BOOLEAN, InSlots',
         UNCHANGED <<terminal, input, history, broken, ghost>>
  PROVE  IInv'
<1>1. Types' /\ Screen' /\ Followed' /\ Cleared'
  BY DEF Types, Screen, Followed, Cleared, IInv, input, ghost
<1>2. Safe'
  BY DEF Safe, IInv
<1>3. HistoryHolds' /\ Known'
  BY DEF HistoryHolds, Known, faithful, IInv, history, ghost
<1> QED BY <1>1, <1>2, <1>3 DEF IInv

LEMMA ArgKeeps ==
  ASSUME IInv, ParseArg
  PROVE  IInv'
<1>1. /\ pc = "parse" /\ parsed' = parsed + 1 /\ blocks' = blocks \cup {0, parsed'}
      /\ argv' = [argv EXCEPT ![argc] = parsed'] /\ argc' = (argc + 1) % ArgcValues
      /\ wrapped' = (wrapped \/ argc' = 0)
      /\ UNCHANGED <<terminal, input, history, pc, broken, ghost>>
  BY DEF ParseArg
<1>2. wrapped \in BOOLEAN /\ InSlots
  BY DEF IInv, Types
<1>3. wrapped' \in BOOLEAN
  BY <1>1, <1>2
<1>4. InSlots'
  <2>1. DOMAIN argv' = 0..ArgcValues-1
    BY <1>1, <1>2 DEF InSlots
  <2>2. ASSUME ~wrapped' PROVE Slots(parsed', argv', argc', blocks')
    <3>1. ~wrapped /\ argc' # 0
      BY <1>1, <2>2
    <3>2. Slots(parsed, argv, argc, blocks) /\ DOMAIN argv = 0..ArgcValues-1
      BY <1>1, <1>2, <3>1 DEF InSlots
    <3>3. /\ parsed \in Nat /\ argc = parsed /\ parsed < ArgcValues
          /\ \A i \in 0..parsed-1 : argv[i] = i + 1
          /\ blocks = IF parsed = 0 THEN {} ELSE 0..parsed
      BY <3>2 DEF Slots
    <3>4. argc' = parsed + 1 /\ parsed + 1 < ArgcValues
      BY <1>1, <3>1, <3>3, NextArg
    <3>5. ASSUME NEW i \in 0..parsed PROVE argv'[i] = i + 1
      <4>1. i \in DOMAIN argv
        BY <3>2, <3>3, Sizes
      <4>2. argv'[i] = IF i = parsed THEN parsed + 1 ELSE argv[i]
        BY <1>1, <3>3, <4>1
      <4> QED BY <3>3, <4>2
    <3>6. blocks' = 0..parsed + 1
      <4>1. CASE parsed = 0
        BY <1>1, <3>3, <4>1
      <4>2. CASE parsed # 0
        BY <1>1, <3>3, <4>2
      <4> QED BY <4>1, <4>2
    <3> DEFINE m == parsed + 1
    <3>7. m \in Nat /\ m # 0 /\ m - 1 = parsed /\ parsed' = m /\ argc' = m /\ m < ArgcValues
      BY <1>1, <3>3, <3>4
    <3>8. blocks' = 0..m /\ \A i \in 0..m-1 : argv'[i] = i + 1
      BY <3>5, <3>6, <3>7
    <3> HIDE DEF m
    <3>9. \A i \in 0..parsed'-1 : argv'[i] = i + 1
      BY <3>7, <3>8
    <3>10. blocks' = IF parsed' = 0 THEN {} ELSE 0..parsed'
      BY <3>7, <3>8
    <3> QED BY <3>7, <3>9, <3>10 DEF Slots
  <2>3. pc' # "key"
    BY <1>1
  <2> QED BY <2>1, <2>2, <2>3 DEF InSlots
<1> QED BY <1>1, <1>3, <1>4, ParseKeeps

LEMMA FailKeeps ==
  ASSUME IInv, ParseFails
  PROVE  IInv'
<1>1. /\ pc = "parse" /\ pc' = "fail"
      /\ UNCHANGED <<terminal, input, history, parsed, argv, argc, blocks, wrapped, broken, ghost>>
  BY DEF ParseFails
<1>2. wrapped' \in BOOLEAN
  BY <1>1 DEF IInv, Types
<1>3. InSlots'
  BY <1>1 DEF IInv, InSlots
<1> QED BY <1>1, <1>2, <1>3, ParseKeeps

LEMMA DoneKeeps ==
  ASSUME IInv, ParseDone
  PROVE  IInv'
<1>1. /\ pc = "parse" /\ pc' = "run"
      /\ input_buffer' = Empty /\ input_len' = 0 /\ input_pos' = 0
      /\ UNCHANGED <<terminal, history, parsed, argv, argc, blocks, wrapped, broken, ghost>>
  BY DEF ParseDone, clear_input_buffer
<1>2. Types' /\ Screen' /\ Followed' /\ Cleared'
  BY <1>1 DEF Types, Screen, Followed, Cleared, IInv, ghost, Empty
<1>3. Safe' /\ InSlots'
  BY <1>1 DEF Safe, IInv, InSlots
<1>4. HistoryHolds' /\ Known'
  BY <1>1 DEF HistoryHolds, Known, faithful, IInv, history, ghost
<1> QED BY <1>1, <1>2, <1>3, <1>4 DEF IInv

\* Back at the prompt, with nothing typed and nothing held.
LEMMA PromptKeeps ==
  ASSUME IInv, pc # "key", Finished, input_buffer' = Empty, input_len' = 0, input_pos' = 0
  PROVE  IInv'
<1>1. /\ pc' = "key" /\ blocks' = Freed /\ history_position' = 0
      /\ terminal' = terminal_shell_set(shell_scroll(terminal))
      /\ argv' = [i \in 0..ArgcValues-1 |-> 0]
      /\ line' = <<>> /\ recalled' = FALSE /\ astray' = 0
      /\ UNCHANGED <<previous_inputs_buffer, historybuffersize, history_current_size, wrapped,
                     broken, entered>>
  BY DEF Finished
<1>2. OnScreen(terminal') /\ terminal'.row = Height - 1 /\ PastPrompt(terminal') = 0
  <2>1. IsTerminal(terminal)
    BY DEF IInv, Screen
  <2>2. IsTerminal(shell_scroll(terminal))
    BY <2>1, Scrolls
  <2> QED BY <1>1, <2>2, Prompts
<1>3. Types' /\ Screen'
  BY <1>1, <1>2 DEF Types, Screen, IInv, Empty
<1>4. Followed'
  <2>1. terminal'.row < Height
    BY <1>2, Sizes
  <2>2. TypedIn(input_buffer', input_len', input_pos', line')
    BY <1>1, NothingTyped, Zenon
  <2> QED BY <1>1, <1>2, <2>1, <2>2 DEF Followed, InLine
<1>5. Safe' /\ Cleared' /\ Known'
  BY <1>1 DEF Safe, Cleared, Known, IInv, Types
<1>6. InSlots'
  <2>1. ASSUME ~wrapped PROVE Freed = {}
    <3>1. Slots(parsed, argv, argc, blocks)
      BY <2>1 DEF IInv, InSlots
    <3>2. /\ parsed \in Nat /\ argc = parsed /\ \A i \in 0..parsed-1 : argv[i] = i + 1
          /\ blocks = IF parsed = 0 THEN {} ELSE 0..parsed
      BY <3>1 DEF Slots
    <3>3. ASSUME NEW b \in blocks PROVE b \in {0} \cup {argv[i] : i \in 0..argc-1}
      <4>1. b \in 0..parsed
        BY <3>2
      <4>2. CASE b = 0
        BY <4>2
      <4>3. CASE b # 0
        <5>1. b - 1 \in 0..parsed-1 /\ b - 1 + 1 = b
          BY <3>2, <4>1, <4>3
        <5>2. argv[b-1] = b
          BY <3>2, <5>1
        <5> QED BY <3>2, <5>1, <5>2
      <4> QED BY <4>2, <4>3
    <3> QED BY <3>3 DEF Freed
  <2>2. DOMAIN argv' = 0..ArgcValues-1
    BY <1>1
  <2> QED BY <1>1, <2>1, <2>2 DEF InSlots
<1>7. HistoryHolds' /\ AtEntry'
  BY <1>1 DEF HistoryHolds, AtEntry, IInv
<1> QED BY <1>3, <1>4, <1>5, <1>6, <1>7 DEF IInv

LEMMA StepHolds == IInv /\ [Next]_vars => IInv'
<1> SUFFICES ASSUME IInv, [Next]_vars PROVE IInv'
  OBVIOUS
<1>1. ASSUME NEW c \in Chars, TypeKey(c) PROVE IInv'
  <2>1. Waiting
    BY <1>1 DEF TypeKey
  <2> QED BY <1>1, <2>1, TypeKeeps
<1>2. CASE BackspaceKey
  BY <1>2, BackspaceKeeps
<1>3. CASE LeftKey
  BY <1>3, LeftKeeps
<1>4. CASE RightKey
  BY <1>4, RightKeeps
<1>5. CASE UpKey
  BY <1>5, UpKeeps
<1>6. CASE DownKey
  BY <1>6, DownKeeps
<1>7. CASE EnterMoves
  BY <1>7, EnterMovesKeeps
<1>8. CASE EnterKey
  BY <1>8, EnterKeeps
<1>9. CASE ParseArg
  BY <1>9, ArgKeeps
<1>10. CASE ParseFails
  BY <1>10, FailKeeps
<1>11. CASE ParseDone
  BY <1>11, DoneKeeps
<1>12. CASE ParseFailed
  <2>1. /\ pc # "key" /\ Finished /\ input_buffer' = Empty /\ input_len' = 0 /\ input_pos' = 0
    BY <1>12 DEF ParseFailed, clear_input_buffer
  <2> QED BY <2>1, PromptKeeps
<1>13. CASE run_command
  <2>1. pc = "run" /\ Finished /\ UNCHANGED input
    BY <1>13 DEF run_command
  <2>2. input_buffer' = Empty /\ input_len' = 0 /\ input_pos' = 0
    BY <2>1 DEF IInv, Cleared, input
  <2> QED BY <2>1, <2>2, PromptKeeps
<1>14. CASE UNCHANGED vars
  BY <1>14 DEF vars, IInv, Types, Screen, Followed, InLine, InRecall, Safe, Cleared, InSlots,
               HistoryHolds, AtEntry, Known, faithful
<1> QED BY <1>1, <1>2, <1>3, <1>4, <1>5, <1>6, <1>7, <1>8, <1>9, <1>10, <1>11, <1>12, <1>13, <1>14
        DEF Next

-----------------------------------------------------------------------------
(* The theorems *)

\* Screen, buffer and history agree in every reachable state: what inputhandler.c
\* and writingmode.c never check and rely on.
THEOREM Invariance == Spec => []IInv
<1>1. Init => IInv
  BY InitHolds
<1>2. IInv /\ [Next]_vars => IInv'
  BY StepHolds
<1> QED BY <1>1, <1>2, PTL DEF Spec

\* What Enter runs is the line the user made, and nothing else is written
\* outside a buffer, whatever the sizes of screen and buffer (writingmode.c:13-28).
THEOREM LineIsKept == Spec => []LineKept
<1>1. IInv => LineKept
  <2> SUFFICES ASSUME IInv PROVE LineKept
    OBVIOUS
  <2>1. ASSUME faithful, pc = "key" PROVE Text = line
    <3>1. Text = TextIn(input_buffer)
      BY DEF Text, TextIn
    <3>2. CASE recalled
      BY <2>1, <3>1, <3>2 DEF IInv, Followed, InRecall
    <3>3. CASE ~recalled
      <4>1. TypedIn(input_buffer, input_len, input_pos, line)
        BY <2>1, <3>3 DEF IInv, Followed, InLine
      <4> QED BY <3>1, <4>1, TypedText
    <3> QED BY <3>2, <3>3
  <2> QED BY <2>1 DEF LineKept, IInv, Safe
<1> QED BY <1>1, Invariance, PTL

\* The cursor is where input_pos says, over wraps and scrolls of any screen
\* (tty.c:150-160, writingmode.c:34-52).
THEOREM CursorIsAtText == Spec => []CursorAtText
<1>1. IInv => CursorAtText
  <2> SUFFICES ASSUME IInv, faithful, pc = "key"
               PROVE  PastPrompt(terminal) = IF recalled THEN Len(line) ELSE input_pos
    BY DEF CursorAtText, PastPrompt
  <2> QED BY DEF IInv, Followed, InLine, InRecall
<1> QED BY <1>1, Invariance, PTL

\* What Up and Down bring back was entered, for a history of any length that
\* is moved along whole (inputhandler.c:41-82).
THEOREM RecallsAreWhole == Spec => []RecallsWhole
<1>1. IInv => RecallsWhole
  BY DEF IInv, Known, RecallsWhole
<1> QED BY <1>1, Invariance, PTL

\* No block of any number of arguments is left when the prompt is back, up to
\* the 256 that argc cannot count (inputhandler.c:106-178).
THEOREM ArgsAreFreed == Spec => []ArgsFreed
<1>1. IInv => ArgsFreed
  BY DEF IInv, InSlots, ArgsFreed
<1> QED BY <1>1, Invariance, PTL

-----------------------------------------------------------------------------
(* The shell's commands and the songs they play (Commands, Player) *)

CONSTANTS StemLength, ExtLength, Blank, MAX_PATH_DEPTH, Paths, FontData, Disk,
          PlayedNotes, Behind, MaxEntries, MaxOps
VARIABLES entries, wd, todo, cmd, made, panicked,
          orphans, odd, cut, safe, ops

C == INSTANCE Commands

\* What is counted in the instance is counted here.
LEMMA SameCard ==
  ASSUME NEW S
  PROVE  C!Cardinality(S) = Cardinality(S)
BY DEF C!Cardinality, Cardinality

LEMMA SameFin ==
  ASSUME NEW S
  PROVE  C!IsFiniteSet(S) <=> IsFiniteSet(S)
BY DEF C!IsFiniteSet, IsFiniteSet

\* The frequency that is heard for f.
HertzOf(f) == C!PIT_FREQUENCY \div C!Latch(C!PIT_FREQUENCY \div f)
Table == {33, 35, 37, 39, 41, 44, 46, 49, 52, 55, 58, 62, 65, 69, 73, 78, 82, 87,
          93, 98, 104, 110, 117, 123, 131, 139, 147, 156, 165, 175, 185, 196, 208,
          220, 233, 247, 262, 277, 294, 311, 330, 349, 370, 392, 415, 440, 466,
          494, 523, 554, 587, 622, 659, 698, 740, 784, 831, 880, 932, 988, 1047,
          1109, 1175, 1245, 1319, 1397, 1480, 1568, 1661, 1760, 1865, 1976}

\* The table has 72 frequencies.
LEMMA TableFrequencies == \A n \in DOMAIN C!note_table : C!note_table[n] \in Table
BY DEF C!note_table, Table

\* What the divisor without its bits gives is too high, but no further from the
\* frequency asked for than from the next one.
LEMMA NextIsFurther ==
  \A f \in Table : /\ C!Latch(C!PIT_FREQUENCY \div f) \in Nat \ {0}
                   /\ HertzOf(f) \in Nat /\ f <= HertzOf(f)
                   /\ \A g \in Table : g > f => 2 * HertzOf(f) <= f + g
BY DEF C!Latch, C!PIT_FREQUENCY, Table, HertzOf

\* A note sounds nearest to itself.
LEMMA NoteInTune ==
  ASSUME NEW n \in DOMAIN C!note_table, NEW ms
  PROVE  /\ C!InTune(C!play_sound(C!note_table[n], ms), n)
         /\ C!play_sound(C!note_table[n], ms).divisor \in Nat \ {0}
         /\ C!play_sound(C!note_table[n], ms).ms = ms
<1> DEFINE f == C!note_table[n]
<1>1. f \in Table
  BY TableFrequencies
<1>2. /\ C!play_sound(f, ms).divisor = C!Latch(C!PIT_FREQUENCY \div f)
      /\ C!play_sound(f, ms).ms = ms
  BY DEF C!play_sound, C!Sound
<1>3. C!play_sound(f, ms).divisor \in Nat \ {0}
  BY <1>1, <1>2, NextIsFurther
<1>4. ASSUME NEW other \in DOMAIN C!note_table
      PROVE  C!Abs(HertzOf(f) - f) <= C!Abs(HertzOf(f) - C!note_table[other])
  <2> DEFINE g == C!note_table[other]
  <2>1. g \in Table /\ \A x \in Table : x \in Nat
    BY TableFrequencies DEF Table
  <2>2. f \in Nat /\ g \in Nat /\ HertzOf(f) \in Nat /\ f <= HertzOf(f)
    BY <1>1, <2>1, NextIsFurther
  <2>3. g > f => 2 * HertzOf(f) <= f + g
    BY <1>1, <2>1, NextIsFurther
  <2> HIDE DEF f, g
  <2>4. C!Abs(HertzOf(f) - f) <= C!Abs(HertzOf(f) - g)
    BY <2>2, <2>3 DEF C!Abs
  <2> QED BY <2>4 DEF g
<1>5. C!PIT_FREQUENCY \div C!play_sound(f, ms).divisor = HertzOf(f)
  BY <1>2 DEF HertzOf
<1> HIDE DEF f
<1>6. C!InTune(C!play_sound(f, ms), n)
  BY <1>4, <1>5 DEF C!InTune, f
<1> QED BY <1>2, <1>3, <1>6 DEF f

-----------------------------------------------------------------------------
\* The length of a quarter, rounded down.
LEMMA QuarterIs ==
  ASSUME NEW b \in Nat \ {0}
  PROVE  /\ C!Div(60000, b) \in Nat
         /\ C!Div(60000, b) * b <= 60000 /\ 60000 < C!Div(60000, b) * b + b
<1>1. C!Div(60000, b) = 60000 \div b
  BY DEF C!Div, C!Abs
<1>2. PICK q \in Int : q = 60000 \div b
  OBVIOUS
<1>3. q \in Nat /\ q * b <= 60000 /\ 60000 < q * b + b
  BY <1>2
<1> QED BY <1>1, <1>2, <1>3

LEMMA Halves ==
  ASSUME NEW q \in Nat
  PROVE  /\ C!Div(q, 2) \in Nat /\ C!Div(q, 4) \in Nat
         /\ q = 2 * C!Div(q, 2) \/ q = 2 * C!Div(q, 2) + 1
         /\ \E r \in 0..3 : q = 4 * C!Div(q, 4) + r
<1>1. C!Div(q, 2) = q \div 2 /\ C!Div(q, 4) = q \div 4
  BY DEF C!Div, C!Abs
<1>2. PICK h \in Int, d \in Int : h = q \div 2 /\ d = q \div 4
  OBVIOUS
<1>3. h \in Nat /\ d \in Nat /\ (q = 2 * h \/ q = 2 * h + 1) /\ q - 4 * d \in 0..3
  BY <1>2
<1> QED BY <1>1, <1>2, <1>3

LEMMA Lengths == DOMAIN C!Sixteenths = {"W", "H", "Q", "E", "S"}
BY DEF C!Sixteenths

LEMMA TickIs == C!Tick = 1185
BY DEF C!Tick, C!Latch, C!PIT_FREQUENCY

\* A duration is in time, although each division has dropped its remainder.
LEMMA NoteInTime ==
  ASSUME NEW b \in Nat \ {0}, NEW word \in DOMAIN C!Sixteenths, NEW s,
         s.ms = C!note_dur(C!Div(60000, b), word)
  PROVE  s.ms \in Nat /\ C!InTime(s, b, word)
<1> DEFINE q == C!Div(60000, b)
<1>1. q \in Nat /\ q * b <= 60000 /\ 60000 < q * b + b
  BY QuarterIs
<1>2. PICK x \in Nat : x = q * b /\ x <= 60000 /\ 60000 < x + b
  BY <1>1
<1>3. C!InTime(s, b, word) <=>
        LET written == 15000 * C!Sixteenths[word] * 1193
        IN  C!Abs(s.ms * 1185 * b - written) <= 4 * 1193 * b + written \div 100
  BY TickIs DEF C!InTime
<1> HIDE DEF q
<1>4. CASE word = "W"
  <2>1. s.ms = q * 4 /\ C!Sixteenths[word] = 16
    BY <1>4 DEF C!note_dur, C!Sixteenths, q
  <2>2. s.ms * 1185 * b = 4740 * x
    BY <2>1, <1>1, <1>2
  <2> QED BY <1>1, <1>2, <1>3, <2>1, <2>2 DEF C!Abs
<1>5. CASE word = "H"
  <2>1. s.ms = q * 2 /\ C!Sixteenths[word] = 8
    BY <1>5 DEF C!note_dur, C!Sixteenths, q
  <2>2. s.ms * 1185 * b = 2370 * x
    BY <2>1, <1>1, <1>2
  <2> QED BY <1>1, <1>2, <1>3, <2>1, <2>2 DEF C!Abs
<1>6. CASE word = "Q"
  <2>1. s.ms = q /\ C!Sixteenths[word] = 4
    BY <1>6 DEF C!note_dur, C!Sixteenths, q
  <2>2. s.ms * 1185 * b = 1185 * x
    BY <2>1, <1>1, <1>2
  <2> QED BY <1>1, <1>2, <1>3, <2>1, <2>2 DEF C!Abs
<1>7. CASE word = "E"
  <2>1. s.ms = C!Div(q, 2) /\ C!Sixteenths[word] = 2
    BY <1>7 DEF C!note_dur, C!Sixteenths, q
  <2>2. s.ms \in Nat /\ (q = 2 * s.ms \/ q = 2 * s.ms + 1)
    BY <2>1, <1>1, Halves
  <2>3. PICK y \in Nat : y = s.ms * b
    BY <2>2
  <2>4. x = 2 * y \/ x = 2 * y + b
    BY <1>2, <2>2, <2>3
  <2>5. s.ms * 1185 * b = 1185 * y
    BY <2>2, <2>3
  <2> QED BY <1>2, <1>3, <2>1, <2>2, <2>3, <2>4, <2>5 DEF C!Abs
<1>8. CASE word = "S"
  <2>1. s.ms = C!Div(q, 4) /\ C!Sixteenths[word] = 1
    BY <1>8 DEF C!note_dur, C!Sixteenths, q
  <2>2. s.ms \in Nat /\ \E r \in 0..3 : q = 4 * s.ms + r
    BY <2>1, <1>1, Halves
  <2>3. PICK r \in 0..3 : q = 4 * s.ms + r
    BY <2>2
  <2>4. PICK y \in Nat : y = s.ms * b
    BY <2>2
  <2>5. x = 4 * y + r * b
    BY <1>2, <2>2, <2>3, <2>4
  <2>6. r * b \in Nat /\ r * b <= 3 * b
    <3>1. r = 0 \/ r = 1 \/ r = 2 \/ r = 3
      OBVIOUS
    <3> QED BY <3>1
  <2>7. s.ms * 1185 * b = 1185 * y
    BY <2>2, <2>4
  <2>8. 4 * y <= 60000 /\ 60000 < 4 * y + 4 * b
    BY <1>2, <2>5, <2>6, <2>4
  <2> QED BY <1>3, <2>1, <2>2, <2>4, <2>7, <2>8 DEF C!Abs
<1> QED BY <1>4, <1>5, <1>6, <1>7, <1>8, Lengths

\* Any other word is none.
LEMMA OtherLengths ==
  ASSUME NEW beat \in Int, NEW word
  PROVE  /\ C!note_dur(beat, word) \in Int
         /\ word \notin DOMAIN C!Sixteenths => C!note_dur(beat, word) = -1
BY Lengths DEF C!note_dur, C!Div, C!Abs

-----------------------------------------------------------------------------
\* play_song comes to its loop.
Begun(words) == words # <<>> /\ Len(words) % 2 = 0 /\ words[1] = "BPM"

\* As many notes are heard as come before the first that is none.
LEMMA NotesAre ==
  ASSUME NEW words \in Seq(STRING), Begun(words), NEW n \in Nat, n <= Len(words) \div 2 - 1,
         \A k \in 1..n : C!Proper(words, k),
         n = Len(words) \div 2 - 1 \/ ~C!Proper(words, n + 1)
  PROVE  C!Notes(words) = n
<1> DEFINE S == {m \in 0..Len(words) \div 2 - 1 : \A k \in 1..m : C!Proper(words, k)}
<1>1. Len(words) \in Nat /\ Len(words) \div 2 \in Int
  OBVIOUS
<1>2. C!Notes(words) = CHOOSE x \in S : \A y \in S : x >= y
  BY <1>1 DEF C!Notes, C!Max, Begun
<1>3. n \in S
  BY <1>1
<1>4. ASSUME NEW m \in S PROVE m <= n
  <2>1. m \in Nat /\ (m > n => n + 1 \in 1..m /\ m <= Len(words) \div 2 - 1)
    BY <1>1
  <2> QED BY <2>1, <1>1
<1>5. \A x \in S : (\A y \in S : x >= y) => x = n
  BY <1>1, <1>3, <1>4
<1>6. \A y \in S : n >= y
  BY <1>1, <1>4
<1> HIDE DEF S
<1> QED BY <1>2, <1>3, <1>5, <1>6

-----------------------------------------------------------------------------
\* Songs, and what is known while one is played: all notes before the next one
\* are notes, and were heard as they are written.
Songs == {words \in Seq(STRING) : Len(words) > 1 => words[2] \in DOMAIN str_to_int}
Sounds == [divisor : Int, ms : Int]

HeardRight(sound, words, k) ==
  /\ C!InTime(sound, str_to_int[words[2]], words[2 * k + 2])
  /\ words[2 * k + 1] = "REST" <=> sound.divisor = C!Silence
  /\ words[2 * k + 1] # "REST" => C!InTune(sound, words[2 * k + 1])

UpToNext(words, n, sounds) ==
  /\ Len(sounds) = n - 1 /\ n <= Len(words) \div 2
  /\ \A k \in 1..n-1 : C!Proper(words, k) /\ HeardRight(sounds[k], words, k)

AtNext ==
  tokens # <<>> => /\ song = tokens /\ tokens \in Songs /\ Begun(tokens)
                   /\ divided <=> str_to_int[song[2]] = 0
                   /\ next \in Nat \ {0} /\ heard \in Seq(Sounds)
                   /\ str_to_int[song[2]] > 0 => UpToNext(tokens, next, heard)

PlayOK == AtNext /\ (tokens = <<>> => ~divided) /\ C!PlaysAsWritten

\* A song that has begun has a tempo, and may have no note.
LEMMA BegunFacts ==
  ASSUME NEW words \in Songs, Begun(words), C!CommandsAssumption
  PROVE  /\ words \in Seq(STRING) /\ Len(words) \in Nat /\ Len(words) > 1
         /\ str_to_int[words[2]] \in Int
         /\ (Len(words) - 1) \div 2 = Len(words) \div 2 - 1
         /\ Len(words) \div 2 \in Nat \ {0} /\ words # <<>> /\ words[1] = "BPM"
<1>1. words \in Seq(STRING) /\ Len(words) \in Nat /\ words # <<>>
  BY DEF Songs, Begun
<1>2. Len(words) # 0
  BY <1>1, EmptySeq
<1>3. Len(words) % 2 = 0
  BY DEF Begun
<1>4. PICK n \in Nat : n = Len(words)
  BY <1>1
<1>5. n > 1 /\ (n - 1) \div 2 = n \div 2 - 1 /\ n \div 2 \in Nat \ {0}
  BY ONLY <1>2, <1>3, <1>4
<1>6. str_to_int[words[2]] \in Int
  BY <1>1, <1>4, <1>5 DEF Songs, C!CommandsAssumption
<1> QED BY <1>1, <1>4, <1>5, <1>6 DEF Begun

\* The song is over: what was heard are its notes.
LEMMA OverIsRight ==
  ASSUME NEW words \in Songs, Begun(words), C!CommandsAssumption, str_to_int[words[2]] > 0,
         NEW n \in Nat \ {0}, NEW sounds \in Seq(Sounds), UpToNext(words, n, sounds),
         n = Len(words) \div 2 \/ ~C!Proper(words, n)
  PROVE  /\ Len(sounds) = C!Notes(words)
         /\ \A k \in DOMAIN sounds : HeardRight(sounds[k], words, k)
<1>1. /\ words \in Seq(STRING) /\ Len(words) \div 2 \in Nat \ {0}
  BY BegunFacts
<1>2. PICK m \in Nat : m = n - 1 /\ n = m + 1
  OBVIOUS
<1>3. /\ Len(sounds) = m /\ m <= Len(words) \div 2 - 1
      /\ \A k \in 1..m : C!Proper(words, k) /\ HeardRight(sounds[k], words, k)
  BY <1>1, <1>2 DEF UpToNext
<1>4. m = Len(words) \div 2 - 1 \/ ~C!Proper(words, m + 1)
  BY <1>1, <1>2
<1>5. C!Notes(words) = m
  BY <1>1, <1>3, <1>4, NotesAre
<1>6. DOMAIN sounds = 1..m
  BY <1>3
<1> QED BY <1>3, <1>5, <1>6

\* The next note is one, and then it has a length; or it is none.
LEMMA NoteIs ==
  ASSUME NEW words \in Songs, Begun(words), C!CommandsAssumption, str_to_int[words[2]] > 0,
         NEW n, NEW dur, dur = C!note_dur(C!Beat(words), words[2 * n + 2])
  PROVE  /\ words[2 * n + 2] \in DOMAIN C!Sixteenths => dur \in Nat
         /\ words[2 * n + 2] \notin DOMAIN C!Sixteenths => dur = -1
         /\ dur # -1 => \A divisor : C!InTime(C!Sound(divisor, dur), str_to_int[words[2]], words[2 * n + 2])
<1> DEFINE b == str_to_int[words[2]]
<1>1. b \in Nat \ {0} /\ C!Beat(words) = C!Div(60000, b)
  BY BegunFacts DEF C!Beat
<1> HIDE DEF b
<1>2. C!Beat(words) \in Int
  BY <1>1, QuarterIs
<1>3. words[2 * n + 2] \notin DOMAIN C!Sixteenths => dur = -1
  BY <1>2, OtherLengths
<1>4. ASSUME words[2 * n + 2] \in DOMAIN C!Sixteenths, NEW divisor
      PROVE  dur \in Nat /\ C!InTime(C!Sound(divisor, dur), b, words[2 * n + 2])
  <2>1. C!Sound(divisor, dur).ms = dur
    BY DEF C!Sound
  <2> QED BY <2>1, <1>1, <1>4, NoteInTime
<1>5. words[2 * n + 2] \in DOMAIN C!Sixteenths => dur \in Nat
  BY <1>4
<1> QED BY <1>3, <1>4, <1>5 DEF b

-----------------------------------------------------------------------------
\* A word that is no note ends the song after what was heard.
LEMMA FailsKeeps ==
  ASSUME C!CommandsAssumption, PlayOK, C!SongFails
  PROVE  PlayOK'
<1> DEFINE words == tokens
<1>1. /\ tokens # <<>> /\ ~divided /\ song = words /\ words \in Songs /\ Begun(words)
      /\ next \in Nat \ {0} /\ heard \in Seq(Sounds)
      /\ str_to_int[words[2]] > 0 => UpToNext(words, next, heard)
  BY DEF PlayOK, AtNext, C!SongFails, C!Playing
<1>2. tokens' = <<>> /\ song' = song /\ heard' = heard /\ divided' = divided
  BY DEF C!SongFails
<1>3. words[1] = "BPM" /\ words # <<>>
  BY <1>1, BegunFacts
<1>4. ASSUME str_to_int[words[2]] > 0
      PROVE  /\ Len(heard) = C!Notes(words)
             /\ \A k \in DOMAIN heard : HeardRight(heard[k], words, k)
  <2>1. C!note_dur(C!Beat(words), words[2 * next + 2]) = -1 \/ words[2 * next + 1] \notin DOMAIN C!note_table \cup {"REST"}
    BY DEF C!SongFails, C!Duration, C!Note
  <2>2. C!note_dur(C!Beat(words), words[2 * next + 2]) = -1 => words[2 * next + 2] \notin DOMAIN C!Sixteenths
    BY <1>1, <1>4, NoteIs
  <2>3. ~C!Proper(words, next)
    BY <2>1, <2>2 DEF C!Proper
  <2> QED BY <1>1, <1>4, <2>3, OverIsRight
<1> HIDE DEF words
<1>5. C!PlaysAsWritten'
  BY <1>1, <1>2, <1>3, <1>4 DEF C!PlaysAsWritten, HeardRight
<1> QED BY <1>1, <1>2, <1>5 DEF PlayOK, AtNext

\* The song ends behind its last note.
LEMMA EndsKeeps ==
  ASSUME C!CommandsAssumption, PlayOK, C!SongEnds
  PROVE  PlayOK'
<1> DEFINE words == tokens
<1>1. /\ tokens # <<>> /\ ~divided /\ song = words /\ words \in Songs /\ Begun(words)
      /\ next \in Nat \ {0} /\ heard \in Seq(Sounds)
      /\ str_to_int[words[2]] > 0 => UpToNext(words, next, heard)
  BY DEF PlayOK, AtNext, C!SongEnds, C!Playing
<1>2. tokens' = <<>> /\ song' = song /\ heard' = heard /\ divided' = divided
  BY DEF C!SongEnds
<1>3. words[1] = "BPM" /\ words # <<>>
  BY <1>1, BegunFacts
<1>4. ASSUME str_to_int[words[2]] > 0
      PROVE  /\ Len(heard) = C!Notes(words)
             /\ \A k \in DOMAIN heard : HeardRight(heard[k], words, k)
  <2>1. ~(next <= (Len(words) - 1) \div 2)
    BY DEF C!SongEnds, C!More
  <2>2. (Len(words) - 1) \div 2 = Len(words) \div 2 - 1 /\ Len(words) \div 2 \in Nat \ {0}
    BY <1>1, BegunFacts
  <2>3. next <= Len(words) \div 2
    BY <1>1, <1>4 DEF UpToNext
  <2>4. next = Len(words) \div 2
    BY ONLY <1>1, <2>1, <2>2, <2>3
  <2> QED BY <1>1, <1>4, <2>4, OverIsRight
<1> HIDE DEF words
<1>5. C!PlaysAsWritten'
  BY <1>1, <1>2, <1>3, <1>4 DEF C!PlaysAsWritten, HeardRight
<1> QED BY <1>1, <1>2, <1>5 DEF PlayOK, AtNext

\* One more note is heard as it is written.
LEMMA NoteKeeps ==
  ASSUME C!CommandsAssumption, PlayOK, C!PlayNote
  PROVE  PlayOK'
<1> DEFINE words == tokens
           dur == C!note_dur(C!Beat(words), words[2 * next + 2])
           note == words[2 * next + 1]
<1>1. /\ tokens # <<>> /\ ~divided /\ song = words /\ words \in Songs /\ Begun(words)
      /\ next \in Nat \ {0} /\ heard \in Seq(Sounds)
      /\ divided <=> str_to_int[words[2]] = 0
      /\ str_to_int[words[2]] > 0 => UpToNext(words, next, heard)
  BY DEF PlayOK, AtNext, C!PlayNote, C!Playing
<1>2. tokens' = words /\ song' = song /\ divided' = divided /\ next' = next + 1
  BY DEF C!PlayNote
<1>3. /\ words[1] = "BPM" /\ words # <<>> /\ str_to_int[words[2]] \in Int
      /\ (Len(words) - 1) \div 2 = Len(words) \div 2 - 1 /\ Len(words) \div 2 \in Nat \ {0}
  BY <1>1, BegunFacts
<1>4. dur # -1 /\ next <= (Len(words) - 1) \div 2
  BY DEF C!PlayNote, C!Duration, C!More
<1>5. C!Beat(words) \in Int
  BY <1>1, <1>3 DEF C!Beat, C!Div, C!Abs
<1>6. PICK sound : /\ heard' = Append(heard, sound)
                   /\ \/ note \in DOMAIN C!note_table /\ sound = C!play_sound(C!note_table[note], dur)
                      \/ note = "REST" /\ sound = C!Sound(C!Silence, dur)
  BY DEF C!PlayNote, C!Hears, C!Duration, C!Note
<1>7. dur \in Int
  BY <1>5, OtherLengths
<1> HIDE DEF words, note, dur
<1>8. \E divisor : sound = C!Sound(divisor, dur)
  BY <1>6 DEF C!play_sound
<1>9. sound \in Sounds /\ (note = "REST" <=> sound.divisor = C!Silence)
                       /\ (note # "REST" => note \in DOMAIN C!note_table /\ C!InTune(sound, note))
  <2>1. "REST" \notin DOMAIN C!note_table
    BY DEF C!note_table
  <2>2. CASE note \in DOMAIN C!note_table /\ sound = C!play_sound(C!note_table[note], dur)
    <3>1. C!InTune(sound, note) /\ sound.divisor \in Nat \ {0} /\ sound.ms = dur
      BY <2>2, NoteInTune
    <3> QED BY <2>1, <2>2, <3>1, <1>7, <1>8 DEF Sounds, C!Sound, C!Silence
  <2>3. CASE note = "REST" /\ sound = C!Sound(C!Silence, dur)
    BY <2>3, <1>7 DEF Sounds, C!Sound, C!Silence
  <2> QED BY <1>6, <2>2, <2>3
<1>10. heard' \in Seq(Sounds)
  BY <1>1, <1>6, <1>9
<1>11. ASSUME str_to_int[words[2]] > 0 PROVE UpToNext(words, next + 1, heard')
  <2>1. /\ Len(heard) = next - 1 /\ next <= Len(words) \div 2
        /\ \A k \in 1..next-1 : C!Proper(words, k) /\ HeardRight(heard[k], words, k)
    BY <1>1, <1>11 DEF UpToNext
  <2>2. /\ Len(heard') = next /\ heard'[next] = sound
        /\ \A k \in 1..next-1 : heard'[k] = heard[k]
    BY <1>1, <1>6, <1>9, <2>1
  <2>3. words[2 * next + 2] \in DOMAIN C!Sixteenths /\ C!InTime(sound, str_to_int[words[2]], words[2 * next + 2])
    <3>1. PICK divisor : sound = C!Sound(divisor, dur)
      BY <1>8
    <3>2. dur = C!note_dur(C!Beat(words), words[2 * next + 2])
      BY DEF dur
    <3> HIDE DEF dur
    <3> QED BY <1>1, <1>4, <1>11, <3>1, <3>2, NoteIs
  <2>4. C!Proper(words, next)
    BY <1>9, <2>3 DEF C!Proper, note
  <2>5. HeardRight(sound, words, next)
    BY <1>9, <2>3 DEF HeardRight, note
  <2>6. \A k \in 1..(next+1)-1 : k \in 1..next-1 \/ k = next
    BY <1>1
  <2>7. next + 1 - 1 = next /\ next + 1 <= Len(words) \div 2
    BY <1>1, <1>3, <1>4
  <2> QED BY <2>1, <2>2, <2>4, <2>5, <2>6, <2>7 DEF UpToNext
<1>12. AtNext'
  BY <1>1, <1>2, <1>10, <1>11 DEF AtNext
<1>13. C!PlaysAsWritten'
  BY <1>1, <1>2, <1>3 DEF C!PlaysAsWritten
<1> QED BY <1>1, <1>2, <1>12, <1>13 DEF PlayOK

\* What is not a song has no notes.
LEMMA NoNotes ==
  ASSUME NEW words, ~Begun(words), words = <<>> \/ Len(words) \in Nat
  PROVE  C!Notes(words) = 0
<1>1. words # <<>> => Len(words) % 2 = 0 \/ Len(words) % 2 = 1
  OBVIOUS
<1> QED BY <1>1 DEF C!Notes, Begun

\* A song begins, or is refused.
LEMMA StartKeeps ==
  ASSUME C!CommandsAssumption, NEW words \in Songs, C!play_song(words)
  PROVE  PlayOK'
<1>1. /\ song' = words /\ heard' = <<>> /\ next' = 1
      /\ tokens' = IF Begun(words) THEN words ELSE <<>>
      /\ divided' = (Begun(words) /\ str_to_int[words[2]] = 0)
  BY DEF C!play_song, Begun
<1>2. words \in Seq(STRING) /\ Len(words) \in Nat
  BY DEF Songs
<1>3. CASE Begun(words)
  <2>1. Len(words) \div 2 \in Nat \ {0} /\ words # <<>> /\ words[1] = "BPM" /\ str_to_int[words[2]] \in Int
    BY <1>3, BegunFacts
  <2>2. heard' \in Seq(Sounds) /\ Len(heard') = 0 /\ tokens' = words
    BY <1>1, <1>3
  <2>6. divided' <=> str_to_int[words[2]] = 0
    BY <1>1, <1>3
  <2>3. UpToNext(words, 1, heard')
    BY <2>1, <2>2 DEF UpToNext
  <2>4. AtNext'
    BY <1>1, <1>3, <2>1, <2>2, <2>3, <2>6 DEF AtNext
  <2>5. C!PlaysAsWritten'
    BY <1>1, <2>1, <2>2, <2>6 DEF C!PlaysAsWritten
  <2> QED BY <1>1, <1>3, <2>1, <2>4, <2>5 DEF PlayOK
<1>4. CASE ~Begun(words)
  <2>1. C!Notes(words) = 0
    BY <1>2, <1>4, NoNotes
  <2>2. ~divided' /\ tokens' = <<>>
    BY <1>1, <1>4
  <2>3. C!PlaysAsWritten'
    BY <1>1, <2>1, <2>2 DEF C!PlaysAsWritten
  <2> QED BY <2>2, <2>3 DEF PlayOK, AtNext
<1> QED BY <1>3, <1>4

\* Silence is right.
LEMMA QuietKeeps ==
  ASSUME C!Quiet
  PROVE  PlayOK'
<1>1. C!Notes(<<>>) = 0
  BY NoNotes DEF Begun
<1> QED BY <1>1 DEF C!Quiet, PlayOK, AtNext, C!PlaysAsWritten

\* play gives the one note it was given, or none.
LEMMA OneNoteKeeps ==
  ASSUME PlayOK, tokens = <<>>, NEW note, NEW word, C!cmd_play_note(note, word)
  PROVE  PlayOK'
<1>1. ~divided' /\ tokens' = <<>> /\ song' = <<"play", note, word>>
  BY DEF PlayOK, C!cmd_play_note
<1>2. Len(song') = 3 /\ song'[1] = "play" /\ song'[2] = note
  BY <1>1
<1>3. C!Notes(song') = 0
  BY <1>2, NoNotes DEF Begun
<1>4. heard' # <<>> => C!InTune(heard'[1], note)
  BY NoteInTune DEF C!cmd_play_note
<1> QED BY <1>1, <1>2, <1>3, <1>4 DEF PlayOK, AtNext, C!PlaysAsWritten

-----------------------------------------------------------------------------
\* The songs on the disk stay what they are; a file is only made as the last
\* call of a command, and then there is room for it.
EntryOK(e) ==
  /\ e \in [id : Nat, dir : {e.dir}, name : {e.name}, kind : {e.kind}, holds : {e.holds}]
  /\ e.kind = "song" => e.holds \in Songs
EntriesOK == IsFiniteSet(entries) /\ \A e \in entries : EntryOK(e)

MadeLast ==
  /\ \E T : todo \in Seq(T)
  /\ \A i \in 1..Len(todo) : todo[i].f = "create" =>
       i = Len(todo) /\ Cardinality(entries) < MaxEntries

CommandsOK == EntriesOK /\ MadeLast /\ PlayOK

Waited(u, a, t, i) == \E j \in 2..Len(t) : u[i] = t[j] /\ (j = Len(t) => i = Len(u))
Pushed(u, a, t) == \A i \in 1..Len(u) : (i \in 1..Len(a) /\ u[i] = a[i]) \/ Waited(u, a, t, i)

\* What waits is one of the new calls, or waited before behind the first.
LEMMA PushedCalls ==
  ASSUME NEW S, NEW a \in Seq(S), NEW T, NEW t \in Seq(T), t # <<>>, NEW u, u = a \o Tail(t)
  PROVE  u \in Seq(S \cup T) /\ Len(u) \in Nat /\ Pushed(u, a, t)
<1>1. Len(a) \in Nat /\ Len(t) \in Nat \ {0}
  BY EmptySeq
<1>2. Tail(t) \in Seq(T) /\ Len(Tail(t)) = Len(t) - 1 /\ \A i \in 1..Len(t)-1 : Tail(t)[i] = t[i+1]
  BY <1>1
<1>3. a \in Seq(S \cup T) /\ Tail(t) \in Seq(S \cup T)
  BY <1>2
<1>4. /\ u \in Seq(S \cup T) /\ Len(u) = Len(a) + Len(t) - 1
      /\ \A i \in 1..Len(u) : u[i] = IF i <= Len(a) THEN a[i] ELSE Tail(t)[i - Len(a)]
  BY <1>1, <1>2, <1>3, ConcatProperties
<1>5. ASSUME NEW i \in 1..Len(u), i > Len(a)
      PROVE  Waited(u, a, t, i)
  <2>1. PICK k \in Nat : k + Len(a) = i
    <3>1. i \in Nat /\ Len(a) \in Nat /\ i > Len(a)
      BY <1>1, <1>4, <1>5
    <3>2. i - Len(a) \in Nat /\ (i - Len(a)) + Len(a) = i
      BY ONLY <3>1
    <3> QED BY ONLY <3>2
  <2>2. k \in 1..Len(t)-1 /\ k + 1 \in 2..Len(t) /\ k = i - Len(a)
    BY <2>1, <1>1, <1>4, <1>5
  <2>3. u[i] = t[k+1]
    BY <2>2, <1>2, <1>4, <1>5
  <2>4. k + 1 = Len(t) => i = Len(u)
    BY <2>1, <1>1, <1>4
  <2>5. k + 1 \in 2..Len(t)
    BY <2>2
  <2>6. \E j \in 2..Len(t) : j = k + 1
    BY <2>5
  <2> QED BY <2>3, <2>4, <2>6 DEF Waited
<1>6. ASSUME NEW i \in 1..Len(u), i <= Len(a)
      PROVE  i \in 1..Len(a) /\ u[i] = a[i]
  BY <1>1, <1>4, <1>6
<1>7. \A i \in 1..Len(u) : i <= Len(a) \/ i > Len(a)
  BY <1>1, <1>4
<1>8. Pushed(u, a, t)
  BY <1>5, <1>6, <1>7 DEF Pushed
<1> QED BY <1>1, <1>4, <1>8

\* A call replaced by others that make nothing.
LEMMA PushKeeps ==
  ASSUME MadeLast, todo # <<>>, NEW S, NEW a \in Seq(S), \A i \in 1..Len(a) : a[i].f # "create",
         todo' = a \o Tail(todo), Cardinality(entries') <= Cardinality(entries),
         Cardinality(entries) \in Nat, Cardinality(entries') \in Nat, MaxEntries \in Nat
  PROVE  MadeLast'
<1>1. PICK T : todo \in Seq(T)
  BY DEF MadeLast
<1>2. todo' \in Seq(S \cup T) /\ Pushed(todo', a, todo)
  <2>1. a \in Seq(S) /\ todo \in Seq(T) /\ todo # <<>> /\ todo' = a \o Tail(todo)
    BY <1>1
  <2> QED BY ONLY <2>1, PushedCalls
<1>3. ASSUME NEW i \in 1..Len(todo'), todo'[i].f = "create"
      PROVE  i = Len(todo') /\ Cardinality(entries') < MaxEntries
  <2>1. PICK j \in 2..Len(todo) : todo'[i] = todo[j] /\ (j = Len(todo) => i = Len(todo'))
    BY <1>2, <1>3 DEF Pushed, Waited
  <2>2. j \in 1..Len(todo)
    BY <1>1
  <2>3. j = Len(todo) /\ Cardinality(entries) < MaxEntries
    BY <1>3, <2>1, <2>2 DEF MadeLast
  <2> QED BY <2>1, <2>3
<1> QED BY <1>2, <1>3 DEF MadeLast

\* What is found is an entry, or None.
LEMMA FoundIs ==
  ASSUME EntriesOK, NEW w, NEW path, NEW behind
  PROVE  \/ C!Located(entries, w, path, behind) \in entries
         \/ C!Located(entries, w, path, behind) = C!None
<1> DEFINE d == C!Destination(entries, C!DirectoryOf(w, path))
           f == C!plaintext_to_filename(C!Last(path.comps), behind)
           hits == {e \in entries : d # -1 /\ e.dir = d /\ e.name = f}
<1>1. C!Located(entries, w, path, behind)
        = IF hits = {} THEN C!None ELSE CHOOSE e \in hits : \A o \in hits : e.id <= o.id
  BY DEF C!Located
<1>2. hits \subseteq entries
  OBVIOUS
<1> HIDE DEF hits
<1>3. ASSUME hits # {} PROVE \E e \in hits : \A o \in hits : e.id <= o.id
  <2> DEFINE ids == {e.id : e \in hits}
  <2>1. ids \in SUBSET Nat /\ ids # {}
    BY <1>2, <1>3 DEF EntriesOK, EntryOK
  <2>2. PICK x \in ids : \A y \in ids : x <= y
    BY <2>1, LeastNat
  <2> QED BY <2>2
<1> QED BY <1>1, <1>2, <1>3

\* There is an id for a new entry.
LEMMA RoomForId ==
  ASSUME EntriesOK, C!CommandsAssumption, Cardinality(entries) < MaxEntries
  PROVE  C!Min(1..MaxEntries \ {e.id : e \in entries}) \in Nat
<1> DEFINE ids == {e.id : e \in entries}
           S == 1..MaxEntries \ ids
<1>1. MaxEntries \in Nat /\ IsFiniteSet(entries) /\ Cardinality(entries) \in Nat
  BY FS_CardinalityType DEF EntriesOK, C!CommandsAssumption
<1>2. IsFiniteSet(ids) /\ Cardinality(ids) <= Cardinality(entries)
  <2> DEFINE f == [e \in entries |-> e.id]
  <2>1. f \in [entries -> ids] /\ \A y \in ids : \E e \in entries : f[e] = y
    OBVIOUS
  <2>2. f \in Surjection(entries, ids)
    BY <2>1 DEF Surjection
  <2> QED BY <1>1, <2>2, FS_Surjection
<1>3. S # {}
  <2> SUFFICES ASSUME S = {} PROVE FALSE
    OBVIOUS
  <2>1. 1..MaxEntries \subseteq ids
    OBVIOUS
  <2>2. Cardinality(1..MaxEntries) = MaxEntries
    <3>1. 1 \in Int /\ MaxEntries \in Int /\ MaxEntries \in Nat
      BY <1>1
    <3>2. Cardinality(1..MaxEntries) = IF 1 > MaxEntries THEN 0 ELSE MaxEntries - 1 + 1
      BY ONLY <3>1, FS_Interval
    <3> QED BY ONLY <3>1, <3>2
  <2>3. Cardinality(1..MaxEntries) <= Cardinality(ids)
    BY <1>2, <2>1, FS_Subset
  <2>4. Cardinality(ids) \in Nat
    BY <1>2, FS_CardinalityType
  <2> HIDE DEF ids
  <2> QED BY <1>1, <1>2, <2>2, <2>3, <2>4
<1>4. S \in SUBSET Nat
  OBVIOUS
<1> HIDE DEF S
<1>5. PICK x \in S : \A y \in S : x <= y
  BY <1>3, <1>4, LeastNat
<1>6. C!Min(S) \in S
  BY <1>5 DEF C!Min
<1> QED BY <1>4, <1>6 DEF S

LEMMA Counts ==
  ASSUME EntriesOK, C!CommandsAssumption
  PROVE  Cardinality(entries) \in Nat /\ MaxEntries \in Nat
BY FS_CardinalityType DEF EntriesOK, C!CommandsAssumption

\* Fewer entries are entries.
LEMMA FewerKeeps ==
  ASSUME EntriesOK, entries' \subseteq entries
  PROVE  EntriesOK' /\ Cardinality(entries') <= Cardinality(entries) /\ Cardinality(entries') \in Nat
<1>1. IsFiniteSet(entries') /\ Cardinality(entries') <= Cardinality(entries)
  BY FS_Subset DEF EntriesOK
<1> QED BY <1>1, FS_CardinalityType DEF EntriesOK

\* One more entry, which is one.
LEMMA OneMoreKeeps ==
  ASSUME EntriesOK, NEW es \in SUBSET entries, NEW e, EntryOK(e), entries' = es \cup {e}
  PROVE  EntriesOK'
<1>1. IsFiniteSet(es)
  BY FS_Subset DEF EntriesOK
<1>2. IsFiniteSet(entries')
  BY <1>1, FS_AddElement
<1> QED BY <1>2 DEF EntriesOK

LEMMA PlayerStays ==
  ASSUME PlayOK, UNCHANGED C!player
  PROVE  PlayOK'
BY DEF PlayOK, AtNext, C!PlaysAsWritten, C!player

\* The directories in a directory are listed one by one.
LEMMA ByIdIs ==
  ASSUME NEW es, IsFiniteSet(es)
  PROVE  Cardinality(es) \in Nat /\ DOMAIN C!ById(es) = 1..Cardinality(es)
<1>1. C!Cardinality(es) = Cardinality(es)
  BY SameCard
<1>2. Cardinality(es) \in Nat
  BY FS_CardinalityType
<1>3. DOMAIN C!ById(es) = 1..C!Cardinality(es)
  BY DEF C!ById
<1> QED BY <1>1, <1>2, <1>3

\* delete_file puts the calls for what is inside before it.
LEMMA DeleteKeeps ==
  ASSUME C!CommandsAssumption, CommandsOK, C!DoDelete
  PROVE  CommandsOK'
<1>1. todo # <<>> /\ entries' = entries /\ UNCHANGED C!player
  BY DEF C!DoDelete, C!Running
<1>2. PICK behind \in Behind :
        LET path == Head(todo).path
            e == C!Find(path, behind)
            list == C!ById({o \in entries : e.kind = "dir" /\ o.dir = e.id})
        IN  C!Becomes(IF e = C!None THEN <<>>
                      ELSE [n \in DOMAIN list |-> C!Delete(C!Inside(path, list[n].name))] \o <<C!Mark(e.id)>>)
  BY DEF C!DoDelete
<1> DEFINE path == Head(todo).path
           e == C!Find(path, behind)
           es == {o \in entries : e.kind = "dir" /\ o.dir = e.id}
           list == C!ById(es)
           dels == [n \in DOMAIN list |-> C!Delete(C!Inside(path, list[n].name))]
           D == {C!Delete(C!Inside(path, list[n].name)) : n \in DOMAIN list} \cup {C!Mark(e.id)}
           calls == IF e = C!None THEN <<>> ELSE dels \o <<C!Mark(e.id)>>
<1>3. todo' = calls \o Tail(todo)
  BY <1>2 DEF C!Becomes
<1> HIDE DEF path, e
<1>4. IsFiniteSet(es)
  <2>1. IsFiniteSet(entries) /\ es \subseteq entries
    BY DEF CommandsOK, EntriesOK
  <2> QED BY <2>1, FS_Subset
<1> HIDE DEF es
<1>5. Cardinality(es) \in Nat /\ DOMAIN list = 1..Cardinality(es)
  BY <1>4, ByIdIs
<1> HIDE DEF list
<1>6. \A x \in D : x.f # "create"
  BY DEF C!Mark, C!Delete
<1>7. dels \in Seq(D) /\ <<C!Mark(e.id)>> \in Seq(D)
  <2>1. PICK N \in Nat : DOMAIN list = 1..N
    BY <1>5
  <2>2. dels \in [1..N -> D] /\ C!Mark(e.id) \in D
    BY <2>1
  <2> HIDE DEF dels, D
  <2>3. dels \in Seq(D)
    BY ONLY <2>2, N \in Nat, SeqDef
  <2> QED BY <2>2, <2>3
<1>8. calls \in Seq(D)
  <2> HIDE DEF dels, D
  <2> QED BY <1>7
<1> HIDE DEF calls, D
<1>9. \A i \in 1..Len(calls) : calls[i].f # "create"
  BY <1>6, <1>8
<1>10. EntriesOK' /\ Cardinality(entries') <= Cardinality(entries) /\ Cardinality(entries') \in Nat
  BY <1>1, FewerKeeps DEF CommandsOK
<1>11. MadeLast'
  <2>1. MadeLast /\ Cardinality(entries) \in Nat /\ MaxEntries \in Nat
    BY Counts DEF CommandsOK
  <2> QED BY ONLY <2>1, <1>1, <1>3, <1>8, <1>9, <1>10, PushKeeps
<1> QED BY <1>1, <1>10, <1>11, PlayerStays DEF CommandsOK

\* Marking an entry takes entries away.
LEMMA MarkKeeps ==
  ASSUME C!CommandsAssumption, CommandsOK, C!DoMark
  PROVE  CommandsOK'
<1>1. /\ todo # <<>> /\ todo' = <<>> \o Tail(todo) /\ UNCHANGED C!player
      /\ entries' = C!Unmarked(Head(todo).id) \ C!Under(Head(todo).id)
  BY DEF C!DoMark, C!Running, C!Becomes
<1>2. entries' \subseteq entries
  BY <1>1 DEF C!Unmarked
<1>3. <<>> \in Seq({}) /\ Len(<<>>) = 0
  OBVIOUS
<1>4. EntriesOK' /\ Cardinality(entries') <= Cardinality(entries) /\ Cardinality(entries') \in Nat
  BY <1>2, FewerKeeps DEF CommandsOK
<1>5. \A i \in 1..Len(<<>>) : <<>>[i].f # "create"
  BY <1>3
<1>6. MadeLast'
  BY <1>1, <1>3, <1>4, <1>5, Counts, PushKeeps DEF CommandsOK
<1> QED BY <1>1, <1>4, <1>6, PlayerStays DEF CommandsOK

\* What is made is the last call's, so there was room for it.
LEMMA CreateKeeps ==
  ASSUME C!CommandsAssumption, CommandsOK, C!DoCreate
  PROVE  CommandsOK'
<1>1. todo # <<>> /\ Head(todo).f = "create" /\ todo' = <<>> \o Tail(todo) /\ UNCHANGED C!player
  BY DEF C!DoCreate, C!Running, C!Becomes
<1>2. PICK T : todo \in Seq(T)
  BY DEF CommandsOK, MadeLast
<1>3. Len(todo) = 1 /\ Cardinality(entries) < MaxEntries
  <2>1. Len(todo) \in Nat /\ Len(todo) # 0
    BY <1>1, <1>2, EmptySeq
  <2>2. 1 \in 1..Len(todo) /\ todo[1].f = "create"
    BY <1>1, <1>2, <2>1 DEF Head
  <2> QED BY <2>2 DEF CommandsOK, MadeLast
<1>4. todo' = <<>>
  BY <1>1, <1>2, <1>3
<1>5. \/ entries' = entries
      \/ \E name, d, kind :
           entries' = entries \cup {[id |-> C!Min(1..MaxEntries \ {e.id : e \in entries}), dir |-> d,
                                     name |-> name, kind |-> kind, holds |-> <<>>]}
  BY DEF C!DoCreate
<1>6. EntriesOK'
  <2>1. CASE entries' = entries
    BY <2>1, FewerKeeps DEF CommandsOK
  <2>2. CASE entries' # entries
    <3> DEFINE n == C!Min(1..MaxEntries \ {e.id : e \in entries})
    <3>1. PICK name, d, kind :
            entries' = entries \cup {[id |-> n, dir |-> d, name |-> name, kind |-> kind, holds |-> <<>>]}
      BY <1>5, <2>2
    <3>2. n \in Nat
      BY <1>3, RoomForId DEF CommandsOK
    <3> HIDE DEF n
    <3>3. <<>> \in Songs
      BY DEF Songs
    <3>4. EntryOK([id |-> n, dir |-> d, name |-> name, kind |-> kind, holds |-> <<>>])
      BY <3>2, <3>3 DEF EntryOK
    <3> QED BY <3>1, <3>4, OneMoreKeeps DEF CommandsOK
  <2> QED BY <2>1, <2>2
<1>7. MadeLast'
  BY <1>4 DEF MadeLast
<1> QED BY <1>1, <1>6, <1>7, PlayerStays DEF CommandsOK

\* What is there is deleted first, if anything is there.
Makes(calls, first, path, kind) ==
  first \in {<<>>, <<C!Delete(path)>>} /\ calls = first \o <<C!Create(path, kind)>>

\* Nothing waits, or something is deleted and something made.
LEMMA GivenKeeps ==
  ASSUME C!CommandsAssumption, CommandsOK, entries' = entries, C!Quiet,
         \/ todo' = <<>>
         \/ \E p : todo' = <<C!Delete(p)>>
         \/ /\ Cardinality(entries) < MaxEntries
            /\ \E a, p, kind : Makes(todo', a, p, kind)
  PROVE  CommandsOK'
<1>1. EntriesOK'
  BY FewerKeeps DEF CommandsOK
<1>2. CASE todo' = <<>>
  BY <1>1, <1>2, QuietKeeps DEF CommandsOK, MadeLast
<1>3. CASE \E p : todo' = <<C!Delete(p)>>
  <2>1. PICK p : todo' = <<C!Delete(p)>>
    BY <1>3
  <2>2. todo' \in Seq({C!Delete(p)}) /\ Len(todo') = 1 /\ todo'[1].f # "create"
    BY <2>1 DEF C!Delete
  <2>3. MadeLast'
    BY <2>2 DEF MadeLast
  <2> QED BY <1>1, <2>3, QuietKeeps DEF CommandsOK
<1>4. CASE /\ Cardinality(entries) < MaxEntries
           /\ \E a, p, kind : Makes(todo', a, p, kind)
  <2>1. PICK a, p, kind : Makes(todo', a, p, kind)
    BY <1>4
  <2>2. C!Delete(p).f # "create"
    BY DEF C!Delete
  <2> DEFINE del == C!Delete(p)
             new == C!Create(p, kind)
  <2> HIDE DEF del, new
  <2>3. todo' = <<new>> \/ todo' = <<del, new>>
    <3>1. a = <<>> \/ a = <<del>>
      BY <2>1 DEF del, Makes
    <3>2. todo' = a \o <<new>>
      BY <2>1 DEF new, Makes
    <3>3. CASE a = <<>>
      BY ONLY <3>2, <3>3
    <3>4. CASE a = <<del>>
      <4>1. todo' = <<del>> \o <<new>>
        BY <3>2, <3>4
      <4>2. <<del>> \in Seq({del, new}) /\ <<new>> \in Seq({del, new}) /\ Len(<<del>>) = 1 /\ Len(<<new>>) = 1
        OBVIOUS
      <4>3. /\ todo' \in Seq({del, new}) /\ Len(todo') = 2
            /\ todo'[1] = del /\ todo'[2] = new
        BY ONLY <4>1, <4>2
      <4> QED BY ONLY <4>3
    <3> QED BY <3>1, <3>3, <3>4
  <2>4. todo' \in Seq({del, new}) /\ \A i \in 1..Len(todo') : todo'[i].f = "create" => i = Len(todo')
    <3>1. CASE todo' = <<new>>
      BY <3>1
    <3>2. CASE todo' = <<del, new>>
      BY <3>2, <2>2 DEF del
    <3> QED BY <2>3, <3>1, <3>2
  <2>5. MadeLast'
    BY <1>4, <2>4 DEF MadeLast
  <2> QED BY <1>1, <2>5, QuietKeeps DEF CommandsOK
<1> QED BY <1>2, <1>3, <1>4

\* touch and mkdir delete first, and make last.
LEMMA TouchKeeps ==
  ASSUME C!CommandsAssumption, CommandsOK, NEW path, NEW kind, C!create_file(path, kind)
  PROVE  CommandsOK'
<1>1. entries' = entries /\ C!Quiet /\ C!Cardinality(entries) < MaxEntries
  BY DEF C!create_file, C!Changes
<1>2. Cardinality(entries) < MaxEntries
  BY <1>1, SameCard
<1>3. PICK behind \in Behind :
        todo' = (IF C!Find(path, behind) = C!None THEN <<>> ELSE <<C!Delete(path)>>) \o <<C!Create(path, kind)>>
  BY DEF C!create_file
<1>4. \E first : Makes(todo', first, path, kind)
  BY <1>3 DEF Makes
<1> QED BY <1>1, <1>2, <1>4, GivenKeeps

\* rm only deletes.
LEMMA RmKeeps ==
  ASSUME C!CommandsAssumption, CommandsOK, NEW path, C!cmd_rm(path) \/ C!cmd_rm_r(path)
  PROVE  CommandsOK'
<1>1. entries' = entries /\ C!Quiet
  BY DEF C!cmd_rm, C!cmd_rm_r, C!Changes
<1>2. todo' = <<>> \/ \E p : todo' = <<C!Delete(p)>>
  BY DEF C!cmd_rm, C!cmd_rm_r
<1> QED BY <1>1, <1>2, GivenKeeps

\* Nothing waits, whether or not the entries are others.
LEMMA IdleKeeps ==
  ASSUME EntriesOK', todo = <<>>, todo' = todo, PlayOK'
  PROVE  CommandsOK'
BY DEF CommandsOK, MadeLast

LEMMA CdKeeps ==
  ASSUME CommandsOK, NEW path, C!cmd_cd(path)
  PROVE  CommandsOK'
<1>1. entries' = entries /\ todo = <<>> /\ todo' = todo /\ C!Quiet
  BY DEF C!cmd_cd, C!Given, C!Idle
<1>2. EntriesOK'
  BY <1>1, FewerKeeps DEF CommandsOK
<1> QED BY <1>1, <1>2, QuietKeeps, IdleKeeps

\* fonts makes FONTDATA a path, and no song.
LEMMA FontsKeeps ==
  ASSUME C!CommandsAssumption, CommandsOK, NEW path, C!cmd_fonts(path)
  PROVE  CommandsOK'
<1>1. todo = <<>> /\ todo' = todo /\ C!Quiet
  BY DEF C!cmd_fonts, C!Given, C!Idle
<1> DEFINE data == C!Find(FontData, Blank)
           other == [data EXCEPT !.kind = "path", !.holds = path]
<1>2. entries' = entries \/ (data.kind \notin {"none", "dir"} /\ entries' = (entries \ {data}) \cup {other})
  BY DEF C!cmd_fonts
<1>3. data \in entries \/ data = C!None
  BY FoundIs DEF C!Find, CommandsOK
<1> HIDE DEF data
<1>4. EntriesOK'
  <2>1. CASE entries' = entries
    BY <2>1, FewerKeeps DEF CommandsOK
  <2>2. CASE data.kind \notin {"none", "dir"} /\ entries' = (entries \ {data}) \cup {other}
    <3>1. data \in entries
      BY <1>3, <2>2 DEF C!None
    <3>2. data \in [id : Nat, dir : {data.dir}, name : {data.name}, kind : {data.kind}, holds : {data.holds}]
      BY <3>1 DEF CommandsOK, EntriesOK, EntryOK
    <3>3. /\ other \in [id : Nat, dir : {other.dir}, name : {other.name}, kind : {other.kind}, holds : {other.holds}]
          /\ other.kind = "path"
      BY <3>2
    <3> HIDE DEF other
    <3>4. EntryOK(other)
      BY <3>3 DEF EntryOK
    <3>5. entries \ {data} \in SUBSET entries
      OBVIOUS
    <3> QED BY <2>2, <3>4, <3>5, OneMoreKeeps DEF CommandsOK
  <2> QED BY <1>2, <2>1, <2>2
<1> QED BY <1>1, <1>4, QuietKeeps, IdleKeeps

\* Only the contents of a song are played.
LEMMA OrpheusKeeps ==
  ASSUME C!CommandsAssumption, CommandsOK, NEW path, C!cmd_orpheus(path)
  PROVE  CommandsOK'
<1>1. todo = <<>> /\ todo' = todo /\ entries' = entries
  BY DEF C!cmd_orpheus, C!Given, C!Idle
<1>2. EntriesOK'
  BY <1>1, FewerKeeps DEF CommandsOK
<1>3. PICK behind \in Behind :
        LET e == C!Find(path, behind)
        IN  IF e.kind \in {"none", "dir"} THEN C!Quiet
            ELSE C!play_song(IF e.kind = "song" THEN e.holds ELSE <<>>)
  BY DEF C!cmd_orpheus
<1> DEFINE e == C!Find(path, behind)
           words == IF e.kind = "song" THEN e.holds ELSE <<>>
<1>4. e \in entries \/ e = C!None
  BY FoundIs DEF C!Find, CommandsOK
<1>5. C!Quiet \/ C!play_song(words)
  BY <1>3
<1> HIDE DEF e
<1>6. words \in Songs
  <2>1. <<>> \in Songs
    BY DEF Songs
  <2>2. CASE e.kind = "song"
    <3>1. e \in entries
      BY <1>4, <2>2 DEF C!None
    <3> QED BY <3>1, <2>2 DEF CommandsOK, EntriesOK, EntryOK
  <2> QED BY <2>1, <2>2
<1> HIDE DEF words
<1>7. PlayOK'
  BY <1>5, <1>6, StartKeeps, QuietKeeps
<1> QED BY <1>1, <1>2, <1>7, IdleKeeps

LEMMA PlayKeeps ==
  ASSUME CommandsOK, NEW note, NEW word, C!cmd_play(note, word)
  PROVE  CommandsOK'
<1>1. todo = <<>> /\ todo' = todo /\ entries' = entries /\ tokens = <<>> /\ C!cmd_play_note(note, word)
  BY DEF C!cmd_play, C!Given, C!Idle
<1>2. EntriesOK'
  BY <1>1, FewerKeeps DEF CommandsOK
<1>3. PlayOK'
  BY <1>1, OneNoteKeeps DEF CommandsOK
<1> QED BY <1>1, <1>2, <1>3, IdleKeeps

LEMMA RestartKeeps ==
  ASSUME CommandsOK, C!Restart
  PROVE  CommandsOK'
<1>1. entries' = entries /\ todo = <<>> /\ todo' = todo /\ C!Quiet
  BY DEF C!Restart
<1>2. EntriesOK'
  BY <1>1, FewerKeeps DEF CommandsOK
<1> QED BY <1>1, <1>2, QuietKeeps, IdleKeeps

\* While a song is played no command runs.
LEMMA PlayerKeeps ==
  ASSUME C!CommandsAssumption, CommandsOK, C!PlayerStep, entries' = entries, todo' = todo
  PROVE  CommandsOK'
<1>1. PlayOK'
  BY FailsKeeps, NoteKeeps, EndsKeeps DEF C!PlayerStep, CommandsOK
<1>2. EntriesOK' /\ MadeLast'
  BY FewerKeeps DEF CommandsOK, MadeLast
<1> QED BY <1>1, <1>2 DEF CommandsOK

\* The disk image has only entries.
LEMMA DiskOK ==
  ASSUME C!CommandsAssumption, C!Init
  PROVE  CommandsOK
<1>1. IsFiniteSet(entries)
  BY SameFin DEF C!CommandsAssumption, C!Init
<1>2. ASSUME NEW e \in entries PROVE EntryOK(e)
  <2>1. /\ e \in [id : Nat, dir : Nat, name : {e.name}, kind : C!Kinds, holds : {e.holds}]
        /\ e.kind = "song" => /\ e.holds \in Seq(STRING)
                              /\ Len(e.holds) > 1 => e.holds[2] \in DOMAIN str_to_int
    BY DEF C!CommandsAssumption, C!Init
  <2> QED BY <2>1 DEF EntryOK, Songs
<1>3. todo \in Seq({}) /\ Len(todo) = 0
  BY DEF C!Init
<1>4. MadeLast
  BY <1>3 DEF MadeLast
<1>5. C!Notes(<<>>) = 0
  BY NoNotes DEF Begun
<1>6. PlayOK
  BY <1>5 DEF C!Init, C!PlayerInit, PlayOK, AtNext, C!PlaysAsWritten
<1> QED BY <1>1, <1>2, <1>4, <1>6 DEF CommandsOK, EntriesOK

\* Every step keeps the invariant.
LEMMA StepKeeps ==
  ASSUME C!CommandsAssumption, CommandsOK, [C!Next]_(C!vars)
  PROVE  CommandsOK'
<1>1. CASE C!Next
  <2>1. CASE C!DoDelete \/ C!DoMark \/ C!DoCreate
    BY <2>1, DeleteKeeps, MarkKeeps, CreateKeeps
  <2>2. ASSUME NEW path \in Paths,
               \/ C!cmd_touch(path) \/ C!cmd_mkdir(path) \/ C!cmd_rm(path) \/ C!cmd_rm_r(path)
               \/ C!cmd_cd(path) \/ C!cmd_fonts(path) \/ C!cmd_orpheus(path)
        PROVE  CommandsOK'
    <3>1. CASE C!cmd_touch(path) \/ C!cmd_mkdir(path)
      BY <3>1, TouchKeeps DEF C!cmd_touch, C!cmd_mkdir
    <3>2. CASE C!cmd_rm(path) \/ C!cmd_rm_r(path)
      BY <3>2, RmKeeps
    <3>3. CASE C!cmd_cd(path) \/ C!cmd_fonts(path) \/ C!cmd_orpheus(path)
      BY <3>3, CdKeeps, FontsKeeps, OrpheusKeeps
    <3> QED BY <2>2, <3>1, <3>2, <3>3
  <2>3. ASSUME NEW note \in PlayedNotes, NEW word \in DOMAIN str_to_int, C!cmd_play(note, word)
        PROVE  CommandsOK'
    BY <2>3, PlayKeeps
  <2>4. CASE C!Restart
    BY <2>4, RestartKeeps
  <2>5. CASE /\ C!PlayerStep
             /\ UNCHANGED <<entries, wd, todo, cmd, made, panicked, orphans, odd, cut, safe, ops>>
    BY <2>5, PlayerKeeps
  <2> QED BY <1>1, <2>1, <2>2, <2>3, <2>4, <2>5 DEF C!Next
<1>2. CASE UNCHANGED C!vars
  <2>1. entries' = entries /\ todo' = todo /\ UNCHANGED C!player
    BY <1>2 DEF C!vars, C!player
  <2>2. EntriesOK' /\ MadeLast'
    BY <2>1, FewerKeeps DEF CommandsOK, MadeLast
  <2> QED BY <2>1, <2>2, PlayerStays DEF CommandsOK
<1> QED BY <1>1, <1>2

\* What Commands has from Player is what is had from it here.
LEMMA SameTables == C!note_table = note_table /\ C!Sixteenths = Sixteenths
BY DEF C!note_table, note_table, C!Sixteenths, Sixteenths

LEMMA SameNumbers ==
  /\ \A n \in Int : C!Abs(n) = Abs(n)
  /\ C!PIT_FREQUENCY = PIT_FREQUENCY /\ C!Tick = Tick /\ C!Silence = Silence
BY DEF C!Abs, Abs, C!PIT_FREQUENCY, PIT_FREQUENCY, C!Tick, Tick, C!Latch, Latch, C!Silence, Silence

LEMMA SameTune ==
  ASSUME NEW sound, NEW note
  PROVE  C!InTune(sound, note) = InTune(sound, note)
BY SameTables DEF C!InTune, InTune, C!PIT_FREQUENCY, PIT_FREQUENCY, C!Abs, Abs

LEMMA SameTime ==
  ASSUME NEW sound, NEW bpm, NEW word
  PROVE  C!InTime(sound, bpm, word) = InTime(sound, bpm, word)
BY SameTables, SameNumbers DEF C!InTime, InTime, C!Abs, Abs

LEMMA SameNotes ==
  ASSUME NEW words
  PROVE  C!Notes(words) = Notes(words)
BY SameTables DEF C!Notes, Notes, C!Proper, Proper, C!Max, Max

LEMMA SameProperty == C!PlaysAsWritten => PlaysAsWritten
BY SameTune, SameTime, SameNotes, SameNumbers DEF C!PlaysAsWritten, PlaysAsWritten

\* A song is heard as it is written, in tune and in time, up to the first note
\* that is none, for every disk, song and tempo and between any commands: neither
\* the bits that the divisors lose nor the remainders that the divisions drop
\* bring a note nearer to another or out of time, and only a tempo of zero
\* divides by zero (orpheus.c:5-47, pit.c:85-98).
THEOREM SongsPlayed ==
  ASSUME C!CommandsAssumption
  PROVE  C!Spec => []PlaysAsWritten
<1>1. C!Init => CommandsOK
  BY DiskOK
<1>2. CommandsOK /\ [C!Next]_(C!vars) => CommandsOK'
  BY StepKeeps
<1>3. CommandsOK => PlaysAsWritten
  BY SameProperty DEF CommandsOK, PlayOK
<1> QED BY <1>1, <1>2, <1>3, PTL DEF C!Spec

=============================================================================
