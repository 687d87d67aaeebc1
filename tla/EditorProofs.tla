---------------------------- MODULE EditorProofs ----------------------------
(***************************************************************************)
(* The editor is a text with a cursor, for every screen, cluster and text: *)
(* the block is large enough, the bytes moved for a key are those behind   *)
(* the cursor, and each key is a step of EditText.  The lines that are     *)
(* counted and the loop that draws agree on where a row begins, so the     *)
(* loop leaves its buffer only for a text that is longer than the screen,  *)
(* or with a tab across the end of a row.                                  *)
(***************************************************************************)
EXTENDS Editor, SequenceTheorems, FiniteSetTheorems, WellFoundedInduction, TLAPS

Bytes == Chars \cup {NUL}

\* The text and its terminating zero are in the block.
Fits ==
  /\ text_buffer_size \in Nat /\ text_buffer \in [0..text_buffer_size-1 -> Bytes]
  /\ char_len \in Nat /\ char_len < text_buffer_size
  /\ text_buffer_pos \in 0..char_len
  /\ \A i \in 0..char_len-1 : text_buffer[i] \in Chars
  /\ text_buffer[char_len] = NUL

IInv ==
  /\ mode \in {1, 2} /\ entered \in BOOLEAN /\ startline \in Nat
  /\ file \in Seq(Chars) \cup {NoFile}
  /\ mode = 2 => Fits
  /\ CursorInView

-----------------------------------------------------------------------------
(* Texts *)

\* A text is known by its length and its characters.
LEMMA TextIs ==
  ASSUME NEW t \in Seq(Chars), NEW buf, \A i \in 1..Len(t) : t[i] = buf[i-1]
  PROVE  [i \in 1..Len(t) |-> buf[i-1]] = t
<1>1. t \in [1..Len(t) -> Chars] /\ DOMAIN t = 1..Len(t)
  BY LenProperties
<1>2. t = [i \in 1..Len(t) |-> t[i]]
  BY <1>1
<1> QED BY <1>2

LEMMA TextOf ==
  ASSUME NEW n \in Nat, NEW buf, \A i \in 0..n-1 : buf[i] \in Chars
  PROVE  /\ [i \in 1..n |-> buf[i-1]] \in Seq(Chars)
         /\ Len([i \in 1..n |-> buf[i-1]]) = n
<1> DEFINE t == [i \in 1..n |-> buf[i-1]]
<1>1. t \in [1..n -> Chars]
  OBVIOUS
<1>2. t \in Seq(Chars)
  BY <1>1, SeqDef
<1>3. DOMAIN t = 1..n
  OBVIOUS
<1> HIDE DEF t
<1>4. DOMAIN t = 1..Len(t) /\ Len(t) \in Nat
  BY <1>2, LenProperties
<1>5. Len(t) = n
  BY <1>3, <1>4
<1> QED BY <1>2, <1>5 DEF t

LEMMA TextTypes == Fits => /\ Text \in Seq(Chars) /\ Len(Text) = char_len
                           /\ \A i \in 1..char_len : Text[i] = text_buffer[i-1]
<1> SUFFICES ASSUME Fits PROVE /\ Text \in Seq(Chars) /\ Len(Text) = char_len
                               /\ \A i \in 1..char_len : Text[i] = text_buffer[i-1]
  OBVIOUS
<1>1. char_len \in Nat /\ \A i \in 0..char_len-1 : text_buffer[i] \in Chars
  BY DEF Fits
<1> QED BY <1>1, TextOf DEF Text

\* What InsertAt and RemoveAt of EditText give.
LEMMA Insertion ==
  ASSUME NEW t \in Seq(Chars), NEW p \in 0..Len(t), NEW c \in Chars
  PROVE  /\ AsText!InsertAt(t, p + 1, c) \in Seq(Chars)
         /\ Len(AsText!InsertAt(t, p + 1, c)) = Len(t) + 1
         /\ \A i \in 1..Len(t) + 1 :
              AsText!InsertAt(t, p + 1, c)[i] = IF i <= p THEN t[i] ELSE IF i = p + 1 THEN c ELSE t[i-1]
<1> DEFINE a == SubSeq(t, 1, p)
           b == SubSeq(t, p + 1, Len(t))
<1>1. Len(t) \in Nat /\ \A i \in 1..Len(t) : t[i] \in Chars
  BY LenProperties, ElementOfSeq
<1>2. a \in Seq(Chars) /\ Len(a) = p /\ \A i \in 1..p : a[i] = t[i]
  <2>1. 1 \in Int /\ p \in Int /\ \A i \in 1..p : t[i] \in Chars
    BY <1>1
  <2>2. SubSeq(t, 1, p) \in Seq(Chars) /\ Len(SubSeq(t, 1, p)) = (IF 1 <= p THEN p - 1 + 1 ELSE 0)
        /\ \A i \in 1..p - 1 + 1 : SubSeq(t, 1, p)[i] = t[1 + i - 1]
    BY <2>1, SubSeqProperties
  <2> QED BY <2>2, <1>1
<1>3. b \in Seq(Chars) /\ Len(b) = Len(t) - p /\ \A i \in 1..Len(t) - p : b[i] = t[p + i]
  <2>1. p + 1 \in Int /\ Len(t) \in Int /\ \A i \in p + 1..Len(t) : t[i] \in Chars
    BY <1>1
  <2>2. /\ SubSeq(t, p + 1, Len(t)) \in Seq(Chars)
        /\ Len(SubSeq(t, p + 1, Len(t))) = (IF p + 1 <= Len(t) THEN Len(t) - (p + 1) + 1 ELSE 0)
        /\ \A i \in 1..Len(t) - (p + 1) + 1 : SubSeq(t, p + 1, Len(t))[i] = t[p + 1 + i - 1]
    BY <2>1, SubSeqProperties
  <2> QED BY <2>2, <1>1
<1> DEFINE one == <<c>>
           ac == a \o one
           r == ac \o b
<1>4. AsText!InsertAt(t, p + 1, c) = r
  <2>1. (p + 1) - 1 = p
    BY <1>1
  <2>2. AsText!InsertAt(t, p + 1, c) = SubSeq(t, 1, (p + 1) - 1) \o <<c>> \o SubSeq(t, p + 1, Len(t))
    BY DEF AsText!InsertAt
  <2> QED BY <2>1, <2>2
<1>5. one \in Seq(Chars) /\ Len(one) = 1 /\ one[1] = c
  OBVIOUS
<1> HIDE DEF a, b, one
<1>6. /\ ac \in Seq(Chars) /\ Len(ac) = Len(a) + Len(one)
      /\ \A i \in 1..Len(a) + Len(one) : ac[i] = IF i <= Len(a) THEN a[i] ELSE one[i - Len(a)]
  BY <1>2, <1>5, ConcatProperties
<1> HIDE DEF ac
<1>7. /\ r \in Seq(Chars) /\ Len(r) = Len(ac) + Len(b)
      /\ \A i \in 1..Len(ac) + Len(b) : r[i] = IF i <= Len(ac) THEN ac[i] ELSE b[i - Len(ac)]
  <2>1. ac \in Seq(Chars) /\ b \in Seq(Chars)
    BY <1>3, <1>6
  <2> QED BY <2>1, ConcatProperties
<1> HIDE DEF r
<1>8. Len(ac) = p + 1 /\ Len(r) = Len(t) + 1
  BY <1>1, <1>2, <1>3, <1>5, <1>6, <1>7
<1>9. ASSUME NEW i \in 1..Len(t) + 1
      PROVE  r[i] = IF i <= p THEN t[i] ELSE IF i = p + 1 THEN c ELSE t[i-1]
  <2>1. r[i] = IF i <= p + 1 THEN ac[i] ELSE b[i - (p + 1)]
    BY <1>7, <1>8
  <2>2. i <= p => ac[i] = t[i]
    BY <1>2, <1>5, <1>6, <1>1
  <2>3. i = p + 1 => ac[i] = c
    BY <1>2, <1>5, <1>6, <1>1
  <2>4. i > p + 1 => b[i - (p + 1)] = t[i-1]
    BY <1>3, <1>1
  <2> QED BY <2>1, <2>2, <2>3, <2>4, <1>1
<1> QED BY <1>4, <1>7, <1>8, <1>9

LEMMA Removal ==
  ASSUME NEW t \in Seq(Chars), NEW p \in 1..Len(t)
  PROVE  /\ AsText!RemoveAt(t, p) \in Seq(Chars)
         /\ Len(AsText!RemoveAt(t, p)) = Len(t) - 1
         /\ \A i \in 1..Len(t) - 1 : AsText!RemoveAt(t, p)[i] = IF i < p THEN t[i] ELSE t[i+1]
<1> DEFINE a == SubSeq(t, 1, p - 1)
           b == SubSeq(t, p + 1, Len(t))
<1>1. Len(t) \in Nat /\ \A i \in 1..Len(t) : t[i] \in Chars
  BY LenProperties, ElementOfSeq
<1>2. a \in Seq(Chars) /\ Len(a) = p - 1 /\ \A i \in 1..p - 1 : a[i] = t[i]
  <2>1. 1 \in Int /\ p - 1 \in Int /\ \A i \in 1..p - 1 : t[i] \in Chars
    BY <1>1
  <2>2. /\ SubSeq(t, 1, p - 1) \in Seq(Chars)
        /\ Len(SubSeq(t, 1, p - 1)) = (IF 1 <= p - 1 THEN p - 1 - 1 + 1 ELSE 0)
        /\ \A i \in 1..p - 1 - 1 + 1 : SubSeq(t, 1, p - 1)[i] = t[1 + i - 1]
    BY <2>1, SubSeqProperties
  <2> QED BY <2>2, <1>1
<1>3. b \in Seq(Chars) /\ Len(b) = Len(t) - p /\ \A i \in 1..Len(t) - p : b[i] = t[p + i]
  <2>1. p + 1 \in Int /\ Len(t) \in Int /\ \A i \in p + 1..Len(t) : t[i] \in Chars
    BY <1>1
  <2>2. /\ SubSeq(t, p + 1, Len(t)) \in Seq(Chars)
        /\ Len(SubSeq(t, p + 1, Len(t))) = (IF p + 1 <= Len(t) THEN Len(t) - (p + 1) + 1 ELSE 0)
        /\ \A i \in 1..Len(t) - (p + 1) + 1 : SubSeq(t, p + 1, Len(t))[i] = t[p + 1 + i - 1]
    BY <2>1, SubSeqProperties
  <2> QED BY <2>2, <1>1
<1>4. AsText!RemoveAt(t, p) = a \o b
  BY DEF AsText!RemoveAt
<1> HIDE DEF a, b
<1>5. /\ a \o b \in Seq(Chars) /\ Len(a \o b) = Len(t) - 1
      /\ \A i \in 1..Len(t) - 1 : (a \o b)[i] = IF i <= p - 1 THEN a[i] ELSE b[i - (p - 1)]
  BY <1>1, <1>2, <1>3, ConcatProperties
<1> DEFINE r == a \o b
<1> HIDE DEF r
<1>6. ASSUME NEW i \in 1..Len(t) - 1 PROVE r[i] = IF i < p THEN t[i] ELSE t[i+1]
  <2>1. r[i] = IF i <= p - 1 THEN a[i] ELSE b[i - (p - 1)]
    BY <1>5 DEF r
  <2>2. i < p => a[i] = t[i]
    BY <1>2, <1>1
  <2>3. i >= p => b[i - (p - 1)] = t[i+1]
    BY <1>3, <1>1
  <2> QED BY <2>1, <2>2, <2>3, <1>1
<1> QED BY <1>4, <1>5, <1>6 DEF r

-----------------------------------------------------------------------------
(* Lines *)

LEMMA MinOfNats ==
  ASSUME NEW S \in SUBSET Nat, S # {}
  PROVE  Min(S) \in S /\ \A y \in S : Min(S) <= y
<1>1. \E x \in S : \A y \in S : ~(<<y, x>> \in OpToRel(<, Nat))
  BY WFMin, NatLessThanWellFounded
<1>2. PICK x \in S : \A y \in S : ~(<<y, x>> \in OpToRel(<, Nat))
  BY <1>1
<1>3. ASSUME NEW y \in S PROVE x <= y
  <2>1. ~(y < x)
    BY <1>2 DEF OpToRel
  <2> QED BY <2>1
<1> QED BY <1>3 DEF Min

\* A set of numbers up to n has a highest one: the lowest of its mirror image.
LEMMA MaxUpTo ==
  ASSUME NEW n \in Nat, NEW S \in SUBSET (0..n), S # {}
  PROVE  Max(S) \in S
<1> DEFINE mirror == {n - y : y \in S}
<1>1. mirror \in SUBSET Nat /\ mirror # {}
  <2>1. ASSUME NEW y \in S PROVE n - y \in Nat
    OBVIOUS
  <2>2. PICK y \in S : TRUE
    OBVIOUS
  <2>3. n - y \in mirror
    OBVIOUS
  <2> QED BY <2>1, <2>3
<1>2. Min(mirror) \in mirror /\ \A y \in mirror : Min(mirror) <= y
  BY <1>1, MinOfNats
<1>3. PICK x \in S : Min(mirror) = n - x
  BY <1>2
<1>4. ASSUME NEW y \in S PROVE x >= y
  <2>1. n - y \in mirror
    OBVIOUS
  <2>2. n - x <= n - y
    BY <1>2, <1>3, <2>1
  <2> QED BY <2>2
<1> QED BY <1>4 DEF Max

LEMMA StartsIn == ASSUME NEW buf, NEW n \in Nat
                  PROVE  line_starts(buf, n) \subseteq 0..n /\ 0 \in line_starts(buf, n)
  BY DEF line_starts

\* A line that the text has has a number.
LEMMA LineIn == ASSUME NEW buf, NEW n \in Nat, NEW pos \in Nat
                PROVE  LineOf(line_starts(buf, n), pos) \in Nat
<1> DEFINE before == {s \in line_starts(buf, n) : s <= pos}
<1>1. before \subseteq 0..n /\ 0 \in before
  BY StartsIn
<1>2. IsFiniteSet(0..n)
  BY FS_Interval
<1>3. IsFiniteSet(before)
  BY <1>1, <1>2, FS_Subset
<1>4. Cardinality(before) \in Nat /\ Cardinality(before) # 0
  BY <1>1, <1>3, FS_CardinalityType, FS_EmptySet
<1> QED BY <1>4 DEF LineOf

\* Drawing brings the cursor's line on the screen.
LEMMA DrawnInView ==
  ASSUME NEW buf, NEW n \in Nat, NEW pos \in Nat, startline \in Nat,
         update_to_screen(buf, n, pos), text_buffer' = buf, char_len' = n, text_buffer_pos' = pos
  PROVE  startline' \in Nat /\ CursorInView'
<1> DEFINE line == LineOf(line_starts(buf, n), pos)
<1>1. line \in Nat
  BY LineIn
<1>2. startline' = FirstLine(line)
  BY DEF update_to_screen
<1>3. CursorLine' = line
  BY DEF CursorLine
<1> HIDE DEF line
<1>4. Rows \in Nat /\ Rows >= 1
  BY EditorAssumption DEF Rows
<1>5. FirstLine(line) \in Nat /\ FirstLine(line) <= line /\ line < FirstLine(line) + Rows
  BY <1>1, <1>4 DEF FirstLine
<1>6. startline' <= CursorLine' /\ CursorLine' < startline' + Rows
  BY <1>2, <1>3, <1>5
<1> QED BY <1>2, <1>5, <1>6 DEF CursorInView

-----------------------------------------------------------------------------
(* The block *)

\* A block with room for one more character, whose bytes behind the cursor
\* have moved up by one.
LEMMA InsertedFits ==
  ASSUME Fits, NEW c \in Chars
  PROVE  /\ Size \in Nat /\ char_len + 1 < Size
         /\ Inserted(c) \in [0..Size-1 -> Bytes]
         /\ Inserted(c)[char_len + 1] = NUL
         /\ \A i \in 0..char_len :
              Inserted(c)[i] = IF i < text_buffer_pos THEN text_buffer[i]
                               ELSE IF i = text_buffer_pos THEN c ELSE text_buffer[i-1]
<1>1. /\ text_buffer_size \in Nat /\ char_len \in Nat /\ char_len < text_buffer_size
      /\ text_buffer_pos \in 0..char_len /\ text_buffer \in [0..text_buffer_size-1 -> Bytes]
  BY DEF Fits
<1>2. Size \in Nat /\ char_len + 1 < Size /\ text_buffer_size <= Size
  BY <1>1, EditorAssumption DEF Size, Full
<1>3. /\ Block \in [0..Size-1 -> Bytes]
      /\ \A i \in 0..text_buffer_size-1 : Block[i] = text_buffer[i]
  BY <1>1, <1>2 DEF Block, Bytes
<1> DEFINE n == char_len - text_buffer_pos + 1
           m == Moved(Block, text_buffer_pos + 1, text_buffer_pos, n)
<1>4. n \in Nat /\ text_buffer_pos + 1 + n = char_len + 2
  BY <1>1
<1>5. /\ m \in [0..Size-1 -> Bytes]
      /\ \A i \in 0..char_len : m[i] = IF i <= text_buffer_pos THEN text_buffer[i] ELSE text_buffer[i-1]
  <2>1. DOMAIN Block = 0..Size-1
    BY <1>3
  <2>2. m = [i \in DOMAIN Block |->
               IF text_buffer_pos + 1 <= i /\ i < text_buffer_pos + 1 + n
               THEN Block[i - (text_buffer_pos + 1) + text_buffer_pos] ELSE Block[i]]
    BY DEF Moved
  <2> HIDE DEF m, n
  <2>3. ASSUME NEW i \in 0..Size-1
        PROVE  m[i] = IF text_buffer_pos + 1 <= i /\ i < char_len + 2 THEN Block[i - 1] ELSE Block[i]
    <3>1. m[i] = IF text_buffer_pos + 1 <= i /\ i < text_buffer_pos + 1 + n
                 THEN Block[i - (text_buffer_pos + 1) + text_buffer_pos] ELSE Block[i]
      BY <2>1, <2>2
    <3>2. i - (text_buffer_pos + 1) + text_buffer_pos = i - 1
      BY <1>1, <1>2
    <3> QED BY <3>1, <3>2, <1>4
  <2>4. DOMAIN m = 0..Size-1 /\ m = [i \in 0..Size-1 |-> m[i]]
    BY <2>1, <2>2
  <2>5. ASSUME NEW i \in 0..Size-1 PROVE m[i] \in Bytes
    <3>1. CASE text_buffer_pos + 1 <= i /\ i < char_len + 2
      <4>1. i - 1 \in 0..Size-1
        BY <3>1, <1>1, <1>2
      <4> QED BY <3>1, <4>1, <2>3, <1>3
    <3>2. CASE ~(text_buffer_pos + 1 <= i /\ i < char_len + 2)
      BY <3>2, <2>3, <1>3
    <3> QED BY <3>1, <3>2
  <2>6. ASSUME NEW i \in 0..char_len
        PROVE  m[i] = IF i <= text_buffer_pos THEN text_buffer[i] ELSE text_buffer[i-1]
    <3>1. i \in 0..Size-1 /\ i \in 0..text_buffer_size-1
      BY <1>1, <1>2
    <3>2. CASE i <= text_buffer_pos
      BY <3>1, <3>2, <2>3, <1>1, <1>3
    <3>3. CASE i > text_buffer_pos
      <4>1. i - 1 \in 0..text_buffer_size-1
        BY <3>3, <1>1
      <4>2. m[i] = Block[i - 1]
        BY <3>1, <3>3, <2>3, <1>1
      <4> QED BY <3>3, <4>1, <4>2, <1>1, <1>3
    <3> QED BY <3>2, <3>3, <1>1
  <2>7. m \in [0..Size-1 -> Bytes]
    BY <2>4, <2>5
  <2> QED BY <2>6, <2>7
<1>6. Inserted(c) = [m EXCEPT ![text_buffer_pos] = c, ![char_len + 1] = NUL]
  BY DEF Inserted
<1> HIDE DEF m, n
<1>7. Inserted(c) \in [0..Size-1 -> Bytes]
  BY <1>1, <1>2, <1>5, <1>6 DEF Bytes
<1>8. Inserted(c)[char_len + 1] = NUL
  <2>1. char_len + 1 \in 0..Size-1
    BY <1>1, <1>2
  <2> QED BY <2>1, <1>5, <1>6
<1>9. ASSUME NEW i \in 0..char_len
      PROVE  Inserted(c)[i] = IF i < text_buffer_pos THEN text_buffer[i]
                              ELSE IF i = text_buffer_pos THEN c ELSE text_buffer[i-1]
  <2>1. i \in 0..Size-1 /\ i # char_len + 1
    BY <1>1, <1>2
  <2>2. Inserted(c)[i] = IF i = text_buffer_pos THEN c ELSE m[i]
    BY <2>1, <1>5, <1>6
  <2> QED BY <2>2, <1>5, <1>1
<1> QED BY <1>2, <1>7, <1>8, <1>9

\* The bytes behind the cursor have moved down, the terminating zero with them.
LEMMA ErasedFits ==
  ASSUME Fits, char_len # 0, text_buffer_pos # 0
  PROVE  /\ Erased \in [0..text_buffer_size-1 -> Bytes]
         /\ Erased[char_len - 1] = NUL
         /\ \A i \in 0..char_len - 2 :
              Erased[i] = IF i < text_buffer_pos - 1 THEN text_buffer[i] ELSE text_buffer[i+1]
<1>1. /\ text_buffer_size \in Nat /\ char_len \in Nat /\ char_len < text_buffer_size
      /\ text_buffer_pos \in 1..char_len /\ text_buffer \in [0..text_buffer_size-1 -> Bytes]
  BY DEF Fits
<1> DEFINE n == char_len - text_buffer_pos + 1
           m == Moved(text_buffer, text_buffer_pos - 1, text_buffer_pos, n)
<1>2. n \in Nat /\ text_buffer_pos - 1 + n = char_len
  BY <1>1
<1>3. m = [i \in 0..text_buffer_size-1 |->
             IF text_buffer_pos - 1 <= i /\ i < char_len THEN text_buffer[i + 1] ELSE text_buffer[i]]
  <2>1. DOMAIN text_buffer = 0..text_buffer_size-1
    BY <1>1
  <2>2. m = [i \in 0..text_buffer_size-1 |->
               IF text_buffer_pos - 1 <= i /\ i < char_len
               THEN text_buffer[i - (text_buffer_pos - 1) + text_buffer_pos] ELSE text_buffer[i]]
    BY <2>1, <1>2 DEF Moved
  <2>3. \A i \in Int : i - (text_buffer_pos - 1) + text_buffer_pos = i + 1
    BY <1>1
  <2> QED BY <2>2, <2>3, <1>1
<1>4. Erased = [m EXCEPT ![char_len - 1] = NUL]
  BY DEF Erased
<1> HIDE DEF m, n
<1>5. ASSUME NEW i \in 0..text_buffer_size-1 PROVE m[i] \in Bytes
  <2>1. CASE text_buffer_pos - 1 <= i /\ i < char_len
    <3>1. i + 1 \in 0..text_buffer_size-1
      BY <2>1, <1>1
    <3> QED BY <2>1, <3>1, <1>1, <1>3
  <2>2. CASE ~(text_buffer_pos - 1 <= i /\ i < char_len)
    BY <2>2, <1>1, <1>3
  <2> QED BY <2>1, <2>2
<1>6. m \in [0..text_buffer_size-1 -> Bytes]
  BY <1>3, <1>5
<1>7. Erased \in [0..text_buffer_size-1 -> Bytes]
  BY <1>4, <1>6 DEF Bytes
<1>8. Erased[char_len - 1] = NUL
  <2>1. char_len - 1 \in 0..text_buffer_size-1
    BY <1>1
  <2> QED BY <2>1, <1>4, <1>6
<1>9. ASSUME NEW i \in 0..char_len - 2
      PROVE  Erased[i] = IF i < text_buffer_pos - 1 THEN text_buffer[i] ELSE text_buffer[i+1]
  <2>1. i \in 0..text_buffer_size-1 /\ i # char_len - 1 /\ i < char_len
    BY <1>1
  <2>2. Erased[i] = m[i]
    BY <2>1, <1>4, <1>6
  <2>3. m[i] = IF text_buffer_pos - 1 <= i /\ i < char_len THEN text_buffer[i + 1] ELSE text_buffer[i]
    BY <2>1, <1>3
  <2> QED BY <2>1, <2>2, <2>3, <1>1
<1> QED BY <1>7, <1>8, <1>9

-----------------------------------------------------------------------------
(* The keys *)

LEMMA InitIInv == Init => IInv /\ AsText!Init
<1> SUFFICES ASSUME Init PROVE IInv /\ AsText!Init
  OBVIOUS
<1>1. file \in Seq(Chars) \cup {NoFile}
  BY EditorAssumption DEF Init
<1>2. IInv
  <2>1. mode = 1 /\ entered = FALSE /\ startline = 0
    BY DEF Init
  <2>2. CursorInView
    BY <2>1 DEF CursorInView
  <2>3. mode # 2 /\ startline \in Nat
    BY <2>1
  <2> QED BY <1>1, <2>1, <2>2, <2>3 DEF IInv
<1>3. FileText \in Seq(Chars)
  BY <1>1, EmptySeq DEF FileText
<1>4. ~Opened
  BY DEF Init, Opened
<1> QED BY <1>2, <1>3, <1>4 DEF AsText!Init

LEMMA OpenKeeps == IInv /\ init_editor => IInv' /\ AsText!Open
<1> SUFFICES ASSUME IInv, init_editor PROVE IInv' /\ AsText!Open
  OBVIOUS
<1>1. /\ mode = 1 /\ mode' = 2 /\ entered' = TRUE /\ text_buffer_pos' = 0 /\ startline' = 0 /\ file' = file
      /\ text_buffer' = Loaded /\ text_buffer_size' = Cardinality(DOMAIN Loaded)
      /\ char_len' = IF file = NoFile THEN 0 ELSE Len(file)
  BY DEF init_editor
<1>2. Fits' /\ Text' = FileText
  <2>1. CASE file = NoFile
    <3>1. Loaded = [i \in 0..Cluster-1 |-> NUL]
      BY <2>1 DEF Loaded
    <3>2. Cluster \in Nat /\ Cluster > 1
      BY EditorAssumption
    <3>3. text_buffer_size' = Cluster
      <4>1. DOMAIN Loaded = 0..Cluster-1
        BY <3>1
      <4>2. 0 \in Int /\ Cluster - 1 \in Int
        BY <3>2
      <4>3. Cardinality(0..Cluster-1) = IF 0 > Cluster - 1 THEN 0 ELSE Cluster - 1 - 0 + 1
        BY <4>2, FS_Interval
      <4> QED BY <1>1, <3>2, <4>1, <4>3
    <3>4. Loaded \in [0..Cluster-1 -> Bytes] /\ Loaded[0] = NUL
      BY <3>1, <3>2 DEF Bytes
    <3>5. Fits'
      BY <1>1, <2>1, <3>2, <3>3, <3>4 DEF Fits
    <3>6. Text' = <<>>
      <4> DEFINE t == <<>>
      <4>1. t \in Seq(Chars) /\ Len(t) = 0
        BY EmptySeq
      <4> HIDE DEF t
      <4>2. \A i \in 1..Len(t) : t[i] = Loaded[i-1]
        BY <4>1
      <4>3. [i \in 1..Len(t) |-> Loaded[i-1]] = t
        BY <4>1, <4>2, TextIs
      <4>4. char_len' = Len(t) /\ text_buffer' = Loaded
        BY <1>1, <2>1, <4>1
      <4>5. Text' = t
        BY <4>3, <4>4 DEF Text
      <4> QED BY <4>5 DEF t
    <3> QED BY <2>1, <3>5, <3>6 DEF FileText
  <2>2. CASE file # NoFile
    <3>1. file \in Seq(Chars) /\ Len(file) \in Nat /\ \A i \in 1..Len(file) : file[i] \in Chars
      BY <2>2, LenProperties, ElementOfSeq DEF IInv
    <3>2. Loaded = [i \in 0..Len(file) |-> IF i = Len(file) THEN NUL ELSE file[i+1]]
      BY <2>2 DEF Loaded
    <3>3. text_buffer_size' = Len(file) + 1
      <4>1. DOMAIN Loaded = 0..Len(file)
        BY <3>2
      <4>2. 0 \in Int /\ Len(file) \in Int
        BY <3>1
      <4>3. Cardinality(0..Len(file)) = IF 0 > Len(file) THEN 0 ELSE Len(file) - 0 + 1
        BY <4>2, FS_Interval
      <4> QED BY <1>1, <3>1, <4>1, <4>3
    <3>4. \A i \in 0..Len(file) - 1 : Loaded[i] = file[i+1] /\ Loaded[i] \in Chars
      BY <3>1, <3>2
    <3>5. Loaded[Len(file)] = NUL /\ Loaded \in [0..Len(file) -> Bytes]
      <4>1. Loaded[Len(file)] = NUL
        BY <3>1, <3>2
      <4>2. \A i \in 0..Len(file) : Loaded[i] \in Bytes
        BY <3>1, <3>4, <4>1 DEF Bytes
      <4>3. Loaded = [i \in 0..Len(file) |-> Loaded[i]]
        BY <3>2
      <4> QED BY <4>1, <4>2, <4>3
    <3>6. (Len(file) + 1) - 1 = Len(file) /\ char_len' = Len(file)
      BY <1>1, <2>2, <3>1
    <3>7. Fits'
      BY <1>1, <3>1, <3>3, <3>4, <3>5, <3>6 DEF Fits
    <3>8. Text' = file
      <4>1. \A i \in 1..Len(file) : file[i] = Loaded[i-1]
        <5> TAKE i \in 1..Len(file)
        <5>1. i - 1 \in 0..Len(file) - 1 /\ (i - 1) + 1 = i
          BY <3>1
        <5> QED BY <5>1, <3>4
      <4>2. [i \in 1..Len(file) |-> Loaded[i-1]] = file
        BY <3>1, <4>1, TextIs
      <4> QED BY <1>1, <3>6, <4>2 DEF Text
    <3> QED BY <2>2, <3>7, <3>8 DEF FileText
  <2> QED BY <2>1, <2>2
<1>3. IInv'
  BY <1>1, <1>2 DEF IInv, CursorInView
<1>4. ~Opened /\ Opened' /\ FileText' = FileText
  BY <1>1 DEF Opened, FileText
<1>5. AsText!Open
  BY <1>1, <1>2, <1>4 DEF AsText!Open
<1> QED BY <1>3, <1>5

\* What each key leaves: a text that fits, drawn with the cursor in view.
LEMMA BecomesKeeps ==
  ASSUME IInv, mode = 2, NEW buf, NEW n \in Nat, NEW pos \in Nat, Becomes(buf, n, pos),
         Fits', entered' \in BOOLEAN
  PROVE  /\ IInv'
         /\ Opened /\ Opened' /\ FileText' = FileText
<1>1. /\ text_buffer' = buf /\ char_len' = n /\ text_buffer_pos' = pos /\ mode' = mode /\ file' = file
      /\ update_to_screen(buf, n, pos)
  BY DEF Becomes
<1>2. startline' \in Nat /\ CursorInView'
  BY <1>1, DrawnInView DEF IInv
<1>3. IInv'
  BY <1>1, <1>2 DEF IInv
<1> QED BY <1>1, <1>3 DEF Opened, FileText

LEMMA WriteKeeps ==
  ASSUME IInv, mode = 2, NEW c \in Chars, editor_write(c), entered' \in BOOLEAN
  PROVE  IInv' /\ AsText!Type(c)
<1>1. Fits
  BY DEF IInv
<1>2. /\ text_buffer_size' = Size /\ text_buffer' = Inserted(c) /\ char_len' = char_len + 1
      /\ text_buffer_pos' = text_buffer_pos + 1
      /\ Becomes(Inserted(c), char_len + 1, text_buffer_pos + 1)
  BY DEF editor_write, Becomes
<1>3. /\ Size \in Nat /\ char_len + 1 < Size /\ Inserted(c) \in [0..Size-1 -> Bytes]
      /\ Inserted(c)[char_len + 1] = NUL
      /\ \A i \in 0..char_len :
           Inserted(c)[i] = IF i < text_buffer_pos THEN text_buffer[i]
                            ELSE IF i = text_buffer_pos THEN c ELSE text_buffer[i-1]
  BY <1>1, InsertedFits
<1>4. /\ char_len \in Nat /\ text_buffer_pos \in 0..char_len
      /\ \A i \in 0..char_len - 1 : text_buffer[i] \in Chars
  BY <1>1 DEF Fits
<1>5. ASSUME NEW i \in 0..char_len PROVE Inserted(c)[i] \in Chars
  <2>1. CASE i < text_buffer_pos
    BY <2>1, <1>3, <1>4
  <2>2. CASE i = text_buffer_pos
    BY <2>2, <1>3, <1>4
  <2>3. CASE i > text_buffer_pos
    <3>1. i - 1 \in 0..char_len - 1
      BY <2>3, <1>4
    <3> QED BY <2>3, <3>1, <1>3, <1>4
  <2> QED BY <2>1, <2>2, <2>3, <1>4
<1>6. char_len + 1 \in Nat /\ text_buffer_pos + 1 \in 0..char_len + 1 /\ (char_len + 1) - 1 = char_len
      /\ text_buffer_pos + 1 \in Nat
  BY <1>4
<1>7. Fits'
  BY <1>2, <1>3, <1>5, <1>6 DEF Fits
<1>8. IInv' /\ Opened /\ Opened' /\ FileText' = FileText
  BY <1>2, <1>6, <1>7, BecomesKeeps
<1>9. Text \in Seq(Chars) /\ Len(Text) = char_len /\ \A i \in 1..char_len : Text[i] = text_buffer[i-1]
  BY <1>1, TextTypes
<1> DEFINE t == AsText!InsertAt(Text, text_buffer_pos + 1, c)
<1>10. /\ t \in Seq(Chars) /\ Len(t) = char_len + 1
       /\ \A i \in 1..char_len + 1 :
            t[i] = IF i <= text_buffer_pos THEN Text[i] ELSE IF i = text_buffer_pos + 1 THEN c ELSE Text[i-1]
  BY <1>4, <1>9, Insertion
<1> HIDE DEF t
<1>11. ASSUME NEW i \in 1..Len(t) PROVE t[i] = Inserted(c)[i-1]
  <2>1. i \in 1..char_len + 1 /\ i - 1 \in 0..char_len
    BY <1>4, <1>10
  <2>2. CASE i <= text_buffer_pos
    <3>1. i \in 1..char_len /\ i - 1 < text_buffer_pos
      BY <2>1, <2>2, <1>4
    <3> QED BY <2>1, <2>2, <3>1, <1>3, <1>9, <1>10
  <2>3. CASE i = text_buffer_pos + 1
    <3>1. i - 1 = text_buffer_pos /\ ~(i <= text_buffer_pos)
      BY <2>3, <1>4
    <3>2. t[i] = c
      BY <2>1, <2>3, <3>1, <1>10
    <3>3. Inserted(c)[i-1] = c
      BY <2>1, <3>1, <1>3, <1>4
    <3> QED BY <3>2, <3>3
  <2>4. CASE i > text_buffer_pos + 1
    <3>1. i - 1 \in 1..char_len /\ i - 1 > text_buffer_pos
      BY <2>1, <2>4, <1>4
    <3>2. t[i] = Text[i-1]
      BY <2>1, <2>4, <1>4, <1>10
    <3>3. Inserted(c)[i-1] = text_buffer[(i-1)-1]
      BY <2>1, <3>1, <1>3, <1>4
    <3> QED BY <3>1, <3>2, <3>3, <1>9
  <2> QED BY <2>1, <2>2, <2>3, <2>4, <1>4
<1>12. [i \in 1..Len(t) |-> Inserted(c)[i-1]] = t
  BY <1>10, <1>11, TextIs
<1>13. Text' = t
  BY <1>2, <1>10, <1>12 DEF Text
<1>14. AsText!Type(c)
  BY <1>2, <1>8, <1>13 DEF AsText!Type, t
<1> QED BY <1>8, <1>14

\* The cursor moves within the text.
LEMMA MovesKeep ==
  ASSUME IInv, mode = 2, NEW pos \in 0..char_len, MoveTo(pos)
  PROVE  IInv' /\ AsText!Move
<1>1. Fits
  BY DEF IInv
<1>2. /\ text_buffer_size' = text_buffer_size /\ text_buffer' = text_buffer /\ char_len' = char_len
      /\ text_buffer_pos' = pos /\ Becomes(text_buffer, char_len, pos) /\ entered' = entered
  BY DEF MoveTo, Becomes
<1>3. Fits'
  BY <1>1, <1>2 DEF Fits
<1>4. char_len \in Nat /\ pos \in Nat /\ entered' \in BOOLEAN
  BY <1>1, <1>2 DEF Fits, IInv
<1>5. IInv' /\ Opened /\ Opened' /\ FileText' = FileText
  BY <1>2, <1>3, <1>4, BecomesKeeps
<1>6. Text' = Text
  BY <1>2 DEF Text
<1>7. Len(Text) = char_len
  BY <1>1, TextTypes
<1>8. AsText!Move
  BY <1>2, <1>5, <1>6, <1>7 DEF AsText!Move
<1> QED BY <1>5, <1>8

LEMMA BackspaceKeeps ==
  ASSUME IInv, editor_backspace
  PROVE  IInv' /\ (AsText!Rub \/ AsText!Move)
<1>1. mode = 2 /\ Fits /\ entered' = entered /\ entered \in BOOLEAN /\ text_buffer_size' = text_buffer_size
  BY DEF editor_backspace, UserKey, Key, IInv
<1>2. /\ char_len \in Nat /\ text_buffer_pos \in 0..char_len /\ text_buffer_size \in Nat
      /\ char_len < text_buffer_size
      /\ \A i \in 0..char_len - 1 : text_buffer[i] \in Chars
  BY <1>1 DEF Fits
<1>3. CASE char_len = 0 \/ text_buffer_pos = 0
  <2>1. MoveTo(text_buffer_pos)
    BY <1>3 DEF editor_backspace, MoveTo
  <2> QED BY <1>1, <1>2, <2>1, MovesKeep
<1>4. CASE ~(char_len = 0 \/ text_buffer_pos = 0)
  <2>1. /\ text_buffer' = Erased /\ char_len' = char_len - 1 /\ text_buffer_pos' = text_buffer_pos - 1
        /\ Becomes(Erased, char_len - 1, text_buffer_pos - 1)
    BY <1>4 DEF editor_backspace, Becomes
  <2>2. /\ Erased \in [0..text_buffer_size-1 -> Bytes] /\ Erased[char_len - 1] = NUL
        /\ \A i \in 0..char_len - 2 :
             Erased[i] = IF i < text_buffer_pos - 1 THEN text_buffer[i] ELSE text_buffer[i+1]
    BY <1>1, <1>4, ErasedFits
  <2>3. char_len - 1 \in Nat /\ text_buffer_pos - 1 \in 0..char_len - 1 /\ text_buffer_pos - 1 \in Nat
        /\ (char_len - 1) - 1 = char_len - 2 /\ text_buffer_pos \in 1..char_len
    BY <1>2, <1>4
  <2>4. ASSUME NEW i \in 0..char_len - 2 PROVE Erased[i] \in Chars
    <3>1. i \in 0..char_len - 1 /\ i + 1 \in 0..char_len - 1
      BY <1>2
    <3> QED BY <3>1, <2>2, <1>2
  <2>5. Fits'
    BY <1>1, <1>2, <2>1, <2>2, <2>3, <2>4 DEF Fits
  <2>6. IInv' /\ Opened /\ Opened' /\ FileText' = FileText
    BY <1>1, <2>1, <2>3, <2>5, BecomesKeeps
  <2>7. Text \in Seq(Chars) /\ Len(Text) = char_len /\ \A i \in 1..char_len : Text[i] = text_buffer[i-1]
    BY <1>1, TextTypes
  <2> DEFINE t == AsText!RemoveAt(Text, text_buffer_pos)
  <2>8. /\ t \in Seq(Chars) /\ Len(t) = char_len - 1
        /\ \A i \in 1..char_len - 1 : t[i] = IF i < text_buffer_pos THEN Text[i] ELSE Text[i+1]
    BY <2>3, <2>7, Removal
  <2> HIDE DEF t
  <2>9. ASSUME NEW i \in 1..Len(t) PROVE t[i] = Erased[i-1]
    <3>1. i \in 1..char_len - 1 /\ i - 1 \in 0..char_len - 2 /\ i \in 1..char_len /\ i + 1 \in 1..char_len
          /\ (i - 1) + 1 = i /\ (i + 1) - 1 = i
      BY <1>2, <2>8
    <3>2. CASE i < text_buffer_pos
      <4>1. i - 1 < text_buffer_pos - 1
        BY <3>1, <3>2, <2>3
      <4> QED BY <3>1, <3>2, <4>1, <2>2, <2>7, <2>8
    <3>3. CASE ~(i < text_buffer_pos)
      <4>1. ~(i - 1 < text_buffer_pos - 1)
        BY <3>1, <3>3, <2>3
      <4>2. t[i] = Text[i+1] /\ Text[i+1] = text_buffer[(i+1)-1]
        BY <3>1, <3>3, <2>7, <2>8
      <4>3. Erased[i-1] = text_buffer[(i-1)+1]
        BY <3>1, <4>1, <2>2
      <4> QED BY <3>1, <4>2, <4>3
    <3> QED BY <3>2, <3>3
  <2>10. [i \in 1..Len(t) |-> Erased[i-1]] = t
    BY <2>8, <2>9, TextIs
  <2>11. Text' = t
    BY <2>1, <2>8, <2>10 DEF Text
  <2>12. AsText!Rub
    BY <2>1, <2>3, <2>6, <2>11 DEF AsText!Rub, t
  <2> QED BY <2>6, <2>12
<1> QED BY <1>3, <1>4

\* Saving and leaving change the text no more.
LEMMA SaveAndLeaveKeep ==
  ASSUME IInv, QuitKey \/ WriteKey \/ SaveAndQuitKey
  PROVE  IInv' /\ (AsText!Write \/ AsText!Quit)
<1>1. mode = 2 /\ Fits /\ Opened
  BY DEF QuitKey, WriteKey, SaveAndQuitKey, UserKey, Key, IInv, Opened
<1>2. Text \in Seq(Chars) /\ Text # NoFile
  BY <1>1, TextTypes, EditorAssumption
<1>3. Saved => file' \in Seq(Chars) \cup {NoFile} /\ FileText' = Text
  BY <1>2 DEF Saved, FileText
<1>4. CASE QuitKey
  <2>1. mode' = 1 /\ file' = file /\ entered' = entered /\ startline' = startline
    BY <1>4 DEF QuitKey, Left
  <2>2. IInv' /\ ~Opened' /\ FileText' = FileText
    BY <2>1 DEF IInv, CursorInView, Opened, FileText
  <2> QED BY <1>1, <2>2 DEF AsText!Quit
<1>5. CASE WriteKey
  <2>1. /\ Saved /\ update_to_screen(text_buffer, char_len, text_buffer_pos) /\ mode' = mode /\ entered' = entered
        /\ UNCHANGED <<text_buffer, text_buffer_size, char_len, text_buffer_pos>>
    BY <1>5 DEF WriteKey, text
  <2>2. char_len \in Nat /\ text_buffer_pos \in Nat /\ startline \in Nat
    BY <1>1 DEF Fits, IInv
  <2>3. startline' \in Nat /\ CursorInView'
    BY <2>1, <2>2, DrawnInView
  <2>4. Fits'
    BY <1>1, <2>1 DEF Fits
  <2>5. IInv'
    BY <1>3, <2>1, <2>3, <2>4 DEF IInv
  <2>6. Opened' /\ Text' = Text
    BY <1>1, <2>1 DEF Opened, Text
  <2> QED BY <1>1, <1>3, <2>1, <2>5, <2>6 DEF AsText!Write, AsText!Save
<1>6. CASE SaveAndQuitKey
  <2>1. /\ Saved /\ mode' = 1 /\ entered' = entered
        /\ update_to_screen(text_buffer, char_len, text_buffer_pos)
        /\ UNCHANGED <<text_buffer, text_buffer_size, char_len, text_buffer_pos>>
    BY <1>6 DEF SaveAndQuitKey, text
  <2>2. char_len \in Nat /\ text_buffer_pos \in Nat /\ startline \in Nat
    BY <1>1 DEF Fits, IInv
  <2>3. startline' \in Nat
    BY <2>1, <2>2, DrawnInView
  <2>4. IInv' /\ ~Opened'
    BY <1>3, <2>1, <2>3 DEF IInv, CursorInView, Opened
  <2> QED BY <1>1, <1>3, <2>1, <2>4 DEF AsText!Quit, AsText!Save
<1> QED BY <1>4, <1>5, <1>6

-----------------------------------------------------------------------------
LEMMA CursorKeeps ==
  ASSUME IInv, CursorUp \/ CursorDown \/ CursorLeft \/ CursorRight
  PROVE  IInv' /\ AsText!Move
<1>1. mode = 2 /\ Fits
  BY DEF CursorUp, CursorDown, CursorLeft, CursorRight, UserKey, Key, IInv
<1>2. char_len \in Nat /\ text_buffer_pos \in 0..char_len
  BY <1>1 DEF Fits
<1> DEFINE before == {s \in line_starts(text_buffer, char_len) : s < text_buffer_pos}
           behind == {s \in line_starts(text_buffer, char_len) : s > text_buffer_pos}
<1>3. before \in SUBSET (0..char_len) /\ behind \in SUBSET (0..char_len)
  BY <1>2, StartsIn
<1>4. CASE CursorUp
  <2>1. before # {} /\ MoveTo(Max(before))
    BY <1>4 DEF CursorUp
  <2>2. Max(before) \in before
    BY <1>2, <1>3, <2>1, MaxUpTo
  <2>3. Max(before) \in 0..char_len
    BY <1>3, <2>2
  <2> QED BY <1>1, <2>1, <2>3, MovesKeep
<1>5. CASE CursorDown
  <2>1. behind # {} /\ MoveTo(Min(behind))
    BY <1>5 DEF CursorDown
  <2>2. Min(behind) \in behind
    BY <1>2, <1>3, <2>1, MinOfNats
  <2>3. Min(behind) \in 0..char_len
    BY <1>3, <2>2
  <2> QED BY <1>1, <2>1, <2>3, MovesKeep
<1>6. CASE CursorLeft
  <2>1. (IF text_buffer_pos > 0 THEN text_buffer_pos - 1 ELSE 0) \in 0..char_len
    BY <1>2
  <2> QED BY <1>1, <1>6, <2>1, MovesKeep DEF CursorLeft
<1>7. CASE CursorRight
  <2>1. (IF text_buffer_pos < char_len THEN text_buffer_pos + 1 ELSE text_buffer_pos) \in 0..char_len
    BY <1>2
  <2> QED BY <1>1, <1>7, <2>1, MovesKeep DEF CursorRight
<1> QED BY <1>4, <1>5, <1>6, <1>7

\* Every key is a step of EditText.
LEMMA StepRefines ==
  IInv /\ [Next]_vars =>
    IInv' /\ [AsText!Next]_<<Opened, IF Opened THEN Text ELSE <<>>, IF Opened THEN text_buffer_pos ELSE 0, FileText>>
<1> SUFFICES ASSUME IInv, [Next]_vars
             PROVE  /\ IInv'
                    /\ [AsText!Next]_<<Opened, IF Opened THEN Text ELSE <<>>,
                                       IF Opened THEN text_buffer_pos ELSE 0, FileText>>
  OBVIOUS
<1>1. CASE UNCHANGED vars
  <2>1. IInv'
    BY <1>1 DEF vars, IInv, Fits, CursorInView, CursorLine
  <2>2. UNCHANGED <<Opened, Text, text_buffer_pos, FileText>>
    BY <1>1 DEF vars, Opened, Text, FileText
  <2> QED BY <2>1, <2>2
<1>2. CASE init_editor
  BY <1>2, OpenKeeps DEF AsText!Next
<1>3. ASSUME NEW c \in Chars, EnterAgain \/ TypeKey(c) PROVE IInv' /\ \E d \in Chars : AsText!Type(d)
  <2>1. mode = 2 /\ entered' \in BOOLEAN
    BY <1>3 DEF EnterAgain, TypeKey, UserKey, Key, IInv
  <2>2. editor_write(NL) \/ editor_write(c)
    BY <1>3 DEF EnterAgain, TypeKey
  <2>3. NL \in Chars
    BY DEF Chars
  <2> QED BY <2>1, <2>2, <2>3, WriteKeeps
<1>4. CASE editor_backspace
  BY <1>4, BackspaceKeeps DEF AsText!Next
<1>5. CASE QuitKey \/ WriteKey \/ SaveAndQuitKey
  BY <1>5, SaveAndLeaveKeep DEF AsText!Next
<1>6. CASE CursorUp \/ CursorDown \/ CursorLeft \/ CursorRight
  BY <1>6, CursorKeeps DEF AsText!Next
<1>7. ASSUME EnterAgain PROVE IInv' /\ \E d \in Chars : AsText!Type(d)
  <2>1. NL \in Chars
    BY DEF Chars
  <2> QED BY <1>3, <1>7, <2>1
<1> QED BY <1>1, <1>2, <1>3, <1>4, <1>5, <1>6, <1>7 DEF Next, AsText!Next

-----------------------------------------------------------------------------
(* Where lines are drawn *)

\* Induction, over a set.
LEMMA AllNats ==
  ASSUME NEW S \in SUBSET Nat, 0 \in S, \A k \in S : k + 1 \in S
  PROVE  S = Nat
<1> SUFFICES ASSUME NEW n \in Nat, n \notin S PROVE FALSE
  OBVIOUS
<1>1. PICK x \in Nat \ S : \A y \in Nat \ S : x <= y
  <2>1. Nat \ S \in SUBSET Nat /\ Nat \ S # {}
    OBVIOUS
  <2> QED BY <2>1, MinOfNats
<1>2. x - 1 \in Nat /\ x - 1 \notin Nat \ S
  BY <1>1
<1> QED BY <1>1, <1>2

\* A function that is given by a first value and by the next value of each.
Counts(f, n, step) == /\ f \in [0..n -> Nat] /\ f[0] = 0
                      /\ \A p \in 1..n : f[p] = step[<<p - 1, f[p - 1]>>]

LEMMA CountsAgree ==
  ASSUME NEW step \in [Nat \X Nat -> Nat], NEW m \in Nat, NEW n \in Nat, NEW f, NEW g,
         Counts(f, m, step), Counts(g, n, step), NEW p \in Nat, p <= m, p <= n
  PROVE  f[p] = g[p]
<1> DEFINE S == {k \in Nat : k <= m /\ k <= n => f[k] = g[k]}
<1>1. 0 \in S
  BY DEF Counts
<1>2. ASSUME NEW k \in S PROVE k + 1 \in S
  <2> SUFFICES ASSUME k + 1 <= m, k + 1 <= n PROVE f[k+1] = g[k+1]
    OBVIOUS
  <2>1. k \in Nat /\ f[k] = g[k] /\ k + 1 \in 1..m /\ k + 1 \in 1..n /\ (k + 1) - 1 = k
    OBVIOUS
  <2>2. f[k+1] = step[<<k, f[k]>>] /\ g[k+1] = step[<<k, g[k]>>]
    BY <2>1 DEF Counts
  <2> QED BY <2>1, <2>2
<1>3. S = Nat
  <2> HIDE DEF S
  <2>1. S \in SUBSET Nat
    BY DEF S
  <2> QED BY <1>1, <1>2, <2>1, AllNats
<1> QED BY <1>3

LEMMA CountsExist ==
  ASSUME NEW step \in [Nat \X Nat -> Nat], NEW n \in Nat
  PROVE  \E f : Counts(f, n, step)
<1> DEFINE S == {k \in Nat : \E f : Counts(f, k, step)}
<1>1. 0 \in S
  <2>1. Counts([i \in 0..0 |-> 0], 0, step)
    BY DEF Counts
  <2> QED BY <2>1
<1>2. ASSUME NEW k \in S PROVE k + 1 \in S
  <2>1. PICK f : Counts(f, k, step)
    OBVIOUS
  <2>2. k \in Nat
    OBVIOUS
  <2> DEFINE g == [i \in 0..k+1 |-> IF i = k + 1 THEN step[<<k, f[k]>>] ELSE f[i]]
  <2>3. f[k] \in Nat /\ step[<<k, f[k]>>] \in Nat
    BY <2>1, <2>2 DEF Counts
  <2>4. g \in [0..k+1 -> Nat] /\ g[0] = 0
    BY <2>1, <2>2, <2>3 DEF Counts
  <2>5. ASSUME NEW p \in 1..k+1 PROVE g[p] = step[<<p - 1, g[p - 1]>>]
    <3>1. p - 1 \in 0..k /\ g[p - 1] = f[p - 1]
      BY <2>2
    <3>2. CASE p = k + 1
      <4>1. p - 1 = k /\ g[p] = step[<<k, f[k]>>]
        BY <2>2, <3>2
      <4> QED BY <3>1, <4>1
    <3>3. CASE p # k + 1
      <4>1. p \in 1..k /\ g[p] = f[p]
        BY <2>2, <3>3
      <4> QED BY <2>1, <3>1, <4>1 DEF Counts
    <3> QED BY <3>2, <3>3
  <2> HIDE DEF g
  <2>6. Counts(g, k + 1, step)
    BY <2>4, <2>5 DEF Counts
  <2> QED BY <2>2, <2>6
<1>3. S = Nat
  <2> HIDE DEF S
  <2>1. S \in SUBSET Nat
    BY DEF S
  <2> QED BY <1>1, <1>2, <2>1, AllNats
<1> QED BY <1>3

\* A recursive definition that goes from each number to the next is that of a
\* function.
LEMMA Counted ==
  ASSUME NEW step \in [Nat \X Nat -> Nat]
  PROVE  \E f \in [Nat -> Nat] : f[0] = 0 /\ \A p \in Nat : f[p + 1] = step[<<p, f[p]>>]
<1> DEFINE part(n) == CHOOSE g : Counts(g, n, step)
           f == [n \in Nat |-> part(n)[n]]
<1>1. ASSUME NEW n \in Nat PROVE Counts(part(n), n, step)
  BY CountsExist
<1>2. ASSUME NEW n \in Nat PROVE part(n)[n] \in Nat
  <2>1. Counts(part(n), n, step)
    BY <1>1
  <2> HIDE DEF part
  <2> QED BY <2>1 DEF Counts
<1>3. f \in [Nat -> Nat]
  BY <1>2
<1>4. f[0] = 0
  <2>1. Counts(part(0), 0, step)
    BY <1>1
  <2> QED BY <2>1 DEF Counts
<1>5. ASSUME NEW p \in Nat PROVE f[p + 1] = step[<<p, f[p]>>]
  <2> HIDE DEF part
  <2>1. Counts(part(p), p, step) /\ Counts(part(p + 1), p + 1, step)
    BY <1>1
  <2>2. part(p)[p] = part(p + 1)[p]
    BY <2>1, CountsAgree
  <2>3. p + 1 \in 1..p + 1 /\ (p + 1) - 1 = p
    OBVIOUS
  <2>4. part(p + 1)[p + 1] = step[<<p, part(p + 1)[p]>>]
    BY <2>1, <2>3 DEF Counts
  <2> QED BY <2>2, <2>4
<1> HIDE DEF f
<1> QED BY <1>3, <1>4, <1>5

LEMMA Sizes == /\ Width \in Nat /\ Width > 1 /\ NL # TAB
  BY EditorAssumption

LEMMA WidenedIn == ASSUME NEW buf, NEW i, NEW len \in Nat PROVE Widened(buf, i, len) \in Nat
<1>1. len % 4 \in 0..3
  OBVIOUS
<1> QED BY <1>1 DEF Widened

\* What the count of assign_line_starts comes to.
LEMMA LineLens ==
  ASSUME NEW buf
  PROVE  /\ line_len(buf) \in [Nat -> Nat] /\ line_len(buf)[0] = 0
         /\ \A i \in Nat : line_len(buf)[i + 1] =
              IF Breaks(buf, i, line_len(buf)[i]) THEN 0 ELSE Widened(buf, i, line_len(buf)[i]) + 1
<1> DEFINE step == [x \in Nat \X Nat |-> IF Breaks(buf, x[1], x[2]) THEN 0
                                         ELSE Widened(buf, x[1], x[2]) + 1]
           Is(f) == f = [i \in Nat |-> IF i = 0 THEN 0
                                       ELSE IF Breaks(buf, i-1, f[i-1]) THEN 0
                                       ELSE Widened(buf, i-1, f[i-1]) + 1]
<1>1. step \in [Nat \X Nat -> Nat]
  BY WidenedIn
<1>2. PICK f \in [Nat -> Nat] : f[0] = 0 /\ \A p \in Nat : f[p + 1] = step[<<p, f[p]>>]
  <2> HIDE DEF step
  <2> QED BY <1>1, Counted
<1>3. Is(f)
  <2>1. ASSUME NEW i \in Nat
        PROVE  f[i] = IF i = 0 THEN 0 ELSE IF Breaks(buf, i-1, f[i-1]) THEN 0
                      ELSE Widened(buf, i-1, f[i-1]) + 1
    <3>1. CASE i = 0
      BY <1>2, <3>1
    <3>2. CASE i # 0
      <4>1. i - 1 \in Nat /\ (i - 1) + 1 = i
        BY <3>2
      <4>2. f[i] = step[<<i - 1, f[i - 1]>>] /\ f[i - 1] \in Nat
        BY <1>2, <4>1
      <4> QED BY <3>2, <4>1, <4>2
    <3> QED BY <3>1, <3>2
  <2>2. DOMAIN f = Nat /\ f = [i \in Nat |-> f[i]]
    BY <1>2
  <2> QED BY <2>1, <2>2
<1>4. Is(line_len(buf))
  <2>1. line_len(buf) = CHOOSE g : Is(g)
    BY DEF line_len
  <2>2. \E g : Is(g)
    BY <1>3
  <2> HIDE DEF Is
  <2> QED BY <2>1, <2>2
<1> DEFINE len == line_len(buf)
<1>5. /\ DOMAIN len = Nat /\ len[0] = 0
      /\ \A i \in Nat : len[i + 1] = IF Breaks(buf, i, len[i]) THEN 0 ELSE Widened(buf, i, len[i]) + 1
  <2> HIDE DEF len
  <2>1. Is(len)
    BY <1>4 DEF len
  <2>2. ASSUME NEW i \in Nat
        PROVE  len[i + 1] = IF Breaks(buf, i, len[i]) THEN 0 ELSE Widened(buf, i, len[i]) + 1
    <3>1. i + 1 \in Nat /\ i + 1 # 0 /\ (i + 1) - 1 = i
      OBVIOUS
    <3> QED BY <2>1, <3>1
  <2> QED BY <2>1, <2>2
<1>6. len \in [Nat -> Nat]
  <2> HIDE DEF len
  <2> DEFINE S == {i \in Nat : len[i] \in Nat}
  <2>1. 0 \in S
    BY <1>5
  <2>2. ASSUME NEW i \in S PROVE i + 1 \in S
    BY <1>5, WidenedIn
  <2>3. S = Nat
    <3> HIDE DEF S
    <3>1. S \in SUBSET Nat
      BY DEF S
    <3> QED BY <2>1, <2>2, <3>1, AllNats
  <2>4. len = [i \in Nat |-> len[i]]
    <3>1. Is(len)
      BY <1>4 DEF len
    <3> QED BY <3>1
  <2> QED BY <2>3, <2>4
<1> QED BY <1>5, <1>6

LEMMA PadIn == ASSUME NEW t \in Nat, NEW c PROVE Pad(t, c) \in Nat
<1>1. t % Width \in 0..Width-1 /\ (t % Width) % 4 \in 0..3
  BY Sizes
<1> QED BY <1>1, Sizes DEF Pad

\* Where the loop that draws puts each character.
LEMMA Cells ==
  ASSUME NEW buf
  PROVE  /\ Cell(buf)[0] = 0 /\ Cell(buf) \in [Nat -> Nat]
         /\ \A p \in Nat : Cell(buf)[p + 1] =
              Cell(buf)[p] + (IF buf[p] \notin {NL, TAB} THEN 1 ELSE Pad(Cell(buf)[p], buf[p]))
<1> DEFINE step == [x \in Nat \X Nat |-> x[2] + (IF buf[x[1]] \notin {NL, TAB} THEN 1
                                                 ELSE Pad(x[2], buf[x[1]]))]
           Is(f) == f = [p \in Nat |-> IF p = 0 THEN 0
                                       ELSE f[p-1] + (IF Plain(buf, [p |-> p-1]) THEN 1
                                                      ELSE Pad(f[p-1], buf[p-1]))]
<1>1. step \in [Nat \X Nat -> Nat]
  BY PadIn
<1>2. PICK f \in [Nat -> Nat] : f[0] = 0 /\ \A p \in Nat : f[p + 1] = step[<<p, f[p]>>]
  <2> HIDE DEF step
  <2> QED BY <1>1, Counted
<1>3. \A i : Plain(buf, [p |-> i]) <=> buf[i] \notin {NL, TAB}
  BY DEF Plain
<1>4. Is(f)
  <2>1. ASSUME NEW i \in Nat
        PROVE  f[i] = IF i = 0 THEN 0 ELSE f[i-1] + (IF Plain(buf, [p |-> i-1]) THEN 1
                                                      ELSE Pad(f[i-1], buf[i-1]))
    <3>1. CASE i = 0
      BY <1>2, <3>1
    <3>2. CASE i # 0
      <4>1. i - 1 \in Nat /\ (i - 1) + 1 = i
        BY <3>2
      <4>2. f[i] = step[<<i - 1, f[i - 1]>>] /\ f[i - 1] \in Nat
        BY <1>2, <4>1
      <4>3. step[<<i - 1, f[i - 1]>>] = f[i-1] + (IF buf[i-1] \notin {NL, TAB} THEN 1
                                                  ELSE Pad(f[i-1], buf[i-1]))
        BY <4>1, <4>2
      <4> QED BY <1>3, <3>2, <4>2, <4>3
    <3> QED BY <3>1, <3>2
  <2>2. DOMAIN f = Nat /\ f = [i \in Nat |-> f[i]]
    BY <1>2
  <2> QED BY <2>1, <2>2
<1>5. Is(Cell(buf))
  <2>1. Cell(buf) = CHOOSE g : Is(g)
    BY DEF Cell
  <2>2. \E g : Is(g)
    BY <1>4
  <2> HIDE DEF Is
  <2> QED BY <2>1, <2>2
<1> DEFINE cell == Cell(buf)
<1>6. /\ DOMAIN cell = Nat /\ cell[0] = 0
      /\ \A p \in Nat : cell[p + 1] = cell[p] + (IF buf[p] \notin {NL, TAB} THEN 1
                                                 ELSE Pad(cell[p], buf[p]))
  <2> HIDE DEF cell
  <2>1. Is(cell)
    BY <1>5 DEF cell
  <2>2. ASSUME NEW i \in Nat
        PROVE  cell[i + 1] = cell[i] + (IF buf[i] \notin {NL, TAB} THEN 1 ELSE Pad(cell[i], buf[i]))
    <3>1. i + 1 \in Nat /\ i + 1 # 0 /\ (i + 1) - 1 = i
      OBVIOUS
    <3> QED BY <1>3, <2>1, <3>1
  <2> QED BY <2>1, <2>2
<1>7. cell \in [Nat -> Nat]
  <2> HIDE DEF cell
  <2> DEFINE S == {i \in Nat : cell[i] \in Nat}
  <2>1. 0 \in S
    BY <1>6
  <2>2. ASSUME NEW i \in S PROVE i + 1 \in S
    BY <1>6, PadIn
  <2>3. S = Nat
    <3> HIDE DEF S
    <3>1. S \in SUBSET Nat
      BY DEF S
    <3> QED BY <2>1, <2>2, <3>1, AllNats
  <2>4. cell = [i \in Nat |-> cell[i]]
    <3>1. Is(cell)
      BY <1>5 DEF cell
    <3> QED BY <3>1
  <2> QED BY <2>3, <2>4
<1> QED BY <1>6, <1>7

LEMMA MulLe ==
  ASSUME NEW a \in Nat, NEW b \in Nat, NEW c \in Nat, a <= b PROVE a * c <= b * c
<1>1. PICK d \in Nat : b = a + d
  <2>1. b - a \in Nat /\ b = a + (b - a)
    OBVIOUS
  <2> QED BY <2>1
<1>2. b * c = a * c + d * c
  BY <1>1
<1>3. d * c \in Nat /\ a * c \in Nat
  BY <1>1
<1> QED BY <1>2, <1>3

\* The rest of a row: what a newline fills up.
LEMMA RestOfRow ==
  ASSUME NEW q \in Nat, NEW m \in 0..Width-1, NEW t, t = q * Width + m
  PROVE  t + (Width - (t % Width)) = (q + 1) * Width
<1> PICK w \in Nat : w = Width /\ w > 1
  BY Sizes
<1>1. q * w \in Nat /\ (q + 1) * w = q * w + w
  OBVIOUS
<1>2. t % w = m
  BY <1>1
<1> QED BY <1>1, <1>2

\* The number of the line of the next character.
LEMMA NextLine ==
  ASSUME NEW buf, NEW n \in Nat, NEW p \in 0..n-1
  PROVE  LET starts == line_starts(buf, n)
         IN  LineOf(starts, p + 1) = IF Breaks(buf, p, line_len(buf)[p]) THEN LineOf(starts, p) + 1
                                     ELSE LineOf(starts, p)
<1> DEFINE starts == line_starts(buf, n)
           upto(i) == {s \in starts : s <= i}
<1>1. starts \subseteq Nat /\ IsFiniteSet(upto(p))
  <2>1. starts \subseteq 0..n
    BY StartsIn
  <2>2. IsFiniteSet(0..n) /\ upto(p) \subseteq 0..n
    BY <2>1, FS_Interval
  <2> QED BY <2>1, <2>2, FS_Subset
<1>2. p + 1 \in starts <=> Breaks(buf, p, line_len(buf)[p])
  <2>1. p + 1 \in 1..n /\ (p + 1) - 1 = p /\ p + 1 # 0
    OBVIOUS
  <2> QED BY <2>1 DEF line_starts
<1> HIDE DEF starts
<1>3. upto(p + 1) = IF p + 1 \in starts THEN upto(p) \cup {p + 1} ELSE upto(p)
  <2>1. \A s \in starts : s <= p + 1 <=> s <= p \/ s = p + 1
    BY <1>1
  <2> QED BY <2>1
<1>4. p + 1 \notin upto(p) /\ Cardinality(upto(p)) \in Nat
  BY <1>1, FS_CardinalityType
<1>5. Cardinality(upto(p + 1)) = IF p + 1 \in starts THEN Cardinality(upto(p)) + 1
                                 ELSE Cardinality(upto(p))
  <2>1. Cardinality(upto(p) \cup {p + 1}) = Cardinality(upto(p)) + 1
    BY <1>1, <1>4, FS_AddElement
  <2> QED BY <1>3, <2>1
<1> QED BY <1>2, <1>4, <1>5 DEF LineOf, starts

\* The two counts agree: in a text without tabs character p is drawn in the row
\* of its line, as far from its beginning as there are characters before it.
LEMMA DrawnInRows ==
  ASSUME NEW buf, NEW n \in Nat, \A i \in 0..n-1 : buf[i] # TAB, NEW p \in 0..n
  PROVE  /\ Cell(buf)[p] = LineOf(line_starts(buf, n), p) * Width + line_len(buf)[p]
         /\ line_len(buf)[p] \in 0..Width-1
<1> DEFINE starts == line_starts(buf, n)
           cell == Cell(buf)
           len == line_len(buf)
           line(i) == LineOf(starts, i)
           Same(i) == cell[i] = line(i) * Width + len[i] /\ len[i] \in 0..Width-1
           S == {i \in Nat : i <= n => Same(i)}
<1>1. line(0) = 0
  <2>1. {s \in starts : s <= 0} = {0}
    BY StartsIn
  <2>2. Cardinality({0}) = 1
    BY FS_Singleton
  <2> QED BY <2>1, <2>2 DEF LineOf
<1>2. 0 \in S
  <2>1. cell[0] = 0 /\ len[0] = 0
    BY Cells, LineLens
  <2>2. Same(0)
    BY <1>1, <2>1, Sizes
  <2> QED BY <2>2
<1>3. ASSUME NEW i \in S PROVE i + 1 \in S
  <2> SUFFICES ASSUME i + 1 <= n PROVE Same(i + 1)
    OBVIOUS
  <2>1. i \in Nat /\ i \in 0..n-1 /\ Same(i) /\ buf[i] # TAB
    OBVIOUS
  <2>2. line(i) \in Nat
    BY <2>1, LineIn
  <2>3. Widened(buf, i, len[i]) = len[i]
    BY <2>1 DEF Widened
  <2>4. Breaks(buf, i, len[i]) <=> buf[i] = NL \/ len[i] >= Width - 1
    BY <2>3 DEF Breaks
  <2>5. len[i + 1] = IF Breaks(buf, i, len[i]) THEN 0 ELSE len[i] + 1
    BY <2>1, <2>3, LineLens
  <2>6. line(i + 1) = IF Breaks(buf, i, len[i]) THEN line(i) + 1 ELSE line(i)
    BY <2>1, NextLine
  <2>7. cell[i + 1] = cell[i] + (IF buf[i] # NL THEN 1 ELSE Pad(cell[i], NL))
    BY <2>1, Cells
  <2> HIDE DEF line, cell, len
  <2>8. PICK w \in Nat : w = Width /\ w > 1
    BY Sizes
  <2>9. line(i) * w \in Nat /\ (line(i) + 1) * w = line(i) * w + w
    BY <2>2, <2>8
  <2>10. CASE buf[i] = NL
    <3>1. cell[i] + (Width - (cell[i] % Width)) = (line(i) + 1) * Width
      BY <2>1, <2>2, RestOfRow
    <3>2. cell[i + 1] = (line(i) + 1) * Width
      BY <2>7, <2>10, <3>1 DEF Pad
    <3> QED BY <2>4, <2>5, <2>6, <2>8, <2>9, <2>10, <3>2
  <2>11. CASE buf[i] # NL /\ len[i] >= Width - 1
    BY <2>1, <2>4, <2>5, <2>6, <2>7, <2>8, <2>9, <2>11
  <2>12. CASE buf[i] # NL /\ ~(len[i] >= Width - 1)
    BY <2>1, <2>4, <2>5, <2>6, <2>7, <2>8, <2>9, <2>12
  <2> QED BY <2>10, <2>11, <2>12
<1>4. S = Nat
  <2> HIDE DEF S
  <2>1. S \in SUBSET Nat
    BY DEF S
  <2> QED BY <1>2, <1>3, <2>1, AllNats
<1>5. Same(p)
  <2>1. p \in S /\ p <= n
    BY <1>4
  <2> QED BY <2>1
<1> QED BY <1>5

\* Where a line begins, no character is before it in the line.
LEMMA LinesBeginRows ==
  ASSUME NEW buf, NEW n \in Nat, \A i \in 0..n-1 : buf[i] # TAB, NEW s \in line_starts(buf, n)
  PROVE  Cell(buf)[s] = LineOf(line_starts(buf, n), s) * Width
<1>1. s \in 0..n
  BY StartsIn
<1>2. line_len(buf)[s] = 0
  <2>1. CASE s = 0
    BY <2>1, LineLens
  <2>2. CASE s # 0
    <3>1. s - 1 \in Nat /\ (s - 1) + 1 = s /\ Breaks(buf, s-1, line_len(buf)[s-1])
      BY <1>1, <2>2 DEF line_starts
    <3> QED BY <3>1, LineLens
  <2> QED BY <2>1, <2>2
<1>3. LineOf(line_starts(buf, n), s) \in Nat
  BY <1>1, LineIn
<1>4. LineOf(line_starts(buf, n), s) * Width \in Nat
  BY <1>3, Sizes
<1> QED BY <1>1, <1>2, <1>4, DrawnInRows

LEMMA InvVisible == IInv => CursorVisible
<1> SUFFICES ASSUME IInv, mode = 2, ~entered, \A i \in 0..char_len-1 : text_buffer[i] # TAB,
                    NEW s \in line_starts(text_buffer, char_len)
             PROVE  Cell(text_buffer)[s] = LineOf(line_starts(text_buffer, char_len), s) * Width
  BY DEF CursorVisible, IInv
<1>1. char_len \in Nat
  BY DEF IInv, Fits
<1> QED BY <1>1, LinesBeginRows

-----------------------------------------------------------------------------
(* Where the loop that draws comes *)

\* Where a pass of the loop begins: at cell t and character p.
Spots == [t : Nat, p : Nat]
Over(buf, s) == AfterBlanks(buf, s).t = Screen /\ Plain(buf, AfterBlanks(buf, s))

LEMMA ScreenIn == Rows \in Nat /\ Rows >= 1 /\ Screen = Width * Rows /\ Screen \in Nat
  BY EditorAssumption DEF Rows, Screen

LEMMA MinOfTwo == ASSUME NEW a \in Nat, NEW b \in Nat
                  PROVE  Min({a, b}) = IF a <= b THEN a ELSE b
<1>1. Min({a, b}) \in {a, b} /\ \A y \in {a, b} : Min({a, b}) <= y
  BY MinOfNats
<1> QED BY <1>1

LEMMA BlanksOf ==
  ASSUME NEW buf, NEW c, NEW s \in Spots
  PROVE  LET r == Blanks(buf, c, s)
         IN  /\ r \in Spots
             /\ buf[s.p] = c => /\ r.p = s.p + 1
                                /\ r.t = IF s.t + Pad(s.t, c) <= Screen THEN s.t + Pad(s.t, c)
                                         ELSE Screen
             /\ buf[s.p] # c => r = s
<1>1. s.t \in Nat /\ s.p \in Nat
  BY DEF Spots
<1>2. CASE buf[s.p] = c
  <2>1. Pad(s.t, c) \in Nat /\ s.t + Pad(s.t, c) \in Nat /\ Screen \in Nat
    BY <1>1, PadIn, ScreenIn
  <2>2. Min({s.t + Pad(s.t, c), Screen}) = IF s.t + Pad(s.t, c) <= Screen THEN s.t + Pad(s.t, c)
                                           ELSE Screen
    BY <2>1, MinOfTwo
  <2>3. Blanks(buf, c, s) = [t |-> Min({s.t + Pad(s.t, c), Screen}), p |-> s.p + 1]
    BY <1>2 DEF Blanks
  <2> QED BY <1>1, <1>2, <2>1, <2>2, <2>3 DEF Spots
<1>3. CASE buf[s.p] # c
  BY <1>3 DEF Blanks
<1> QED BY <1>2, <1>3

\* A pass goes on by at least one character.
LEMMA PassOf ==
  ASSUME NEW buf, NEW s \in Spots
  PROVE  Pass(buf, s) \in Spots /\ Pass(buf, s).p > s.p
<1> DEFINE s1 == Blanks(buf, NL, s)
           s2 == Blanks(buf, TAB, s1)
<1>1. s1 \in Spots /\ (buf[s.p] = NL => s1.p = s.p + 1) /\ (buf[s.p] # NL => s1 = s)
  BY BlanksOf
<1>2. s2 \in Spots /\ (buf[s1.p] = TAB => s2.p = s1.p + 1) /\ (buf[s1.p] # TAB => s2 = s1)
  <2> HIDE DEF s1
  <2> QED BY <1>1, BlanksOf
<1>3. AfterBlanks(buf, s) = s2
  BY DEF AfterBlanks
<1> HIDE DEF s1, s2
<1>4. /\ s.p \in Nat /\ s1.p \in Nat /\ s2.p \in Nat /\ s2.t \in Nat
  BY <1>1, <1>2 DEF Spots
<1>5. Pass(buf, s) = IF buf[s2.p] \notin {NL, TAB} THEN [t |-> s2.t + 1, p |-> s2.p + 1] ELSE s2
  BY <1>3 DEF Pass, Plain
<1>6. CASE buf[s2.p] \notin {NL, TAB}
  <2>1. [t |-> s2.t + 1, p |-> s2.p + 1] \in Spots
    BY <1>4 DEF Spots
  <2>2. s2.p + 1 > s.p
    BY <1>1, <1>2, <1>4
  <2> QED BY <1>5, <1>6, <2>1, <2>2
<1>7. CASE buf[s2.p] \in {NL, TAB}
  <2>1. s2.p > s.p
    BY <1>1, <1>2, <1>4, <1>7
  <2> QED BY <1>2, <1>5, <1>7, <2>1
<1> QED BY <1>6, <1>7

\* Overruns is the value of a function that there is: the one that is true for
\* as few arguments as possible.
LEMMA OverrunsOf ==
  ASSUME NEW buf, NEW n \in Nat, NEW start \in Nat, Overruns(buf, n, start)
  PROVE  \E X \in SUBSET Spots :
           /\ [t |-> 0, p |-> start] \in X
           /\ \A s \in X : s.t < Screen /\ s.p < n /\ (Over(buf, s) \/ Pass(buf, s) \in X)
<1> DEFINE Leads(s, X) == s.t < Screen /\ s.p < n /\ (Over(buf, s) \/ Pass(buf, s) \in X)
           Closed(X) == \A s \in Spots : Leads(s, X) => s \in X
           R == {s \in Spots : \A X \in SUBSET Spots : Closed(X) => s \in X}
           F == [s \in Spots |-> s \in R]
           Is(f) == f = [s \in [t : Nat, p : Nat] |->
                           LET r == AfterBlanks(buf, s)
                           IN  /\ s.t < Screen /\ s.p < n
                               /\ \/ r.t = Screen /\ Plain(buf, r)
                                  \/ f[Pass(buf, s)]]
<1>1. ASSUME NEW X, NEW Y, X \subseteq Y, NEW s, Leads(s, X) PROVE Leads(s, Y)
  BY <1>1
<1>2. R \in SUBSET Spots
  OBVIOUS
<1>3. ASSUME NEW s \in Spots, Leads(s, R) PROVE s \in R
  <2> SUFFICES ASSUME NEW X \in SUBSET Spots, Closed(X) PROVE s \in X
    OBVIOUS
  <2>1. R \subseteq X
    OBVIOUS
  <2>2. Leads(s, X)
    <3> HIDE DEF R, Leads
    <3> QED BY <1>1, <1>3, <2>1
  <2> HIDE DEF Leads
  <2> QED BY <2>2
<1>4. ASSUME NEW s \in R PROVE Leads(s, R)
  <2> DEFINE Q == {x \in Spots : Leads(x, R)}
  <2> HIDE DEF Leads
  <2>1. Q \subseteq R
    <3> HIDE DEF R
    <3> QED BY <1>3
  <2>2. ASSUME NEW x \in Spots, Leads(x, Q) PROVE x \in Q
    <3>1. Leads(x, R)
      <4> HIDE DEF R, Q
      <4> QED BY <1>1, <2>1, <2>2
    <3> HIDE DEF R
    <3> QED BY <3>1
  <2>3. Q \in SUBSET Spots
    OBVIOUS
  <2>4. Closed(Q)
    <3> HIDE DEF Q
    <3> QED BY <2>2
  <2>5. s \in Q
    <3> HIDE DEF Q
    <3> QED BY <2>3, <2>4
  <2> HIDE DEF R
  <2> QED BY <2>5
<1>5. Is(F)
  <2> HIDE DEF R
  <2>1. ASSUME NEW s \in Spots
        PROVE  F[s] = (/\ s.t < Screen /\ s.p < n
                       /\ Over(buf, s) \/ F[Pass(buf, s)])
    <3>1. F[s] = (s \in R)
      OBVIOUS
    <3>2. F[Pass(buf, s)] = (Pass(buf, s) \in R)
      BY PassOf
    <3>3. s \in R <=> s.t < Screen /\ s.p < n /\ (Over(buf, s) \/ Pass(buf, s) \in R)
      BY <1>3, <1>4
    <3>4. (s \in R) = (/\ s.t < Screen /\ s.p < n
                       /\ Over(buf, s) \/ (Pass(buf, s) \in R))
      <4> DEFINE a == s.t < Screen
                 b == s.p < n
                 c == Over(buf, s)
                 d == Pass(buf, s) \in R
      <4>1. s \in R <=> a /\ b /\ (c \/ d)
        BY <3>3
      <4> HIDE DEF a, b, c, d
      <4>2. (s \in R) = (a /\ b /\ (c \/ d))
        BY <4>1, SMT
      <4> QED BY <4>2 DEF a, b, c, d
    <3> HIDE DEF F
    <3> QED BY ONLY <3>1, <3>2, <3>4
  <2>2. F = [s \in Spots |-> F[s]]
    OBVIOUS
  <2> HIDE DEF F
  <2> QED BY <2>1, <2>2 DEF Over, Spots
<1> DEFINE first == [t |-> 0, p |-> start]
<1>6. PICK f : Is(f) /\ f[first]
  <2>1. \E f : Is(f)
    <3> HIDE DEF Is, F
    <3> QED BY <1>5
  <2>2. Overruns(buf, n, start) = (CHOOSE f : Is(f))[first]
    BY DEF Overruns
  <2> HIDE DEF Is
  <2> QED BY <2>1, <2>2
<1> DEFINE X == {x \in Spots : f[x]}
<1>7. first \in X
  BY <1>6 DEF Spots
<1>8. ASSUME NEW s \in X PROVE Leads(s, X)
  <2>1. s \in Spots /\ f[s]
    OBVIOUS
  <2>2. f[s] = (/\ s.t < Screen /\ s.p < n /\ (Over(buf, s) \/ f[Pass(buf, s)]))
    BY <1>6, <2>1 DEF Over, Spots
  <2>3. Pass(buf, s) \in Spots
    BY <2>1, PassOf
  <2> QED BY <2>1, <2>2, <2>3
<1> QED BY <1>7, <1>8

\* A line is never counted longer than a row.
LEMMA LenBelow ==
  ASSUME NEW buf, NEW p \in Nat
  PROVE  line_len(buf)[p] \in 0..Width-1
<1> DEFINE len == line_len(buf)
           S == {i \in Nat : len[i] \in 0..Width-1}
<1>1. 0 \in S
  BY LineLens, Sizes
<1>2. ASSUME NEW i \in S PROVE i + 1 \in S
  <2>1. i \in Nat /\ len[i] \in Nat
    BY Sizes
  <2>2. len[i + 1] = IF Breaks(buf, i, len[i]) THEN 0 ELSE Widened(buf, i, len[i]) + 1
    BY <2>1, LineLens
  <2>3. Widened(buf, i, len[i]) \in Nat
    BY <2>1, WidenedIn
  <2>4. ~Breaks(buf, i, len[i]) => Widened(buf, i, len[i]) < Width - 1
    BY <2>3, Sizes DEF Breaks
  <2>5. len[i + 1] \in 0..Width-1
    <3> HIDE DEF len
    <3> QED BY <2>2, <2>3, <2>4, Sizes
  <2> QED BY <2>1, <2>5
<1>3. S = Nat
  <2> HIDE DEF S
  <2>1. S \in SUBSET Nat
    BY DEF S
  <2> QED BY <1>1, <1>2, <2>1, AllNats
<1> QED BY <1>3

\* A newline and a tab do not go farther than the count of lines has it, in rows
\* of a multiple of four.
LEMMA NewlineWithin ==
  ASSUME NEW t \in Nat, NEW q \in Nat, t < (q + 1) * Width
  PROVE  t + Pad(t, NL) <= (q + 1) * Width
<1> PICK w \in Nat : w = Width /\ w > 1
  BY Sizes
<1>1. t \div w \in Nat /\ t % w \in 0..w-1 /\ t = (t \div w) * w + (t % w)
  OBVIOUS
<1>2. PICK d \in Nat : d = t \div w
  BY <1>1
<1>3. d <= q
  <2>1. SUFFICES ASSUME q + 1 <= d PROVE FALSE
    BY <1>2
  <2>2. (q + 1) * w <= d * w
    BY <1>2, <2>1, MulLe
  <2>3. (q + 1) * w \in Nat /\ d * w \in Nat
    OBVIOUS
  <2> QED BY <1>1, <1>2, <2>2, <2>3
<1>4. (d + 1) * w <= (q + 1) * w
  BY <1>3, MulLe
<1>5. (d + 1) * w = d * w + w /\ d * w \in Nat /\ (q + 1) * w \in Nat
  OBVIOUS
<1>6. Pad(t, NL) = w - (t % w)
  BY DEF Pad
<1> QED BY <1>1, <1>2, <1>4, <1>5, <1>6

LEMMA TabWithin ==
  ASSUME NEW t \in Nat, NEW q \in Nat, NEW len \in 0..Width-1, t <= q * Width + len, Width % 4 = 0
  PROVE  /\ t + Pad(t, TAB) <= (q + 1) * Width
         /\ t + Pad(t, TAB) <= q * Width + (len + 4 - (len % 4))
<1>1. PICK v \in Nat : Width = 4 * v
  <2>1. Width \div 4 \in Nat /\ Width = 4 * (Width \div 4)
    BY Sizes
  <2> QED BY <2>1
<1> DEFINE m == t % Width
<1>2. m \in Nat /\ t \div Width \in Nat /\ t = (t \div Width) * Width + m
  BY Sizes
<1>3. PICK d \in Nat : d = t \div Width
  BY <1>2
<1>4. PICK e \in Nat : e = d * v
  OBVIOUS
<1>5. d * Width = 4 * e
  BY <1>1, <1>4
<1>6. Pad(t, TAB) = 4 - (m % 4)
  BY Sizes DEF Pad
<1> HIDE DEF m
<1>7. t = 4 * e + m
  BY <1>2, <1>3, <1>5
<1>8. m % 4 = t % 4
  BY <1>2, <1>7
<1>9. PICK f \in Nat : f = q * v
  OBVIOUS
<1>10. q * Width = 4 * f /\ (q + 1) * Width = 4 * f + 4 * v
  BY <1>1, <1>9
<1>11. len \in Nat /\ len < 4 * v
  BY <1>1
<1>12. t <= 4 * f + len
  BY <1>10
<1>13. t + (4 - (t % 4)) <= 4 * f + 4 * v
  BY <1>11, <1>12
<1>14. t + (4 - (t % 4)) <= 4 * f + (len + 4 - (len % 4))
  BY <1>11, <1>12
<1> QED BY <1>6, <1>8, <1>10, <1>13, <1>14

LEMMA LineOrder ==
  ASSUME NEW buf, NEW n \in Nat, NEW p \in Nat, NEW r \in Nat, p <= r
  PROVE  LET starts == line_starts(buf, n)
         IN  LineOf(starts, p) <= LineOf(starts, r) /\ LineOf(starts, r) <= Cardinality(starts) - 1
<1> DEFINE starts == line_starts(buf, n)
           upto(i) == {s \in starts : s <= i}
<1>1. starts \subseteq Nat /\ IsFiniteSet(starts)
  <2>1. starts \subseteq 0..n /\ IsFiniteSet(0..n)
    BY StartsIn, FS_Interval
  <2> QED BY <2>1, FS_Subset
<1> HIDE DEF starts
<1>2. upto(p) \subseteq upto(r) /\ upto(r) \subseteq starts
  <2>1. \A x \in starts : x <= p => x <= r
    BY <1>1
  <2> QED BY <2>1
<1>3. IsFiniteSet(upto(r)) /\ Cardinality(upto(r)) <= Cardinality(starts)
  BY <1>1, <1>2, FS_Subset
<1>4. IsFiniteSet(upto(p)) /\ Cardinality(upto(p)) <= Cardinality(upto(r))
  BY <1>2, <1>3, FS_Subset
<1>5. Cardinality(upto(p)) \in Nat /\ Cardinality(upto(r)) \in Nat /\ Cardinality(starts) \in Nat
  BY <1>1, <1>3, <1>4, FS_CardinalityType
<1> QED BY <1>3, <1>4, <1>5 DEF LineOf, starts

\* Every line has a start.
LEMMA StartThere ==
  ASSUME NEW buf, NEW n \in Nat, NEW line \in Nat, line < Cardinality(line_starts(buf, n))
  PROVE  LET starts == line_starts(buf, n)
         IN  StartOf(starts, line) \in starts /\ LineOf(starts, StartOf(starts, line)) = line
<1> DEFINE starts == line_starts(buf, n)
           L(p) == LineOf(starts, p)
           Reach == {p \in 0..n : line <= L(p)}
<1>1. L(n) = Cardinality(starts) - 1
  <2>1. {s \in starts : s <= n} = starts
    BY StartsIn
  <2> QED BY <2>1 DEF LineOf
<1>2. Cardinality(starts) \in Nat
  <2>1. starts \subseteq 0..n /\ IsFiniteSet(0..n)
    BY StartsIn, FS_Interval
  <2>2. IsFiniteSet(starts)
    BY <2>1, FS_Subset
  <2> QED BY <2>2, FS_CardinalityType
<1>3. \A p \in Nat : L(p) \in Nat
  BY LineIn
<1>4. L(0) = 0
  <2>1. {s \in starts : s <= 0} = {0}
    BY StartsIn
  <2>2. Cardinality({0}) = 1
    BY FS_Singleton
  <2> QED BY <2>1, <2>2 DEF LineOf
<1>5. ASSUME NEW p \in 0..n-1 PROVE L(p + 1) = L(p) \/ (L(p + 1) = L(p) + 1 /\ p + 1 \in starts)
  <2>1. L(p + 1) = IF Breaks(buf, p, line_len(buf)[p]) THEN L(p) + 1 ELSE L(p)
    BY NextLine
  <2>2. Breaks(buf, p, line_len(buf)[p]) => p + 1 \in starts
    <3>1. p + 1 \in 1..n /\ (p + 1) - 1 = p
      OBVIOUS
    <3> QED BY <3>1 DEF line_starts
  <2> QED BY <2>1, <2>2
<1>6. 0 \in starts
  BY StartsIn
<1> HIDE DEF starts, L
<1>7. n \in Reach
  <2>1. Cardinality(line_starts(buf, n)) = Cardinality(starts)
    BY DEF starts
  <2>2. n \in 0..n /\ line <= L(n)
    BY <1>1, <1>2, <2>1
  <2> QED BY <2>2
<1>8. PICK p \in Reach : \A y \in Reach : p <= y
  <2>1. Reach \in SUBSET Nat /\ Reach # {}
    BY <1>7
  <2> QED BY <2>1, MinOfNats
<1>9. p \in starts /\ L(p) = line
  <2>1. CASE p = 0
    BY <1>4, <1>6, <1>8, <2>1
  <2>2. CASE p # 0
    <3>1. p - 1 \in 0..n-1 /\ (p - 1) + 1 = p /\ p - 1 \notin Reach
      BY <1>8, <2>2
    <3>2. L(p - 1) \in Nat /\ L(p) \in Nat /\ L(p - 1) < line /\ line <= L(p)
      BY <1>3, <1>8, <3>1
    <3>3. L(p) = L(p - 1) \/ (L(p) = L(p - 1) + 1 /\ p \in starts)
      BY <1>5, <3>1
    <3> QED BY <3>2, <3>3
  <2> QED BY <2>1, <2>2
<1> QED BY <1>9 DEF StartOf, L, starts

\* The loop that draws is never farther than the count of lines has it; so it is
\* still on the screen where a character is, if the lines are.
LEMMA NotOverrun ==
  ASSUME NEW buf, NEW n \in Nat, buf[n] \notin {NL, TAB},
         Width % 4 = 0 \/ \A i \in 0..n-1 : buf[i] # TAB,
         Cardinality(line_starts(buf, n)) <= Rows,
         NEW first \in Nat, first < Cardinality(line_starts(buf, n)),
         Overruns(buf, n, StartOf(line_starts(buf, n), first))
  PROVE  FALSE
<1> DEFINE starts == line_starts(buf, n)
           start == StartOf(starts, first)
           len == line_len(buf)
           q(p) == LineOf(starts, p) - first
           bound(p) == q(p) * Width + len[p]
           Good(s) == s.p >= start /\ (s.p <= n => s.t <= bound(s.p))
<1>1. start \in 0..n /\ LineOf(starts, start) = first /\ start \in starts
  BY StartThere, StartsIn
<1>2. PICK X \in SUBSET Spots :
        /\ [t |-> 0, p |-> start] \in X
        /\ \A s \in X : s.t < Screen /\ s.p < n /\ (Over(buf, s) \/ Pass(buf, s) \in X)
  <2>1. Overruns(buf, n, start) /\ start \in Nat
    BY <1>1
  <2> HIDE DEF start
  <2> QED BY <2>1, OverrunsOf
<1>3. \A p \in Nat : len[p] \in 0..Width-1 /\ len[p] \in Nat
  BY LenBelow, Sizes
<1>4. ASSUME NEW p \in Nat, p >= start PROVE q(p) \in Nat /\ q(p) <= Rows - 1
  <2>1. LineOf(starts, start) <= LineOf(starts, p)
    BY <1>1, <1>4, LineOrder
  <2>2. LineOf(starts, p) <= Cardinality(starts) - 1
    BY LineOrder
  <2>3. LineOf(starts, p) \in Nat /\ Cardinality(starts) \in Nat
    <3>1. LineOf(starts, p) \in Nat
      BY LineIn
    <3>2. starts \subseteq 0..n /\ IsFiniteSet(0..n)
      BY StartsIn, FS_Interval
    <3>3. IsFiniteSet(starts)
      BY <3>2, FS_Subset
    <3> QED BY <3>1, <3>3, FS_CardinalityType
  <2>4. Cardinality(starts) <= Rows
    OBVIOUS
  <2> HIDE DEF starts, start
  <2> QED BY <1>1, <2>1, <2>2, <2>3, <2>4, ScreenIn
<1>5. ASSUME NEW p \in Nat, p >= start, p < n
      PROVE  bound(p + 1) = IF Breaks(buf, p, len[p]) THEN (q(p) + 1) * Width
                            ELSE q(p) * Width + Widened(buf, p, len[p]) + 1
  <2>1. p \in 0..n-1
    BY <1>5
  <2>2. q(p + 1) = IF Breaks(buf, p, len[p]) THEN q(p) + 1 ELSE q(p)
    <3>1. LineOf(starts, p + 1) = IF Breaks(buf, p, len[p]) THEN LineOf(starts, p) + 1
                                  ELSE LineOf(starts, p)
      BY <2>1, NextLine
    <3>2. LineOf(starts, p) \in Nat
      BY LineIn
    <3> HIDE DEF starts, len
    <3> QED BY <3>1, <3>2
  <2>3. len[p + 1] = IF Breaks(buf, p, len[p]) THEN 0 ELSE Widened(buf, p, len[p]) + 1
    BY LineLens
  <2>4. q(p) \in Nat
    BY <1>4, <1>5
  <2>5. (q(p) + 1) * Width \in Nat /\ q(p) * Width \in Nat
    <3> HIDE DEF q
    <3> QED BY <2>4, Sizes
  <2>6. Widened(buf, p, len[p]) \in Nat
    BY <1>3, WidenedIn
  <2> HIDE DEF q, len
  <2> QED BY <2>2, <2>3, <2>5, <2>6
<1>6. ASSUME NEW p \in Nat, p >= start, NEW t \in Nat, t <= bound(p)
      PROVE  t < (q(p) + 1) * Width /\ t < Screen
  <2>1. q(p) \in Nat /\ q(p) <= Rows - 1
    BY <1>4, <1>6
  <2>2. len[p] \in Nat /\ len[p] <= Width - 1
    BY <1>3, Sizes
  <2>3. t <= q(p) * Width + len[p]
    BY <1>6
  <2> HIDE DEF q, len, bound
  <2>4. PICK w \in Nat : w = Width
    BY Sizes
  <2>5. (q(p) + 1) * w = q(p) * w + w /\ q(p) * w \in Nat
    BY <2>1
  <2>6. t < (q(p) + 1) * w
    BY <2>2, <2>3, <2>4, <2>5
  <2>7. (q(p) + 1) * w <= Rows * w
    BY <2>1, MulLe, ScreenIn
  <2>8. Rows * w = Screen
    BY <2>4, ScreenIn
  <2> QED BY <2>4, <2>5, <2>6, <2>7, <2>8, ScreenIn
<1>7. ASSUME NEW p \in Nat, p >= start, p < n, NEW t \in Nat, t <= bound(p)
      PROVE  /\ buf[p] \in {NL, TAB} => t + Pad(t, buf[p]) <= bound(p + 1)
             /\ buf[p] \notin {NL, TAB} => t + 1 <= bound(p + 1)
  <2>1. bound(p + 1) = IF Breaks(buf, p, len[p]) THEN (q(p) + 1) * Width
                       ELSE q(p) * Width + Widened(buf, p, len[p]) + 1
    BY <1>5, <1>7
  <2>2. q(p) \in Nat /\ len[p] \in 0..Width-1 /\ t <= q(p) * Width + len[p] /\ t < (q(p) + 1) * Width
    BY <1>3, <1>4, <1>6, <1>7
  <2>3. q(p) * Width \in Nat /\ (q(p) + 1) * Width \in Nat
    <3> HIDE DEF q
    <3> QED BY <2>2, Sizes
  <2> HIDE DEF q, len, bound
  <2>4. CASE buf[p] = NL
    <3>1. t + Pad(t, NL) <= (q(p) + 1) * Width
      BY <2>2, NewlineWithin
    <3>2. Breaks(buf, p, len[p])
      BY <2>4 DEF Breaks
    <3> QED BY <2>1, <2>4, <3>1, <3>2
  <2>5. CASE buf[p] = TAB
    <3>1. Width % 4 = 0
      <4>1. p \in 0..n-1
        BY <1>7
      <4> QED BY <2>5, <4>1
    <3>2. /\ t + Pad(t, TAB) <= (q(p) + 1) * Width
          /\ t + Pad(t, TAB) <= q(p) * Width + (len[p] + 4 - (len[p] % 4))
      BY <2>2, <3>1, TabWithin
    <3>3. Widened(buf, p, len[p]) = len[p] + 4 - (len[p] % 4)
      BY <2>5 DEF Widened
    <3>4. Widened(buf, p, len[p]) \in Nat /\ Pad(t, TAB) \in Nat
      <4>1. len[p] \in Nat
        BY <2>2, Sizes
      <4> QED BY <4>1, WidenedIn, PadIn
    <3>5. t + Pad(t, TAB) <= q(p) * Width + Widened(buf, p, len[p])
      BY <3>2, <3>3
    <3> QED BY <2>1, <2>3, <2>5, <3>2, <3>4, <3>5
  <2>6. CASE buf[p] \notin {NL, TAB}
    <3>1. Widened(buf, p, len[p]) = len[p]
      BY <2>6 DEF Widened
    <3> QED BY <2>1, <2>2, <2>3, <2>6, <3>1, Sizes
  <2> QED BY <2>4, <2>5, <2>6
<1>8. ASSUME NEW s \in Spots, s.p <= n, Good(s), NEW c \in {NL, TAB}
      PROVE  LET r == Blanks(buf, c, s) IN r \in Spots /\ r.p <= n /\ Good(r)
  <2> DEFINE r == Blanks(buf, c, s)
  <2>1. /\ r \in Spots /\ (buf[s.p] # c => r = s)
        /\ buf[s.p] = c => r.p = s.p + 1 /\ r.t <= s.t + Pad(s.t, c)
    <3>1. /\ r \in Spots /\ (buf[s.p] # c => r = s)
          /\ buf[s.p] = c => /\ r.p = s.p + 1
                             /\ r.t = IF s.t + Pad(s.t, c) <= Screen THEN s.t + Pad(s.t, c) ELSE Screen
      BY BlanksOf
    <3>2. s.t \in Nat /\ Pad(s.t, c) \in Nat
      BY PadIn DEF Spots
    <3> HIDE DEF r
    <3> QED BY <3>1, <3>2, ScreenIn
  <2>2. s.p \in Nat /\ s.t \in Nat /\ s.p >= start /\ s.t <= bound(s.p)
    BY <1>8 DEF Spots
  <2>3. CASE buf[s.p] # c
    BY <1>8, <2>1, <2>3
  <2>4. CASE buf[s.p] = c
    <3>1. s.p < n
      BY <1>8, <2>2, <2>4
    <3>2. s.t + Pad(s.t, c) <= bound(s.p + 1)
      <4> HIDE DEF bound
      <4> QED BY <1>7, <2>2, <2>4, <3>1
    <3>3. bound(s.p + 1) \in Int
      <4>1. q(s.p + 1) \in Nat /\ len[s.p + 1] \in Nat
        BY <1>1, <1>3, <1>4, <2>2
      <4> HIDE DEF q, len
      <4> QED BY <4>1, Sizes
    <3>4. r.t \in Nat /\ r.p = s.p + 1 /\ r.t <= s.t + Pad(s.t, c)
      BY <2>1, <2>4 DEF Spots
    <3>5. s.t + Pad(s.t, c) \in Nat
      BY <2>2, PadIn
    <3> HIDE DEF bound, r, start
    <3>6. r.t <= bound(r.p) /\ r.p <= n /\ r.p >= start
      BY <1>1, <2>2, <3>1, <3>2, <3>3, <3>4, <3>5
    <3> QED BY <2>1, <3>6 DEF r
  <2> QED BY <2>3, <2>4
<1>9. ASSUME NEW s \in X, Good(s)
      PROVE  Pass(buf, s) \in X /\ Good(Pass(buf, s)) /\ Pass(buf, s).p > s.p
  <2>1. s \in Spots /\ s.p < n /\ s.p <= n /\ n \in Nat
    <3>1. s \in Spots /\ s.p < n
      BY <1>2
    <3> QED BY <3>1 DEF Spots
  <2> DEFINE s1 == Blanks(buf, NL, s)
             s2 == Blanks(buf, TAB, s1)
             last == [t |-> s2.t + 1, p |-> s2.p + 1]
  <2> HIDE DEF Good
  <2>2. s1 \in Spots /\ s1.p <= n /\ Good(s1)
    BY <1>8, <1>9, <2>1
  <2>3. s2 \in Spots /\ s2.p <= n /\ Good(s2)
    <3> HIDE DEF s1
    <3> QED BY <1>8, <2>2
  <2>4. AfterBlanks(buf, s) = s2
    BY DEF AfterBlanks
  <2> HIDE DEF s1, s2
  <2>5. s2.p \in Nat /\ s2.t \in Nat /\ s2.p >= start /\ s2.t <= bound(s2.p)
    BY <2>3 DEF Spots, Good
  <2>6. s2.t < Screen
    <3> HIDE DEF bound
    <3> QED BY <1>6, <2>5
  <2>7. ~Over(buf, s)
    BY <2>4, <2>5, <2>6, ScreenIn DEF Over
  <2>8. Pass(buf, s) = IF buf[s2.p] \notin {NL, TAB} THEN last ELSE s2
    BY <2>4 DEF Pass, Plain
  <2>9. Good(last) \/ buf[s2.p] \in {NL, TAB}
    <3> SUFFICES ASSUME buf[s2.p] \notin {NL, TAB} PROVE Good(last)
      OBVIOUS
    <3>1. ASSUME s2.p + 1 <= n PROVE s2.t + 1 <= bound(s2.p + 1)
      <4> HIDE DEF bound
      <4>1. s2.p < n
        BY <2>5, <3>1
      <4> QED BY <1>7, <2>5, <4>1
    <3>2. last.p >= start
      <4> HIDE DEF start
      <4> QED BY <1>1, <2>5
    <3> HIDE DEF bound
    <3> QED BY <3>1, <3>2 DEF Good
  <2> HIDE DEF last
  <2> QED BY <1>2, <2>1, <2>3, <2>7, <2>8, <2>9, PassOf
<1> DEFINE S == {k \in Nat : \A s \in X : Good(s) => s.p + k < n}
<1>10. \A s \in X : s.p \in Nat /\ s.p < n
  BY <1>2 DEF Spots
<1>11. 0 \in S
  BY <1>10
<1>12. ASSUME NEW k \in S PROVE k + 1 \in S
  <2> SUFFICES ASSUME NEW s \in X, Good(s) PROVE s.p + (k + 1) < n
    OBVIOUS
  <2> DEFINE r == Pass(buf, s)
  <2> HIDE DEF Good
  <2>1. r \in X /\ Good(r) /\ r.p > s.p
    BY <1>9
  <2> HIDE DEF r
  <2>2. r.p + k < n /\ r.p \in Nat /\ s.p \in Nat /\ k \in Nat
    BY <1>10, <2>1
  <2> QED BY <2>1, <2>2
<1>13. n \in S
  <2> HIDE DEF S
  <2>1. S \in SUBSET Nat
    BY DEF S
  <2>2. S = Nat
    BY <1>11, <1>12, <2>1, AllNats
  <2> QED BY <2>2
<1> DEFINE s0 == [t |-> 0, p |-> start]
<1>14. Good(s0)
  <2>1. q(start) = 0
    BY <1>1, LineIn
  <2>2. len[start] \in Nat
    BY <1>1, <1>3
  <2>3. start \in Nat
    BY <1>1
  <2> HIDE DEF q, len, start
  <2>4. bound(start) = len[start]
    BY <2>1, <2>2, Sizes
  <2> HIDE DEF bound
  <2> QED BY <2>2, <2>3, <2>4
<1>15. s0.p + n < n
  <2> HIDE DEF Good
  <2>1. s0 \in X
    BY <1>2
  <2> HIDE DEF s0
  <2> QED BY <1>13, <1>14, <2>1
<1>16. start \in Nat
  BY <1>1
<1> HIDE DEF start
<1> QED BY <1>15, <1>16

\* Then drawing writes nothing behind the end of screenbuffer.
LEMMA DrawnInside ==
  ASSUME NEW buf, NEW n \in Nat, NEW pos \in Nat, startline \in Nat,
         buf[n] \notin {NL, TAB},
         Width % 4 = 0 \/ \A i \in 0..n-1 : buf[i] # TAB,
         Cardinality(line_starts(buf, n)) <= Rows,
         update_to_screen(buf, n, pos)
  PROVE  broken' = broken
<1> DEFINE starts == line_starts(buf, n)
           line == LineOf(starts, pos)
           first == FirstLine(line)
<1>1. line \in Nat
  BY LineIn
<1>2. first \in Nat
  <2> HIDE DEF line
  <2> QED BY <1>1, ScreenIn DEF FirstLine
<1>3. broken' \in IF first < Cardinality(starts) /\ Overruns(buf, n, StartOf(starts, first))
                  THEN BOOLEAN ELSE {broken}
  BY DEF update_to_screen
<1>4. ~(first < Cardinality(starts) /\ Overruns(buf, n, StartOf(starts, first)))
  <2> HIDE DEF first
  <2> QED BY <1>2, NotOverrun
<1> HIDE DEF first, starts
<1> QED BY <1>3, <1>4

LEMMA OnlyLongBreaks ==
  ASSUME IInv, IInv', Next, ~broken, broken', pointer # "freed",
         ~(Cardinality(line_starts(text_buffer', char_len')) > Rows), ~TabsCross'
  PROVE  FALSE
<1> DEFINE starts == line_starts(text_buffer', char_len')
<1>1. ASSUME NEW pos \in Nat, Fits', update_to_screen(text_buffer', char_len', pos) PROVE FALSE
  <2>1. char_len' \in Nat /\ text_buffer'[char_len'] \notin {NL, TAB}
    BY <1>1, EditorAssumption DEF Fits, Chars
  <2>2. Width % 4 = 0 \/ \A i \in 0..char_len'-1 : text_buffer'[i] # TAB
    BY DEF TabsCross
  <2>3. Cardinality(starts) <= Rows
    <3>1. Cardinality(starts) \in Nat
      <4>1. starts \subseteq 0..char_len' /\ IsFiniteSet(0..char_len')
        BY <2>1, StartsIn, FS_Interval
      <4>2. IsFiniteSet(starts)
        BY <4>1, FS_Subset
      <4> QED BY <4>2, FS_CardinalityType
    <3> HIDE DEF starts
    <3>2. ~(Cardinality(starts) > Rows)
      BY DEF starts
    <3> QED BY <3>1, <3>2, ScreenIn
  <2>4. startline \in Nat
    BY DEF IInv
  <2>5. broken' = broken
    BY <1>1, <2>1, <2>2, <2>3, <2>4, DrawnInside
  <2> QED BY <2>5
<1>2. ASSUME NEW buf, NEW n, NEW pos, Becomes(buf, n, pos), mode = 2 PROVE FALSE
  <2>1. /\ update_to_screen(text_buffer', char_len', pos) /\ mode' = 2
        /\ text_buffer_pos' = pos
    BY <1>2 DEF Becomes
  <2>2. Fits' /\ pos \in Nat
    BY <2>1 DEF IInv, Fits
  <2> QED BY <1>1, <2>1, <2>2
<1>3. ASSUME WriteKey \/ SaveAndQuitKey PROVE FALSE
  <2>1. /\ update_to_screen(text_buffer', char_len', text_buffer_pos) /\ mode = 2
        /\ UNCHANGED <<text_buffer, text_buffer_size, char_len, text_buffer_pos>>
    BY <1>3 DEF WriteKey, SaveAndQuitKey, text, UserKey, Key
  <2>2. Fits /\ text_buffer_pos \in Nat
    BY <2>1 DEF IInv, Fits
  <2>3. Fits'
    BY <2>1, <2>2 DEF Fits
  <2> QED BY <1>1, <2>1, <2>2, <2>3
<1>4. ASSUME init_editor PROVE FALSE
  BY <1>4 DEF init_editor
<1>5. ASSUME QuitKey PROVE FALSE
  BY <1>5 DEF QuitKey
<1>6. ASSUME EnterAgain \/ (\E c \in Chars : TypeKey(c)) PROVE FALSE
  <2>1. PICK c : editor_write(c) /\ mode = 2
    BY <1>6 DEF EnterAgain, TypeKey, UserKey, Key
  <2> QED BY <1>2, <2>1 DEF editor_write
<1>7. ASSUME editor_backspace PROVE FALSE
  BY <1>2, <1>7 DEF editor_backspace, UserKey, Key
<1>8. ASSUME CursorUp \/ CursorDown \/ CursorLeft \/ CursorRight PROVE FALSE
  BY <1>2, <1>8 DEF CursorUp, CursorDown, CursorLeft, CursorRight, MoveTo, UserKey, Key
<1> QED BY <1>3, <1>4, <1>5, <1>6, <1>7, <1>8 DEF Next

-----------------------------------------------------------------------------
\* The text and its zero are in the block, and the cursor's line on the screen.
THEOREM Invariance == Spec => []IInv
<1>1. Init => IInv
  BY InitIInv
<1>2. IInv /\ [Next]_vars => IInv'
  BY StepRefines
<1> QED BY <1>1, <1>2, PTL DEF Spec

\* However lines come and go above and below it, the line with the cursor is one
\* of those shown (update_to_screen, galatea.c:194-208).
THEOREM CursorStaysInView == Spec => []CursorInView
<1>1. IInv => CursorInView
  BY DEF IInv
<1> QED BY Invariance, <1>1, PTL

\* And the lines that the cursor moves by are the rows that are drawn, in a text
\* without tabs: the two loops, which count in different ways, agree where a row
\* begins (assign_line_starts and update_to_screen, galatea.c:165-193, 217-255).
THEOREM CursorIsVisible == Spec => []CursorVisible
BY Invariance, InvVisible, PTL

\* The loop that draws leaves screenbuffer only when the text has more lines than
\* the screen or a tab can lie across the end of a row, whatever the sizes of both:
\* with tabs too, it never comes further than the lines that were counted
\* (update_to_screen, galatea.c:209-255, against assign_line_starts, 165-193).
THEOREM BrokenByLongTexts == Spec => BrokenOnlyByLong
<1>1. IInv /\ IInv' /\ [Next]_vars =>
        [(~broken /\ broken') => \/ pointer = "freed"
                                 \/ Cardinality(line_starts(text_buffer', char_len')) > Rows
                                 \/ TabsCross']_vars
  BY OnlyLongBreaks
<1> QED BY <1>1, Invariance, PTL DEF Spec, BrokenOnlyByLong

\* Growing, moving bytes and counting them make no difference: the editor is a text
\* with a cursor, and what it saves is that text (galatea.c:19-163).
THEOREM EditorImplementsText == Spec => ImplementsText
<1>1. Init => AsText!Init
  BY InitIInv
<1> QED BY Invariance, StepRefines, <1>1, PTL DEF Spec, ImplementsText, AsText!Spec

=============================================================================
