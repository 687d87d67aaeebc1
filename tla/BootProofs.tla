----------------------------- MODULE BootProofs -----------------------------
(***************************************************************************)
(* First paging: the heap's pages and their table never share a frame, and *)
(* each page's bit agrees with its mapping, for every memory map, address  *)
(* space, heap and order of accesses (IInv), and with enough memory they   *)
(* are the frames behind low memory, in order (InOrder).                   *)
(*                                                                         *)
(* Then what kernel_main relies on when it reaches its loop, for every     *)
(* disk, memory map, controller and timeout: the heap's frames, because    *)
(* its steps are paging's; the partition's bounds, by Scanned; the         *)
(* keyboard's mode, by Talked, which follows the dialogue step by step.    *)
(***************************************************************************)
EXTENDS Boot, FiniteSetTheorems, WellFoundedInduction, TLAPS

-----------------------------------------------------------------------------
(* Paging *)

\* A frame that is used in one place is neither free nor reserved; frame 0 is
\* the exception, when no frame is free.
Backed(frame, bitmap) == /\ frame \notin bitmap
                         /\ frame \in Reserved => frame = 0
                         /\ frame = 0 => bitmap = {}

\* The inductive invariant: the properties and what ties them to the start and
\* to the table that is made with the first page.
IInv ==
  /\ TypeOK
  /\ BitmapAgrees
  /\ page_bitmap \cap Reserved = {}
  /\ table # None => Backed(table, page_bitmap)
  /\ \A p \in Heap : entry[p] # None => Backed(entry[p], page_bitmap) /\ table # None /\ entry[p] # table
  /\ \A p, q \in Heap : p # q /\ entry[p] = entry[q] => entry[p] \in {0, None}
  /\ ~ready => /\ page_bitmap = {} /\ kernel_virt_page_bitmap = {}
               /\ table = None /\ access = None

LEMMA ZeroIsReserved == 0 \in Reserved
<1>1. LowMemory \div page_size \in Nat
  BY PagingAssumption
<1>2. 0 \div page_size = 0
  BY PagingAssumption
<1> QED BY <1>1, <1>2 DEF Reserved, reserve_address

LEMMA FrameTypes == 0 \in Frames /\ None \notin Frames /\ Frames \subseteq Nat
  BY PagingAssumption DEF Frames, None

\* A set of numbers that is not empty has a lowest one.
LEMMA MinOfNats ==
  ASSUME NEW S \in SUBSET Nat, S # {}
  PROVE  Min(S) \in S /\ \A y \in S : Min(S) =< y
<1>1. \E x \in S : \A y \in S : ~(<<y, x>> \in OpToRel(<, Nat))
  BY WFMin, NatLessThanWellFounded
<1>2. PICK x \in S : \A y \in S : ~(<<y, x>> \in OpToRel(<, Nat))
  BY <1>1
<1>3. ASSUME NEW y \in S PROVE x =< y
  <2>1. ~(y < x)
    BY <1>2 DEF OpToRel
  <2> QED BY <2>1
<1> QED BY <1>3 DEF Min

\* alloc_raw_page returns a free frame, which then is not free any more, or 0
\* when there is none.
LEMMA RawPage ==
  ASSUME NEW bitmap \in SUBSET Frames, bitmap \cap Reserved = {}
  PROVE  /\ alloc_raw_page(bitmap) \in Frames
         /\ Taken(bitmap) = bitmap \ {alloc_raw_page(bitmap)}
         /\ Taken(bitmap) \subseteq bitmap
         /\ \/ bitmap = {} /\ alloc_raw_page(bitmap) = 0
            \/ /\ alloc_raw_page(bitmap) \in bitmap
               /\ alloc_raw_page(bitmap) \notin Reserved
               /\ alloc_raw_page(bitmap) # 0
  BY MinOfNats, ZeroIsReserved, FrameTypes DEF alloc_raw_page, Taken

LEMMA InitIInv == Init => IInv
  BY FrameTypes DEF Init, IInv, TypeOK, BitmapAgrees

LEMMA SetupKeeps == IInv /\ paging_setup => IInv'
<1> SUFFICES ASSUME IInv, paging_setup PROVE IInv'
  OBVIOUS
<1>1. page_bitmap' \subseteq Frames /\ page_bitmap' \cap Reserved = {}
  BY DEF paging_setup, set_memory_bitmap
<1>2. table = None /\ table' = None /\ entry' = entry /\ \A p \in Heap : entry[p] = None
  BY DEF IInv, paging_setup
<1>3. kernel_virt_page_bitmap' = Heap /\ ready' /\ access' = access
  BY DEF paging_setup
<1>4. TypeOK'
  BY <1>1, <1>2, <1>3 DEF IInv, TypeOK
<1>5. BitmapAgrees'
  BY <1>2, <1>3 DEF BitmapAgrees
<1>6. Reserved' = Reserved
  BY DEF Reserved
<1> QED BY <1>1, <1>2, <1>3, <1>4, <1>5, <1>6 DEF IInv

\* A fault takes at most two frames, for the page and for the table; the other
\* pages keep theirs.
LEMMA FaultKeeps == IInv /\ page_fault_handler => IInv'
<1> SUFFICES ASSUME IInv, page_fault_handler PROVE IInv'
  OBVIOUS
<1> DEFINE data == alloc_raw_page(page_bitmap)
           rest == Taken(page_bitmap)
           frame == IF NeedsTable THEN alloc_raw_page(rest) ELSE table
<1>1. /\ access \in Heap /\ entry[access] = None /\ ready /\ ready' /\ access' = access
      /\ kernel_virt_page_bitmap' = kernel_virt_page_bitmap \ {access}
      /\ table' = frame
      /\ page_bitmap' = IF NeedsTable THEN Taken(rest) ELSE rest
  BY FrameTypes DEF page_fault_handler, alloc_page, IInv, TypeOK, Mapped
<1>2. entry' = IF data = frame THEN [p \in Heap |-> None] ELSE [entry EXCEPT ![access] = data]
  <2>1. CASE NeedsTable
    <3>1. entry = [p \in Heap |-> None]
      BY <2>1 DEF NeedsTable, IInv, TypeOK
    <3> QED BY <2>1, <3>1 DEF page_fault_handler, alloc_page, Cleared
  <2>2. CASE ~NeedsTable
    BY <2>2 DEF page_fault_handler, alloc_page, Cleared
  <2> QED BY <2>1, <2>2
<1>3. /\ page_bitmap \in SUBSET Frames /\ page_bitmap \cap Reserved = {}
      /\ rest \in SUBSET Frames /\ rest \cap Reserved = {}
  BY RawPage DEF IInv, TypeOK
<1>4. /\ data \in Frames /\ rest = page_bitmap \ {data}
      /\ \/ page_bitmap = {} /\ data = 0
         \/ data \in page_bitmap /\ data \notin Reserved /\ data # 0
  BY <1>3, RawPage
<1>5. /\ alloc_raw_page(rest) \in Frames /\ Taken(rest) = rest \ {alloc_raw_page(rest)}
      /\ \/ rest = {} /\ alloc_raw_page(rest) = 0
         \/ alloc_raw_page(rest) \in rest /\ alloc_raw_page(rest) \notin Reserved /\ alloc_raw_page(rest) # 0
  BY <1>3, RawPage
<1>6. Reserved' = Reserved /\ None \notin Frames
  BY FrameTypes DEF Reserved
<1>7. page_bitmap' \subseteq page_bitmap /\ data \notin page_bitmap'
  BY <1>1, <1>4, <1>5
<1>8. Backed(data, page_bitmap')
  BY <1>4, <1>7 DEF Backed
<1>9. ASSUME NEW f, Backed(f, page_bitmap) PROVE Backed(f, page_bitmap')
  BY <1>7, <1>9 DEF Backed
<1>10. frame \in Frames /\ Backed(frame, page_bitmap')
  <2>1. CASE NeedsTable
    BY <2>1, <1>1, <1>4, <1>5 DEF Backed
  <2>2. CASE ~NeedsTable
    BY <2>2, <1>9 DEF NeedsTable, IInv, TypeOK
  <2> QED BY <2>1, <2>2
<1>11. data = frame => frame = 0
  <2>1. CASE NeedsTable
    BY <2>1, <1>4, <1>5
  <2>2. CASE ~NeedsTable
    BY <2>2, <1>4 DEF NeedsTable, IInv, Backed
  <2> QED BY <2>1, <2>2
<1>12. ASSUME NEW p \in Heap, entry[p] # None
       PROVE  /\ entry[p] \in Frames /\ entry[p] # frame /\ Backed(entry[p], page_bitmap')
              /\ entry[p] = data => data = 0
  <2>1. Backed(entry[p], page_bitmap) /\ table # None /\ entry[p] # table
    BY <1>12 DEF IInv
  <2>2. entry[p] \in Frames
    BY <1>12 DEF IInv, TypeOK
  <2>3. entry[p] = data => data = 0
    BY <2>1, <1>4 DEF Backed
  <2> QED BY <2>1, <2>2, <2>3, <1>9 DEF NeedsTable
<1>13. entry \in [Heap -> Frames \cup {None}]
  BY DEF IInv, TypeOK
<1> HIDE DEF data, rest, frame
<1>14. /\ \A p \in Heap : entry'[p] # None =>
            Backed(entry'[p], page_bitmap') /\ entry'[p] # table'
       /\ \A p, q \in Heap : p # q /\ entry'[p] = entry'[q] => entry'[p] \in {0, None}
       /\ entry' \in [Heap -> Frames \cup {None}]
  <2>1. CASE data = frame
    BY <2>1, <1>2
  <2>2. CASE data # frame
    <3>1. entry' = [entry EXCEPT ![access] = data]
      BY <2>2, <1>2
    <3>2. entry'[access] = data /\ \A p \in Heap : p # access => entry'[p] = entry[p]
      BY <3>1, <1>1, <1>13
    <3>3. ASSUME NEW p \in Heap, entry'[p] # None
          PROVE  Backed(entry'[p], page_bitmap') /\ entry'[p] # table'
      BY <3>2, <3>3, <2>2, <1>1, <1>8, <1>12
    <3>4. ASSUME NEW p \in Heap, NEW q \in Heap, p # q, entry'[p] = entry'[q]
          PROVE  entry'[p] \in {0, None}
      <4>1. CASE p = access
        BY <4>1, <3>2, <3>4, <1>12
      <4>2. CASE q = access
        BY <4>2, <3>2, <3>4, <1>12
      <4>3. CASE p # access /\ q # access
        BY <4>3, <3>2, <3>4 DEF IInv
      <4> QED BY <4>1, <4>2, <4>3
    <3>5. entry' \in [Heap -> Frames \cup {None}]
      BY <3>1, <1>4, <1>13
    <3> QED BY <3>3, <3>4, <3>5
  <2> QED BY <2>1, <2>2
<1>15. TypeOK'
  <2>1. page_bitmap' \subseteq Frames
    BY <1>3, <1>7
  <2> QED BY <2>1, <1>1, <1>10, <1>14 DEF IInv, TypeOK
<1>16. BitmapAgrees'
  <2> SUFFICES ASSUME table' # 0
               PROVE  kernel_virt_page_bitmap' = {p \in Heap : entry'[p] = None}
    BY DEF BitmapAgrees
  <2>1. data # frame
    BY <1>1, <1>11
  <2>2. entry'[access] = data /\ \A p \in Heap : p # access => entry'[p] = entry[p]
    BY <2>1, <1>1, <1>2, <1>13
  <2>3. table # 0
    BY <1>1, FrameTypes DEF frame, NeedsTable, None
  <2>4. kernel_virt_page_bitmap = {p \in Heap : entry[p] = None}
    BY <2>3, <1>1 DEF IInv, BitmapAgrees
  <2>5. data # None
    BY <1>4, <1>6
  <2> QED BY <2>2, <2>4, <2>5, <1>1
<1>17. table' # None /\ Backed(table', page_bitmap') /\ page_bitmap' \cap Reserved' = {}
  BY <1>1, <1>3, <1>6, <1>7, <1>10
<1> QED BY <1>1, <1>14, <1>15, <1>16, <1>17 DEF IInv, Backed

LEMMA TouchKeeps == ASSUME NEW p \in Heap PROVE IInv /\ Touch(p) => IInv'
  BY DEF IInv, Touch, TypeOK, BitmapAgrees, Backed, Reserved

LEMMA TouchedKeeps == IInv /\ Touched => IInv'
  BY DEF IInv, Touched, TypeOK, BitmapAgrees, Backed, Reserved

LEMMA StutterKeeps == IInv /\ UNCHANGED vars => IInv'
  BY DEF IInv, vars, TypeOK, BitmapAgrees, Backed, Reserved

\* The inductive invariant holds in every reachable state.
THEOREM Invariance == Spec => []IInv
<1>1. IInv /\ [Next]_vars => IInv'
  BY SetupKeeps, FaultKeeps, TouchKeeps, TouchedKeeps, StutterKeeps DEF Next
<1> QED BY InitIInv, <1>1, PTL DEF Spec

\* The types of paging.c's variables hold throughout.
THEOREM TypeCorrect == Spec => []TypeOK
<1>1. IInv => TypeOK
  BY DEF IInv
<1> QED BY Invariance, <1>1, PTL

LEMMA FramesInvariant == IInv => FramesApart
<1> SUFFICES ASSUME IInv PROVE FramesApart
  OBVIOUS
<1>1. \A f \in InUse : Backed(f, page_bitmap)
  BY DEF IInv, InUse
<1> QED BY <1>1 DEF IInv, FramesApart, Backed

\* The pages of the heap and its table have frames of their own, apart from
\* frame 0 once memory is exhausted (alloc_raw_page, paging.c:135-143).
THEOREM HeapHasItsFrames == Spec => []FramesApart
  BY Invariance, FramesInvariant, PTL

\* No fault on a page that is not mapped is refused, unless the page table is
\* in frame 0 (alloc_page, paging.c:114-122).
THEOREM NoFaultRefused == Spec => []BitmapAgrees
<1>1. IInv => BitmapAgrees
  BY DEF IInv
<1> QED BY Invariance, <1>1, PTL

-----------------------------------------------------------------------------
(* Enough memory: the heap gets the frames right behind low memory, in order *)

Behind == LowMemory \div page_size + 1

\* The frames handed out: one for each page mapped and one for the table.
HandedOut == (Cardinality(Heap) - Cardinality(kernel_virt_page_bitmap)) + (IF table = None THEN 0 ELSE 1)

InOrder ==
  Roomy /\ ready =>
    /\ InUse \subseteq Behind..Behind+HandedOut-1
    /\ page_bitmap \cap (0..Behind+HandedOut-1) = {}
    /\ Behind+HandedOut..Behind+Cardinality(Heap) \subseteq page_bitmap

LEMMA MulLe ==
  ASSUME NEW a \in Nat, NEW b \in Nat, NEW c \in Nat, a <= b PROVE a * c <= b * c
<1>1. PICK d \in Nat : b = a + d
  <2>1. b - a \in Nat /\ b = a + (b - a)
    OBVIOUS
  <2> QED BY <2>1
<1>2. b * c = a * c + d * c
  BY <1>1
<1>3. d * c \in Nat /\ a * c \in Nat
  BY <1>1
<1> QED BY <1>2, <1>3

LEMMA Division ==
  ASSUME NEW x \in Nat, NEW p \in Nat, p > 0
  PROVE  /\ x \div p \in Nat /\ x % p \in 0..p-1
         /\ x = (x \div p) * p + (x % p)
  OBVIOUS

LEMMA Quotient ==
  ASSUME NEW p \in Nat, p > 0, NEW q \in Nat, NEW m \in 0..p-1
  PROVE  (q * p + m) \div p = q /\ (q * p + m) % p = m
<1>1. q * p \in Nat
  OBVIOUS
<1>2. PICK x \in Nat : x = q * p + m
  BY <1>1
<1>3. x \div p = q
  BY <1>2, Z3
<1>4. x % p = m
  BY <1>2
<1> QED BY <1>2, <1>3, <1>4

\* A number between two multiples of the page size.
LEMMA Below ==
  ASSUME NEW p \in Nat, p > 0, NEW a \in Nat, NEW b \in Nat, a * p < (b + 1) * p
  PROVE  a <= b
<1>1. SUFFICES ASSUME b + 1 <= a PROVE FALSE
  OBVIOUS
<1>2. (b + 1) * p <= a * p
  BY <1>1, MulLe
<1>3. (b + 1) * p \in Nat /\ a * p \in Nat
  OBVIOUS
<1> QED BY <1>2, <1>3

LEMMA Sizes ==
  /\ page_size \in Nat /\ page_size > 0 /\ MAX_PAGES \in Nat /\ MAX_PAGES > 0
  /\ Space = MAX_PAGES * page_size /\ Space \in Nat /\ Space > 0
  /\ Behind \in Nat /\ Behind > 0 /\ Cardinality(Heap) \in Nat
  /\ Wanted = Behind..Behind+Cardinality(Heap) /\ Wanted \subseteq 0..MAX_PAGES-1
<1>1. page_size \in Nat /\ page_size > 0 /\ MAX_PAGES \in Nat /\ MAX_PAGES > 0 /\ LowMemory \in Nat
      /\ IsFiniteSet(Heap) /\ Wanted \subseteq Frames
  BY PagingAssumption
<1>2. Cardinality(Heap) \in Nat
  BY <1>1, FS_CardinalityType
<1>3. LowMemory \div page_size \in Nat
  BY <1>1, Division
<1>4. MAX_PAGES * page_size \in Nat /\ MAX_PAGES * page_size > 0
  BY <1>1
<1>5. QED
  BY <1>1, <1>2, <1>3, <1>4 DEF Space, Behind, Wanted, Frames

\* The start of a region that reaches the frame is rounded up to at most it.
LEMMA StartOf ==
  ASSUME NEW r \in Regions, NEW f \in 0..MAX_PAGES-1,
         r.base_address <= f * page_size, (f + 1) * page_size <= r.base_address + r.mem_length
  PROVE  \E s \in 0..f : /\ Start(r) = s * page_size /\ Start(r) \div page_size = s
                         /\ s * page_size < r.base_address + page_size
<1>1. page_size \in Nat /\ page_size > 0 /\ MAX_PAGES \in Nat /\ Space = MAX_PAGES * page_size
  BY Sizes
<1>2. PICK b \in Nat : b = r.base_address
  BY DEF Regions
<1>3. f * page_size < Space /\ f * page_size \in Nat /\ b <= f * page_size
  <2>1. (f + 1) * page_size <= MAX_PAGES * page_size
    BY <1>1, MulLe
  <2>2. (f + 1) * page_size = f * page_size + page_size
    BY <1>1
  <2>3. f * page_size \in Nat
    BY <1>1
  <2> QED BY <1>1, <1>2, <2>1, <2>2, <2>3
<1>4. b % Space = b
  <2>1. Space \in Nat /\ Space > 0 /\ b < Space
    BY <1>2, <1>3, Sizes
  <2> QED BY <1>2, <2>1
<1>5. PICK d \in Nat, m \in 0..page_size-1 :
        d = b \div page_size /\ m = b % page_size /\ b = d * page_size + m
  BY <1>1, Division
<1>6. /\ d * page_size \in Nat /\ (d + 1) * page_size \in Nat
      /\ (d + 1) * page_size = d * page_size + page_size
      /\ (f + 1) * page_size = f * page_size + page_size
  BY <1>1, <1>5
<1>7. CASE m = 0
  <2>1. Start(r) = d * page_size
    BY <1>2, <1>4, <1>5, <1>6, <1>7 DEF Start
  <2>2. d <= f
    BY <1>1, <1>3, <1>5, <1>6, <1>7, Below
  <2>3. Start(r) \div page_size = d
    <3>1. 0 \in 0..page_size-1 /\ d * page_size + 0 = d * page_size
      BY <1>1, <1>6
    <3> QED BY <1>1, <2>1, <3>1, Quotient
  <2>4. d * page_size < b + page_size
    BY <1>1, <1>5, <1>6, <1>7
  <2>5. d \in 0..f
    BY <1>5, <2>2
  <2> QED BY <1>2, <2>1, <2>3, <2>4, <2>5, Zenon
<1>8. CASE m # 0
  <2>1. Start(r) = ((d + 1) * page_size) % Space
    BY <1>2, <1>4, <1>5, <1>8 DEF Start
  <2>2. d + 1 <= f
    <3>1. d * page_size < f * page_size
      BY <1>1, <1>3, <1>5, <1>6, <1>8
    <3>2. SUFFICES ASSUME f <= d PROVE FALSE
      BY <1>5
    <3>3. f * page_size <= d * page_size
      BY <1>1, <1>5, <3>2, MulLe
    <3> QED BY <1>3, <1>6, <3>1, <3>3
  <2>3. (d + 1) * page_size <= f * page_size
    BY <1>1, <1>5, <2>2, MulLe
  <2>4. PICK x \in Nat : x = (d + 1) * page_size
    BY <1>6
  <2>5. x % Space = x
    <3>1. Space \in Nat /\ Space > 0 /\ x < Space
      BY <1>3, <2>3, <2>4, Sizes
    <3> QED BY <2>4, <3>1
  <2>6. x < b + page_size
    BY <1>1, <1>5, <1>6, <1>8, <2>4
  <2>7. x \div page_size = d + 1
    <3>1. 0 \in 0..page_size-1 /\ (d + 1) * page_size + 0 = x /\ d + 1 \in Nat
      BY <1>1, <1>5, <1>6, <2>4
    <3> QED BY <1>1, <3>1, Quotient
  <2>8. Start(r) = x /\ d + 1 \in 0..f
    BY <1>5, <2>1, <2>2, <2>4, <2>5
  <2> QED BY <1>2, <2>4, <2>6, <2>7, <2>8
<1> QED BY <1>5, <1>7, <1>8


\* A whole frame of a region that the loop goes through is marked.
LEMMA MarksFrame ==
  ASSUME memory_map \in MemoryMaps, NEW f \in 0..MAX_PAGES-1,
         NEW i \in Usable(memory_map), Within(f, i), GoneThrough(i)
  PROVE  f \in Marked(memory_map, i)
<1>1. page_size \in Nat /\ page_size > 0 /\ MAX_PAGES \in Nat /\ Space = MAX_PAGES * page_size /\ Space \in Nat
  BY Sizes
<1>2. PICK r \in Regions : r = memory_map[i]
  <2>1. i \in DOMAIN memory_map
    BY DEF Usable
  <2> QED BY <2>1, PagingAssumption
<1>3. r.base_address <= f * page_size /\ (f + 1) * page_size <= r.base_address + r.mem_length
  BY <1>2 DEF Within
<1>4. PICK s \in 0..f : /\ Start(r) = s * page_size /\ Start(r) \div page_size = s
                        /\ s * page_size < r.base_address + page_size
  BY <1>3, StartOf
<1>5. Marked(memory_map, i) = {(s + k) % MAX_PAGES : k \in 0..Passes(r)-1}
  BY <1>2, <1>4 DEF Marked, GoneThrough
<1>6. PICK k \in Nat : k = f - s
  BY <1>4
<1>7. s + k = f /\ f % MAX_PAGES = f
  BY <1>1, <1>4, <1>6
<1>8. k \in 0..Passes(r)-1
  <2>1. CASE Limit(r) >= Space - page_size
    <3>1. Passes(r) = MAX_PAGES
      BY <2>1 DEF Passes
    <3> QED BY <1>1, <1>4, <1>6, <3>1
  <2>2. CASE ~(Limit(r) >= Space - page_size)
    <3>1. Passes(r) = (Limit(r) - s * page_size) \div page_size + 1
      BY <1>4, <2>2 DEF Passes
    <3>2. r.base_address \in Nat /\ r.mem_length \in Nat
      BY DEF Regions
    <3>3. PICK l \in Nat : l = Limit(r) - s * page_size
      <4>1. Limit(r) \in Nat /\ s * page_size \in Nat
        BY <1>1, <1>4, <3>2 DEF Limit
      <4>2. s * page_size <= Limit(r)
        BY <1>1, <1>4, <3>2, <4>1 DEF Limit
      <4> QED BY <4>1, <4>2
    <3>4. k * page_size <= l
      <4>1. (f + 1) * page_size = s * page_size + k * page_size + page_size
        BY <1>1, <1>4, <1>6, <1>7
      <4>2. s * page_size \in Nat /\ k * page_size \in Nat /\ Limit(r) = r.base_address + r.mem_length + page_size
        BY <1>1, <1>4 DEF Limit
      <4> QED BY <1>1, <1>3, <3>2, <3>3, <4>1, <4>2
    <3>5. PICK q \in Nat, m \in 0..page_size-1 : q = l \div page_size /\ l = q * page_size + m
      BY <1>1, Division
    <3>6. k * page_size < (q + 1) * page_size
      <4>1. (q + 1) * page_size = q * page_size + page_size /\ q * page_size \in Nat /\ k * page_size \in Nat
        BY <1>1
      <4> QED BY <1>1, <3>4, <3>5, <4>1
    <3>7. k <= q
      BY <1>1, <3>6, Below
    <3> QED BY <3>1, <3>3, <3>5, <3>7
  <2> QED BY <2>1, <2>2
<1> QED BY <1>5, <1>7, <1>8

\* So paging_setup leaves the wanted frames free and none below them.
LEMMA SetupFrees ==
  ASSUME memory_map \in MemoryMaps, Roomy
  PROVE  /\ Wanted \subseteq set_memory_bitmap(memory_map) \ Reserved
         /\ (set_memory_bitmap(memory_map) \ Reserved) \cap (0..Behind-1) = {}
<1>1. ASSUME NEW f \in Wanted PROVE f \in set_memory_bitmap(memory_map) \ Reserved
  <2>1. f \in 0..MAX_PAGES-1
    BY Sizes
  <2>2. PICK i \in Usable(memory_map) : Within(f, i) /\ GoneThrough(i)
    BY DEF Roomy
  <2>3. f \in Marked(memory_map, i)
    BY <2>1, <2>2, MarksFrame
  <2>4. f \notin Reserved /\ f \notin {framebuffer \div page_size + j : j \in 0..fbuffer_pages-1}
    BY DEF Roomy
  <2> QED BY <2>1, <2>2, <2>3, <2>4 DEF set_memory_bitmap, Frames
<1>2. 0..Behind-1 \subseteq Reserved
  <2>1. 0 \div page_size = 0 /\ LowMemory \div page_size \in Nat
    BY PagingAssumption
  <2> QED BY <2>1 DEF Behind, Reserved, reserve_address
<1> QED BY <1>1, <1>2

\* One page and one table more.
LEMMA CountAfter ==
  ASSUME IInv
  PROVE  /\ HandedOut \in 0..Cardinality(Heap) + 1
         /\ kernel_virt_page_bitmap # {} => HandedOut <= Cardinality(Heap)
         /\ \A p \in kernel_virt_page_bitmap :
              Cardinality(kernel_virt_page_bitmap \ {p}) = Cardinality(kernel_virt_page_bitmap) - 1
<1>1. IsFiniteSet(Heap) /\ kernel_virt_page_bitmap \subseteq Heap
  BY PagingAssumption DEF IInv, TypeOK
<1>2. /\ IsFiniteSet(kernel_virt_page_bitmap)
      /\ Cardinality(kernel_virt_page_bitmap) \in Nat /\ Cardinality(Heap) \in Nat
      /\ Cardinality(kernel_virt_page_bitmap) <= Cardinality(Heap)
  BY <1>1, FS_Subset, FS_CardinalityType
<1>3. kernel_virt_page_bitmap # {} => Cardinality(kernel_virt_page_bitmap) > 0
  BY <1>2, FS_EmptySet
<1>4. \A p \in kernel_virt_page_bitmap :
        Cardinality(kernel_virt_page_bitmap \ {p}) = Cardinality(kernel_virt_page_bitmap) - 1
  BY <1>2, FS_RemoveElement
<1> QED BY <1>2, <1>3, <1>4 DEF HandedOut

LEMMA SetupInOrder == ASSUME IInv, memory_map \in MemoryMaps, paging_setup PROVE InOrder'
<1>1. table' = None /\ \A p \in Heap : entry'[p] = None
  BY DEF IInv, paging_setup
<1>2. InUse' = {}
  BY <1>1 DEF InUse
<1>3. kernel_virt_page_bitmap' = Heap /\ memory_map' = memory_map
      /\ page_bitmap' = set_memory_bitmap(memory_map) \ Reserved
  BY DEF paging_setup
<1>4. HandedOut' = 0
  BY <1>1, <1>3, Sizes DEF HandedOut
<1>5. Roomy' <=> Roomy
  BY <1>3 DEF Roomy, Within, GoneThrough, Reserved, Wanted
<1>6. Behind + HandedOut' = Behind /\ Behind + HandedOut' - 1 = Behind - 1
  BY <1>4, Sizes
<1>7. ASSUME Roomy
      PROVE  /\ page_bitmap' \cap (0..Behind-1) = {}
             /\ Behind..Behind+Cardinality(Heap) \subseteq page_bitmap'
  BY <1>3, <1>7, SetupFrees, Sizes
<1>8. Roomy' => /\ InUse' \subseteq Behind..Behind+HandedOut'-1
                 /\ page_bitmap' \cap (0..Behind+HandedOut'-1) = {}
                 /\ Behind+HandedOut'..Behind+Cardinality(Heap) \subseteq page_bitmap'
  BY <1>2, <1>5, <1>6, <1>7
<1> QED BY <1>8 DEF InOrder, Behind

\* The lowest free frame is the first that has not been handed out.
LEMMA NextFrame ==
  ASSUME NEW bitmap \in SUBSET Frames, NEW f \in Nat, f \in bitmap, bitmap \cap (0..f-1) = {}
  PROVE  alloc_raw_page(bitmap) = f /\ Taken(bitmap) = bitmap \ {f} /\ Taken(bitmap) \cap (0..f) = {}
<1>1. bitmap \in SUBSET Nat /\ bitmap # {}
  BY FrameTypes
<1>2. Min(bitmap) \in bitmap /\ Min(bitmap) <= f
  BY <1>1, MinOfNats
<1>3. Min(bitmap) = f
  <2>1. PICK m \in Nat : m = Min(bitmap)
    BY <1>1, <1>2
  <2>2. m \notin 0..f-1
    BY <1>2, <2>1
  <2> QED BY <1>2, <2>1, <2>2
<1>4. alloc_raw_page(bitmap) = f
  BY <1>1, <1>3 DEF alloc_raw_page
<1> QED BY <1>1, <1>4 DEF Taken

LEMMA FaultInOrder == ASSUME IInv, InOrder, page_fault_handler PROVE InOrder'
<1> SUFFICES ASSUME Roomy PROVE /\ InUse' \subseteq Behind..Behind+HandedOut'-1
                                /\ page_bitmap' \cap (0..Behind+HandedOut'-1) = {}
                                /\ Behind+HandedOut'..Behind+Cardinality(Heap) \subseteq page_bitmap'
  BY DEF InOrder, page_fault_handler, Roomy, Within, GoneThrough, Reserved, Wanted, Behind
<1>1. /\ ready /\ access \in Heap /\ entry[access] = None /\ access \in kernel_virt_page_bitmap
      /\ kernel_virt_page_bitmap' = kernel_virt_page_bitmap \ {access}
  BY FrameTypes DEF page_fault_handler, Mapped, IInv, TypeOK
<1>2. PICK h \in Nat, b \in Nat, n \in Nat : h = Cardinality(Heap) /\ b = Behind /\ n = HandedOut /\ n <= h /\ b > 0
  <2>1. HandedOut \in 0..Cardinality(Heap) + 1 /\ HandedOut <= Cardinality(Heap)
    BY <1>1, CountAfter
  <2>2. Cardinality(Heap) \in Nat /\ Behind \in Nat /\ Behind > 0
    BY Sizes
  <2>3. HandedOut \in Nat
    BY <2>1, <2>2
  <2> QED BY <2>1, <2>2, <2>3
<1>3. /\ InUse \subseteq b..b+n-1 /\ page_bitmap \cap (0..b+n-1) = {} /\ b+n..b+h \subseteq page_bitmap
      /\ page_bitmap \in SUBSET Frames
  BY <1>1, <1>2 DEF InOrder, IInv, TypeOK
<1>4. /\ alloc_raw_page(page_bitmap) = b + n /\ Taken(page_bitmap) = page_bitmap \ {b + n}
      /\ Taken(page_bitmap) \cap (0..b+n) = {}
  <2>1. b + n \in Nat /\ b + n \in page_bitmap /\ b + n - 1 \in Int
    BY <1>2, <1>3
  <2> QED BY <1>3, <2>1, NextFrame
<1>5. Cardinality(kernel_virt_page_bitmap') = Cardinality(kernel_virt_page_bitmap) - 1
  BY <1>1, CountAfter
<1>6. Cardinality(kernel_virt_page_bitmap) \in Nat
  BY PagingAssumption, FS_Subset, FS_CardinalityType DEF IInv, TypeOK
<1>7. ASSUME NEW S, S \subseteq InUse \cup {b + n}, NEW m \in Nat, m >= n + 1 PROVE S \subseteq b..b+m-1
  BY <1>2, <1>3, <1>7
<1>8. CASE ~NeedsTable
  <2>1. table' = table /\ page_bitmap' = Taken(page_bitmap)
        /\ entry' = Cleared([entry EXCEPT ![access] = b + n], b + n, table)
    BY <1>4, <1>8 DEF page_fault_handler, alloc_page
  <2>2. HandedOut' = n + 1
    BY <1>2, <1>5, <1>6, <1>8, <2>1 DEF HandedOut, NeedsTable
  <2>3. InUse' \subseteq InUse \cup {b + n}
    BY <2>1 DEF InUse, Cleared, IInv, TypeOK
  <2>4. InUse' \subseteq b..b+(n+1)-1
    <3>1. n + 1 \in Nat /\ n + 1 >= n + 1
      BY <1>2
    <3> QED BY <1>7, <2>3, <3>1
  <2>5. page_bitmap' \cap (0..b+(n+1)-1) = {} /\ b+(n+1)..b+h \subseteq page_bitmap'
    BY <1>2, <1>3, <1>4, <2>1
  <2> QED BY <1>2, <2>2, <2>4, <2>5
<1>9. CASE NeedsTable
  <2> DEFINE rest == Taken(page_bitmap)
  <2>1. kernel_virt_page_bitmap = Heap
    <3>1. table = None /\ table # 0
      BY <1>9 DEF NeedsTable, None
    <3>2. \A p \in Heap : entry[p] = None
      BY <3>1 DEF IInv
    <3> QED BY <1>1, <3>1, <3>2 DEF IInv, BitmapAgrees
  <2>2. n = 0 /\ h >= 1
    <3>1. n = 0
      BY <1>2, <1>6, <1>9, <2>1 DEF HandedOut, NeedsTable
    <3>2. Heap # {} /\ IsFiniteSet(Heap)
      BY <1>1, PagingAssumption
    <3>3. Cardinality(Heap) # 0
      BY <3>2, FS_EmptySet
    <3> QED BY <1>2, <3>1, <3>3
  <2>3. rest = page_bitmap \ {b} /\ rest \cap (0..b) = {} /\ rest \in SUBSET Frames /\ b + 1 \in rest
    BY <1>2, <1>3, <1>4, <2>2
  <2>4. alloc_raw_page(rest) = b + 1 /\ Taken(rest) = rest \ {b + 1} /\ Taken(rest) \cap (0..b+1) = {}
    <3>1. b + 1 \in Nat /\ (b + 1) - 1 = b
      BY <1>2
    <3> HIDE DEF rest
    <3> QED BY <2>3, <3>1, NextFrame
  <2>5. table' = b + 1 /\ page_bitmap' = Taken(rest)
        /\ entry' = Cleared([Cleared(entry, b + 1, b + 1) EXCEPT ![access] = b], b, b + 1)
    BY <1>2, <1>4, <1>9, <2>2, <2>4 DEF page_fault_handler, alloc_page
  <2>6. HandedOut' = 2
    <3>1. table' # None
      BY <1>2, <2>5 DEF None
    <3> QED BY <1>2, <1>5, <1>6, <2>1, <3>1 DEF HandedOut
  <2>7. InUse' \subseteq {b, b + 1}
    <3>1. b # b + 1
      BY <1>2
    <3>2. entry' = [[p \in Heap |-> None] EXCEPT ![access] = b]
      BY <2>5, <3>1 DEF Cleared
    <3> QED BY <1>1, <2>5, <3>2 DEF InUse
  <2>8. page_bitmap' \cap (0..b+1) = {} /\ b+2..b+h \subseteq page_bitmap'
    BY <1>2, <1>3, <2>2, <2>3, <2>4, <2>5
  <2>9. InUse' \subseteq b..b+2-1 /\ page_bitmap' \cap (0..b+2-1) = {}
    BY <1>2, <2>7, <2>8
  <2> QED BY <1>2, <2>6, <2>8, <2>9
<1> QED BY <1>8, <1>9

\* The maps do not change, and the other steps hand out no frame.
LEMMA OrderKeeps ==
  IInv /\ memory_map \in MemoryMaps /\ InOrder /\ [Next]_vars => memory_map' \in MemoryMaps /\ InOrder'
<1> SUFFICES ASSUME IInv, memory_map \in MemoryMaps, InOrder, [Next]_vars
             PROVE  memory_map' \in MemoryMaps /\ InOrder'
  OBVIOUS
<1>1. memory_map' = memory_map
  BY DEF Next, paging_setup, page_fault_handler, Touch, Touched, vars
<1>2. CASE UNCHANGED vars \/ (\E p \in Heap : Touch(p)) \/ Touched
  <2>1. UNCHANGED <<memory_map, page_bitmap, kernel_virt_page_bitmap, table, entry, ready>>
    BY <1>2 DEF vars, Touch, Touched
  <2> QED BY <1>1, <2>1 DEF InOrder, Roomy, Within, GoneThrough, HandedOut, InUse, Reserved, Wanted, Behind
<1> QED BY <1>1, <1>2, SetupInOrder, FaultInOrder DEF Next

LEMMA OrderIsUsable == IInv /\ InOrder => EnoughIsUsable
<1> SUFFICES ASSUME IInv, InOrder, Roomy, NEW f \in InUse PROVE WithinUsable(f)
  BY DEF EnoughIsUsable
<1>1. ready
  BY DEF IInv, InUse
<1>2. f \in Behind..Behind+HandedOut-1 /\ HandedOut \in 0..Cardinality(Heap)+1
  BY <1>1, CountAfter DEF InOrder
<1>3. f \in Wanted
  BY <1>2, Sizes
<1> QED BY <1>3 DEF Roomy, WithinUsable

-----------------------------------------------------------------------------
(* kernel_main *)

BeforeDialogue == {"scan_gpt", "entries", "paging_setup", "read_boot_record"}
Places == BeforeDialogue \cup {"keyboard", "loop"}

\* What the scan of the partition table keeps: the buffer holds a sector of
\* entries or none, and none of the entries passed was ours, unless a read
\* failed.
Scanned ==
  /\ disk \in Disks /\ pc \in Places
  /\ index \in 0..Len(disk.entries)
  /\ gpt = <<>> \/ \E k \in 0..Len(disk.entries) : gpt = Sector(k)
  /\ pc = "scan_gpt" => index = 0
  /\ pc \in {"scan_gpt", "entries"} =>
       partition = [start |-> 0, end |-> 0] /\ startup_read
  /\ pc = "entries" =>
       disk.signed /\ (~failed => \A n \in 1..index : disk.entries[n].name # PYGMALI_OS)
  /\ PartitionIsOurs

\* A byte on its way, and whether it is a key's.
Sent == Nat \X BOOLEAN

Untaken(where, byte) == inbox = <<where, byte>>
Idle == inbox = <<>>

\* Until the command byte is read nothing has changed, and the answer that is
\* fresh is the controller's command byte.
Asked ==
  /\ ~honest /\ Interrupts(config) /\ awaits = "command"
  /\ \A i \in 1..Len(out) : out[i][2] = FALSE => out[i][1] = config
  /\ fresh => port = config
  /\ step <= 2 \/ inbox # <<>> => ~fresh /\ \A i \in 1..Len(out) : out[i][2] = TRUE
  /\ inbox = <<>> \/ (Untaken("command", 32) /\ step \in {3, 4})

Clear == Interrupts(command_byte) /\ ~Translates(command_byte)
Configured == config = command_byte

\* What is under way after each of the dialogue's writes.
ConfigAsked == (Untaken("command", 96) /\ awaits = "command") \/ (Idle /\ awaits = "config")
ConfigSent == \/ Untaken("data", command_byte) /\ awaits = "config"
              \/ Configured /\ Idle /\ awaits = "command"
SetAsked == /\ Configured
            /\ (Untaken("data", SetScancode) /\ awaits = "command") \/ (Idle /\ awaits = "set")
SetTwo == /\ Configured
          /\ (Untaken("data", 2) /\ awaits = "set") \/ (Idle /\ awaits = "command" /\ set = 2)
Left == /\ Configured /\ awaits \in {"command", "set"}
        /\ inbox = <<>> \/ Untaken("data", SetScancode) \/ Untaken("data", 2)
        /\ reported => SetTwo

UnderWay ==
  \/ step \in {5, 6} /\ Idle /\ awaits = "command"
  \/ step = 7 /\ ConfigAsked
  \/ step = 8 /\ Idle /\ awaits = "config"
  \/ step = 9 /\ ConfigSent
  \/ step = 10 /\ Configured /\ Idle /\ awaits = "command"
  \/ step \in {11, 12, 13} /\ SetAsked
  \/ step = 14 /\ Configured /\ Idle /\ awaits = "set"
  \/ step \in {15, 16} /\ SetTwo

\* Afterwards, if that byte was the controller's: it is configured step by step.
Answered ==
  /\ Clear /\ Interrupts(config)
  /\ (pc = "keyboard" /\ UnderWay) \/ (pc = "loop" /\ Left)

\* The invariant of the dialogue.  What is done after a loop has timed out, or
\* with a byte that was not the answer, is open.
Talked ==
  /\ pc \in Places /\ step \in 1..16
  /\ timedout \in BOOLEAN /\ honest \in BOOLEAN
  /\ config \in Nat /\ port \in Nat /\ command_byte \in Nat /\ set \in Nat
  /\ inbox = <<>> \/ inbox \in {"command", "data"} \X Nat
  /\ out \in Seq(Sent) /\ fresh \in BOOLEAN
  /\ pc \in BeforeDialogue => step = 1
  /\ reported => pc = "loop"
  /\ pc # "loop" /\ step <= 4 /\ ~timedout => Asked
  /\ (pc = "loop" \/ step >= 5) /\ honest /\ ~timedout => Answered

-----------------------------------------------------------------------------
(* Every step of kernel_main is a step of paging, or leaves it alone. *)

LEMMA StepOfPaging == [BootNext]_bvars => [Next]_vars
<1>1. CASE UNCHANGED bvars
  BY <1>1 DEF bvars
<1>2. CASE kernel_main
  <2>1. Min(Heap) \in Heap
    BY MinOfNats, BootAssumption, PagingAssumption
  <2> QED BY <1>2, <2>1 DEF kernel_main, ScanDisk, PagingSetup, ReadBootRecord, TalkToKeyboard,
                            Faults, Goes, UsesHeap, Next
<1>3. CASE \E p \in Heap : UsesHeap(p)
  BY <1>3 DEF UsesHeap, Next
<1>4. CASE Devices /\ UNCHANGED vars
  BY <1>4
<1> QED BY <1>1, <1>2, <1>3, <1>4 DEF BootNext

LEMMA PagingKeeps == IInv /\ [Next]_vars => IInv'
  BY SetupKeeps, FaultKeeps, TouchKeeps, TouchedKeeps, StutterKeeps DEF Next

-----------------------------------------------------------------------------
(* The partition table *)

LEMMA EntryOfSector ==
  ASSUME disk \in Disks, NEW k \in Nat, NEW n \in 0..3
  PROVE  EntryAt(Sector(k), n) =
           IF 4 * k + n < Len(disk.entries) THEN disk.entries[4 * k + n + 1] ELSE Unused
<1> DEFINE D == {m \in 0..3 : 4 * k + m < Len(disk.entries)}
<1>1. DOMAIN Sector(k) = D /\ \A m \in D : Sector(k)[m] = disk.entries[4 * k + m + 1]
  BY DEF Sector
<1>2. n \in D <=> 4 * k + n < Len(disk.entries)
  OBVIOUS
<1> HIDE DEF D
<1> QED BY <1>1, <1>2 DEF EntryAt

\* What is taken for the entry at index: that entry if the read succeeded, and
\* in any case an entry of this disk or nothing.
LEMMA EntryRead ==
  ASSUME Scanned, index < Len(disk.entries), NEW ok \in BOOLEAN, Read(ok, Sector(index \div 4))
  PROVE  LET entry_read == EntryAt(gpt', iteration(index))
         IN  /\ ok => entry_read = disk.entries[index + 1]
             /\ entry_read.name = PYGMALI_OS => \E n \in Ours : entry_read = disk.entries[n]
             /\ gpt' = <<>> \/ \E k \in 0..Len(disk.entries) : gpt' = Sector(k)
<1>1. disk \in Disks /\ index \in Nat /\ Len(disk.entries) \in Nat
      /\ DOMAIN disk.entries = 1..Len(disk.entries)
  BY StartupAssumption DEF Scanned
<1>2. /\ index \div 4 \in 0..Len(disk.entries) /\ index % 4 \in 0..3
      /\ index = 4 * (index \div 4) + (index % 4)
  BY <1>1
<1>3. iteration(index) = index % 4
  BY DEF iteration
<1>4. gpt' = <<>> \/ \E k \in 0..Len(disk.entries) : gpt' = Sector(k)
  BY <1>2 DEF Read, Scanned
<1>5. ok => EntryAt(gpt', index % 4) = disk.entries[index + 1]
  <2> SUFFICES ASSUME ok PROVE EntryAt(gpt', index % 4) = disk.entries[index + 1]
    OBVIOUS
  <2>1. gpt' = Sector(index \div 4)
    BY DEF Read
  <2>2. EntryAt(Sector(index \div 4), index % 4)
          = IF 4 * (index \div 4) + (index % 4) < Len(disk.entries)
              THEN disk.entries[4 * (index \div 4) + (index % 4) + 1] ELSE Unused
    <3>1. index \div 4 \in Nat
      BY <1>2
    <3> QED BY <3>1, <1>1, <1>2, EntryOfSector
  <2> QED BY <2>1, <2>2, <1>2
<1>6. EntryAt(gpt', index % 4).name = PYGMALI_OS =>
        \E n \in Ours : EntryAt(gpt', index % 4) = disk.entries[n]
  <2> SUFFICES ASSUME EntryAt(gpt', index % 4).name = PYGMALI_OS
               PROVE  \E n \in Ours : EntryAt(gpt', index % 4) = disk.entries[n]
    OBVIOUS
  <2>1. gpt' # <<>>
    <3>1. EntryAt(<<>>, index % 4) = Unused
      BY DEF EntryAt
    <3> QED BY <3>1, StartupAssumption
  <2>2. PICK k \in 0..Len(disk.entries) : gpt' = Sector(k)
    BY <2>1, <1>4
  <2>3. k \in Nat
    BY <1>1
  <2>4. EntryAt(Sector(k), index % 4)
          = IF 4 * k + (index % 4) < Len(disk.entries)
              THEN disk.entries[4 * k + (index % 4) + 1] ELSE Unused
    BY <2>3, <1>1, <1>2, EntryOfSector
  <2>5. 4 * k + (index % 4) < Len(disk.entries)
    BY <2>2, <2>4, StartupAssumption
  <2>6. 4 * k + (index % 4) + 1 \in DOMAIN disk.entries
    BY <2>3, <2>5, <1>1, <1>2
  <2> QED BY <2>2, <2>4, <2>5, <2>6 DEF Ours
<1> QED BY <1>3, <1>4, <1>5, <1>6

LEMMA ScannedInit == BootInit => Scanned
<1> SUFFICES ASSUME BootInit PROVE Scanned
  OBVIOUS
<1>1. /\ disk \in Disks /\ pc = "scan_gpt" /\ index = 0 /\ gpt = <<>>
      /\ partition = [start |-> 0, end |-> 0] /\ startup_read = TRUE
  BY DEF BootInit, StartupInit
<1>2. Len(disk.entries) \in Nat
  BY <1>1, StartupAssumption
<1>3. PartitionIsOurs
  BY <1>1 DEF PartitionIsOurs
<1> QED BY <1>1, <1>2, <1>3 DEF Scanned, Places, BeforeDialogue

\* The definitions that depend on the disk alone.
LEMMA SameDisk ==
  ASSUME disk' = disk
  PROVE  Ours' = Ours /\ \A k \in Nat : Sector(k)' = Sector(k)
  BY DEF Ours, Sector

LEMMA ScannedStarts == Scanned /\ scan_gpt => Scanned'
<1> SUFFICES ASSUME Scanned, scan_gpt PROVE Scanned'
  OBVIOUS
<1>1. /\ disk' = disk /\ index' = index /\ partition' = partition /\ startup_read' = startup_read
      /\ pc = "scan_gpt" /\ partition = [start |-> 0, end |-> 0] /\ startup_read
      /\ disk \in Disks /\ index \in 0..Len(disk.entries) /\ index = 0
  BY DEF scan_gpt, scan, Scanned
<1>2. PICK ok \in BOOLEAN : /\ Read(ok, <<>>)
                            /\ pc' = IF ok /\ disk.signed THEN "entries" ELSE "paging_setup"
  BY DEF scan_gpt
<1>3. Sector(0)' = Sector(0) /\ Ours' = Ours
  BY <1>1, SameDisk
<1>4. gpt' = <<>> \/ gpt' = gpt
  BY <1>2 DEF Read
<1>5. PartitionIsOurs'
  BY <1>1, <1>2, <1>3, StartupAssumption DEF PartitionIsOurs, Read
<1>6. gpt' = <<>> \/ \E k \in 0..Len(disk'.entries) : gpt' = Sector(k)'
  BY <1>1, <1>4, SameDisk DEF Scanned
<1> QED BY <1>1, <1>2, <1>5, <1>6 DEF Scanned, Places, BeforeDialogue

LEMMA ScannedEnds == Scanned /\ NoEntry => Scanned'
<1> SUFFICES ASSUME Scanned, NoEntry PROVE Scanned'
  OBVIOUS
<1>1. /\ disk' = disk /\ index' = index /\ partition' = partition /\ startup_read' = FALSE
      /\ gpt' = gpt /\ failed' = failed /\ pc' = "paging_setup" /\ index = Len(disk.entries)
      /\ partition = [start |-> 0, end |-> 0] /\ disk \in Disks /\ disk.signed
      /\ index \in 0..Len(disk.entries)
      /\ ~failed => \A n \in 1..index : disk.entries[n].name # PYGMALI_OS
  BY DEF NoEntry, Scanned
<1>2. Ours' = Ours /\ \A k \in Nat : Sector(k)' = Sector(k)
  BY <1>1, SameDisk
<1>3. ~failed => Ours = {}
  BY <1>1, StartupAssumption DEF Ours
<1>4. PartitionIsOurs'
  BY <1>1, <1>2, <1>3 DEF PartitionIsOurs
<1>5. gpt' = <<>> \/ \E k \in 0..Len(disk'.entries) : gpt' = Sector(k)'
  BY <1>1, <1>2, StartupAssumption DEF Scanned
<1> QED BY <1>1, <1>4, <1>5 DEF Scanned, Places, BeforeDialogue

\* The first of our entries is found, unless a read failed; then a later one
\* may be.
LEMMA ScannedGoesOn == Scanned /\ ScanEntry => Scanned'
<1> SUFFICES ASSUME Scanned, ScanEntry PROVE Scanned'
  OBVIOUS
<1> DEFINE entry_read == EntryAt(gpt', iteration(index))
<1>1. /\ disk' = disk /\ pc = "entries" /\ disk \in Disks /\ disk.signed
      /\ index \in 0..Len(disk.entries) /\ index < Len(disk.entries)
      /\ partition = [start |-> 0, end |-> 0] /\ startup_read
      /\ ~failed => \A n \in 1..index : disk.entries[n].name # PYGMALI_OS
  BY DEF ScanEntry, Scanned
<1>2. PICK ok \in BOOLEAN : Read(ok, Sector(index \div 4))
  BY DEF ScanEntry
<1>3. /\ ok => entry_read = disk.entries[index + 1]
      /\ entry_read.name = PYGMALI_OS => \E n \in Ours : entry_read = disk.entries[n]
      /\ gpt' = <<>> \/ \E k \in 0..Len(disk.entries) : gpt' = Sector(k)
  BY <1>1, <1>2, EntryRead
<1>4. Ours' = Ours /\ \A k \in Nat : Sector(k)' = Sector(k)
  BY <1>1, SameDisk
<1>5. gpt' = <<>> \/ \E k \in 0..Len(disk'.entries) : gpt' = Sector(k)'
  BY <1>1, <1>3, <1>4, StartupAssumption
<1>6. ~failed' => ~failed /\ ok
  BY <1>2, Zenon DEF Read
<1>7. Len(disk.entries) \in Nat /\ DOMAIN disk.entries = 1..Len(disk.entries)
  BY <1>1, StartupAssumption
<1>8. CASE entry_read.name = PYGMALI_OS
  <2>1. /\ partition' = [start |-> entry_read.start, end |-> entry_read.end]
        /\ startup_read' = FALSE /\ pc' = "paging_setup" /\ index' = index
    BY <1>8 DEF ScanEntry
  <2>2. ~failed' => entry_read = disk.entries[Min(Ours)] /\ Ours # {}
    <3> SUFFICES ASSUME ~failed' PROVE entry_read = disk.entries[Min(Ours)] /\ Ours # {}
      OBVIOUS
    <3>1. entry_read = disk.entries[index + 1] /\ index + 1 \in Ours
      BY <1>1, <1>3, <1>6, <1>7, <1>8 DEF Ours
    <3>2. \A n \in Ours : index + 1 =< n
      BY <1>1, <1>6, <1>7 DEF Ours
    <3>3. Ours \in SUBSET Nat
      BY <1>7 DEF Ours
    <3>4. Min(Ours) \in Ours /\ Min(Ours) =< index + 1
      BY <3>1, <3>3, MinOfNats
    <3>5. Min(Ours) = index + 1
      <4> DEFINE first == Min(Ours)
      <4>1. first \in Nat
        BY <3>3, <3>4, Zenon
      <4>2. index + 1 =< first /\ first =< index + 1
        BY <3>2, <3>4
      <4> HIDE DEF first
      <4>3. first = index + 1
        BY <4>1, <4>2, <1>1, <1>7
      <4> QED BY <4>3 DEF first
    <3> QED BY <3>1, <3>5
  <2> HIDE DEF entry_read
  <2>3. PartitionIsOurs'
    BY <2>1, <2>2, <1>1, <1>3, <1>4, <1>8 DEF PartitionIsOurs
  <2> QED BY <2>1, <2>3, <1>1, <1>5 DEF Scanned, Places, BeforeDialogue
<1>9. CASE entry_read.name # PYGMALI_OS
  <2>1. /\ partition' = partition /\ startup_read' = startup_read /\ pc' = pc /\ index' = index + 1
    BY <1>9 DEF ScanEntry
  <2>2. ~failed' => \A n \in 1..index' : disk.entries[n].name # PYGMALI_OS
    BY <2>1, <1>1, <1>3, <1>6, <1>7, <1>9
  <2>3. PartitionIsOurs'
    BY <2>1, <1>1 DEF PartitionIsOurs
  <2> QED BY <2>1, <2>2, <2>3, <1>1, <1>5, <1>7 DEF Scanned, Places, BeforeDialogue
<1> QED BY <1>8, <1>9

LEMMA ScannedBootRecord == Scanned /\ read_boot_record => Scanned'
<1> SUFFICES ASSUME Scanned, read_boot_record PROVE Scanned'
  OBVIOUS
<1>1. /\ disk' = disk /\ index' = index /\ partition' = partition /\ startup_read' = startup_read
      /\ gpt' = gpt /\ pc = "read_boot_record" /\ pc' = "keyboard" /\ disk \in Disks
  BY DEF read_boot_record, Scanned
<1>2. PICK ok \in BOOLEAN : /\ geometry' = IF ok THEN partition.start ELSE -1
                            /\ failed' = (failed \/ ~ok)
  BY DEF read_boot_record
<1>3. Ours' = Ours /\ \A k \in Nat : Sector(k)' = Sector(k)
  BY <1>1, SameDisk
<1>4. PartitionIsOurs'
  BY <1>1, <1>2, <1>3 DEF Scanned, PartitionIsOurs
<1>5. gpt' = <<>> \/ \E k \in 0..Len(disk'.entries) : gpt' = Sector(k)'
  BY <1>1, <1>3, StartupAssumption DEF Scanned
<1> QED BY <1>1, <1>4, <1>5 DEF Scanned, Places, BeforeDialogue

\* Nothing else touches the scan's variables.
LEMMA ScannedElse ==
  Scanned /\ UNCHANGED scan /\ (\/ pc' = pc
                                \/ pc = "paging_setup" /\ pc' = "read_boot_record"
                                \/ pc = "keyboard" /\ pc' = "loop") => Scanned'
<1> SUFFICES ASSUME Scanned, UNCHANGED scan,
                    \/ pc' = pc
                    \/ pc = "paging_setup" /\ pc' = "read_boot_record"
                    \/ pc = "keyboard" /\ pc' = "loop"
             PROVE  Scanned'
  OBVIOUS
<1>1. /\ disk' = disk /\ index' = index /\ partition' = partition /\ startup_read' = startup_read
      /\ gpt' = gpt /\ geometry' = geometry /\ failed' = failed /\ disk \in Disks
  BY DEF scan, Scanned
<1>2. Ours' = Ours /\ \A k \in Nat : Sector(k)' = Sector(k)
  BY <1>1, SameDisk
<1>3. PartitionIsOurs'
  BY <1>1, <1>2 DEF Scanned, PartitionIsOurs
<1>4. gpt' = <<>> \/ \E k \in 0..Len(disk'.entries) : gpt' = Sector(k)'
  BY <1>1, <1>2, StartupAssumption DEF Scanned
<1> QED BY <1>1, <1>3, <1>4 DEF Scanned, Places, BeforeDialogue

-----------------------------------------------------------------------------
(* The dialogue *)

LEMMA Steps ==
  ASSUME step \in 1..16
  PROVE  /\ Dialogue[step] = "input" <=> step \in {1, 5, 7, 9, 13}
         /\ Dialogue[step] = "output" <=> step \in {3, 11, 15}
         /\ Dialogue[step] = "read_command_byte" <=> step = 2
         /\ Dialogue[step] = "take" <=> step = 4
         /\ Dialogue[step] = "write_command_byte" <=> step = 6
         /\ Dialogue[step] = "send" <=> step = 8
         /\ Dialogue[step] = "set_scancode" <=> step = 10
         /\ Dialogue[step] = "check" <=> step \in {12, 16}
         /\ Dialogue[step] = "set_2" <=> step = 14
         /\ Len(Dialogue) = 16
<1>1. /\ Dialogue[1] = "input" /\ Dialogue[2] = "read_command_byte" /\ Dialogue[3] = "output"
      /\ Dialogue[4] = "take" /\ Dialogue[5] = "input" /\ Dialogue[6] = "write_command_byte"
      /\ Dialogue[7] = "input" /\ Dialogue[8] = "send" /\ Dialogue[9] = "input"
      /\ Dialogue[10] = "set_scancode" /\ Dialogue[11] = "output" /\ Dialogue[12] = "check"
      /\ Dialogue[13] = "input" /\ Dialogue[14] = "set_2" /\ Dialogue[15] = "output"
      /\ Dialogue[16] = "check" /\ Len(Dialogue) = 16
  BY DEF Dialogue
<1> DEFINE what == Dialogue[step]
<1>2. /\ step \in {1, 5, 7, 9, 13} => what = "input"
      /\ step \in {3, 11, 15} => what = "output"
      /\ step \in {12, 16} => what = "check"
      /\ step = 2 => what = "read_command_byte"
      /\ step = 4 => what = "take"
      /\ step = 6 => what = "write_command_byte"
      /\ step = 8 => what = "send"
      /\ step = 10 => what = "set_scancode"
      /\ step = 14 => what = "set_2"
  BY <1>1
<1>3. step \in {1, 5, 7, 9, 13} \cup {3, 11, 15} \cup {12, 16} \cup {2, 4, 6, 8, 10, 14}
  OBVIOUS
<1> HIDE DEF what
<1>4. /\ what = "input" <=> step \in {1, 5, 7, 9, 13}
      /\ what = "output" <=> step \in {3, 11, 15}
      /\ what = "read_command_byte" <=> step = 2
      /\ what = "take" <=> step = 4
      /\ what = "write_command_byte" <=> step = 6
      /\ what = "send" <=> step = 8
      /\ what = "set_scancode" <=> step = 10
      /\ what = "check" <=> step \in {12, 16}
      /\ what = "set_2" <=> step = 14
  BY <1>2, <1>3
<1> QED BY <1>1, <1>4 DEF what

\* Clearing bit 6 leaves bit 0 alone.
LEMMA MaskedByte ==
  ASSUME NEW byte \in Nat
  PROVE  /\ Masked(byte) \in Nat /\ ~Translates(Masked(byte))
         /\ Interrupts(Masked(byte)) <=> Interrupts(byte)
<1>1. CASE Translates(byte)
  <2>1. byte - 64 \in Nat
    BY <1>1 DEF Translates
  <2>2. (byte - 64) \div 64 = (byte \div 64) - 1
    OBVIOUS
  <2>3. ((byte \div 64) - 1) % 2 # 1
    BY <1>1 DEF Translates
  <2>4. (byte - 64) % 2 = byte % 2
    OBVIOUS
  <2> QED BY <1>1, <2>1, <2>2, <2>3, <2>4 DEF Masked, Translates, Interrupts
<1>2. CASE ~Translates(byte)
  BY <1>2 DEF Masked, Translates, Interrupts
<1> QED BY <1>1, <1>2

LEMMA TalkedInit == BootInit => Talked
<1> SUFFICES ASSUME BootInit PROVE Talked
  OBVIOUS
<1>1. /\ pc = "scan_gpt" /\ step = 1 /\ command_byte = 0
      /\ honest = FALSE /\ timedout = FALSE /\ reported = FALSE /\ fresh = FALSE
      /\ inbox = <<>> /\ awaits = "command" /\ out = <<>>
      /\ config \in CommandBytes /\ port \in KeyBytes /\ set \in {1, 2}
  BY DEF BootInit, StartupInit
<1>2. config \in 0..255 /\ config % 2 = 1 /\ port \in 0..255
  BY <1>1, StartupAssumption
<1>3. Interrupts(config)
  BY <1>2 DEF Interrupts
<1>4. 1..Len(out) = {} /\ out \in Seq(Sent)
  <2>1. 1..Len(<<>>) = {} /\ <<>> \in Seq(Sent)
    OBVIOUS
  <2> QED BY <2>1, <1>1
<1>5. Asked
  BY <1>1, <1>3, <1>4, Zenon DEF Asked
<1>6. config \in Nat /\ port \in Nat /\ set \in Nat
  <2>1. set \in {1, 2}
    BY <1>1
  <2> QED BY <2>1, <1>2
<1>7. /\ pc \in Places /\ step \in 1..16 /\ command_byte \in Nat /\ step < 5 /\ pc # "loop"
  <2>1. pc = "scan_gpt" /\ step = 1 /\ command_byte = 0
    BY <1>1
  <2> QED BY <2>1 DEF Places, BeforeDialogue
<1> QED BY <1>1, <1>4, <1>5, <1>6, <1>7, Zenon DEF Talked

\* Asked and Answered depend on what the dialogue and the controller share.
LEMMA TalkedBefore ==
  ASSUME Talked, UNCHANGED <<host, controller>>,
         pc' = pc \/ (pc \in BeforeDialogue /\ pc' \in BeforeDialogue \cup {"keyboard"})
  PROVE  Talked'
<1>1. /\ step' = step /\ polls' = polls /\ command_byte' = command_byte /\ honest' = honest
      /\ timedout' = timedout /\ reported' = reported /\ config' = config /\ inbox' = inbox
      /\ awaits' = awaits /\ set' = set /\ out' = out /\ port' = port /\ full' = full
      /\ fresh' = fresh /\ presses' = presses
  BY DEF host, controller
<1>2. Asked' = Asked /\ Clear' = Clear /\ Configured' = Configured /\ SetTwo' = SetTwo
  BY <1>1 DEF Asked, Clear, Configured, SetTwo, Untaken, Idle
<1>3. CASE pc' = pc
  <2>1. Answered' = Answered
    BY <1>1, <1>3 DEF Answered, UnderWay, Clear, Configured, ConfigAsked, ConfigSent, SetAsked, SetTwo, Left, Untaken, Idle
  <2> QED BY <1>1, <1>2, <1>3, <2>1 DEF Talked
<1>4. CASE pc \in BeforeDialogue /\ pc' \in BeforeDialogue \cup {"keyboard"}
  <2>1. step = 1 /\ pc # "loop" /\ pc' # "loop" /\ pc' \in Places
    BY <1>4 DEF Talked, BeforeDialogue, Places
  <2> QED BY <1>1, <1>2, <2>1, <1>4 DEF Talked
<1> QED BY <1>3, <1>4

LEMMA TalkedPress == ASSUME Talked, Press PROVE Talked'
<1>1. /\ pc = "keyboard" /\ pc' = pc /\ UNCHANGED host /\ config' = config /\ inbox' = inbox
      /\ awaits' = awaits /\ set' = set /\ port' = port /\ fresh' = fresh
  BY DEF Press
<1>2. PICK byte \in KeyBytes : out' = Append(out, <<byte, TRUE>>)
  BY DEF Press
<1>3. /\ step' = step /\ command_byte' = command_byte /\ honest' = honest
      /\ timedout' = timedout /\ reported' = reported
  BY <1>1 DEF host
<1>4. <<byte, TRUE>> \in Sent /\ out \in Seq(Sent)
  <2>1. byte \in Nat
    BY StartupAssumption
  <2> QED BY <2>1 DEF Talked, Sent
<1>5. out' \in Seq(Sent) /\ Len(out') = Len(out) + 1
      /\ \A i \in 1..Len(out') : out'[i] = IF i =< Len(out) THEN out[i] ELSE <<byte, TRUE>>
  BY <1>2, <1>4
<1>6. Asked => Asked'
  <2> SUFFICES ASSUME Asked PROVE Asked'
    OBVIOUS
  <2>1. ASSUME NEW i \in 1..Len(out')
        PROVE  \/ out'[i][1] = byte /\ out'[i][2] = TRUE
               \/ i \in 1..Len(out) /\ out'[i] = out[i]
    <3>1. Len(out) \in Nat
      BY <1>4
    <3>2. i \in 1..Len(out) \/ ~(i =< Len(out))
      BY <3>1, <1>5
    <3>3. <<byte, TRUE>>[1] = byte /\ <<byte, TRUE>>[2] = TRUE
      OBVIOUS
    <3> QED BY <3>2, <3>3, <1>5
  <2>2. \A i \in 1..Len(out') : out'[i][2] = FALSE => out'[i][1] = config
    BY <2>1 DEF Asked
  <2>3. (\A i \in 1..Len(out) : out[i][2] = TRUE) => \A i \in 1..Len(out') : out'[i][2] = TRUE
    BY <2>1
  <2> QED BY <1>1, <1>3, <2>2, <2>3 DEF Asked, Untaken
<1>7. Answered' = Answered
  BY <1>1, <1>3 DEF Answered, UnderWay, Clear, Configured, ConfigAsked, ConfigSent, SetAsked, SetTwo, Left, Untaken, Idle
<1> QED BY <1>1, <1>3, <1>5, <1>6, <1>7 DEF Talked

LEMMA TalkedDeliver == ASSUME Talked, Deliver PROVE Talked'
<1>1. /\ pc' = pc /\ UNCHANGED host /\ config' = config /\ inbox' = inbox
      /\ awaits' = awaits /\ set' = set
      /\ out # <<>> /\ port' = out[1][1] /\ fresh' = ~out[1][2] /\ out' = Tail(out)
  BY DEF Deliver
<1>2. /\ step' = step /\ command_byte' = command_byte /\ honest' = honest
      /\ timedout' = timedout /\ reported' = reported
  BY <1>1 DEF host
<1>3. out \in Seq(Sent) /\ Len(out) \in Nat \ {0} /\ out[1] \in Sent
  <2>1. out \in Seq(Sent)
    BY DEF Talked
  <2>2. Len(out) \in Nat \ {0}
    BY <1>1, <2>1
  <2> QED BY <2>1, <2>2
<1>4. port' \in Nat /\ fresh' \in BOOLEAN
  BY <1>1, <1>3 DEF Sent
<1>5. out' \in Seq(Sent) /\ Len(out') = Len(out) - 1
      /\ \A i \in 1..Len(out') : out'[i] = out[i + 1]
  BY <1>1, <1>3
<1>6. Asked => Asked'
  <2> SUFFICES ASSUME Asked PROVE Asked'
    OBVIOUS
  <2>1. ASSUME NEW i \in 1..Len(out') PROVE i + 1 \in 1..Len(out) /\ out'[i] = out[i + 1]
    BY <1>3, <1>5
  <2>2. \A i \in 1..Len(out') : out'[i][2] = FALSE => out'[i][1] = config
    BY <2>1 DEF Asked
  <2>3. (\A i \in 1..Len(out) : out[i][2] = TRUE) => (~fresh' /\ \A i \in 1..Len(out') : out'[i][2] = TRUE)
    <3>1. 1 \in 1..Len(out)
      BY <1>3
    <3> QED BY <2>1, <3>1, <1>1
  <2>4. fresh' => port' = config
    <3>1. 1 \in 1..Len(out)
      BY <1>3
    <3>2. out[1][2] \in BOOLEAN
      BY <1>3 DEF Sent
    <3> QED BY <3>1, <3>2, <1>1 DEF Asked
  <2> QED BY <1>1, <1>2, <2>2, <2>3, <2>4 DEF Asked, Untaken
<1>7. Answered' = Answered
  BY <1>1, <1>2 DEF Answered, UnderWay, Clear, Configured, ConfigAsked, ConfigSent, SetAsked, SetTwo, Left, Untaken, Idle
<1> QED BY <1>1, <1>2, <1>4, <1>5, <1>6, <1>7 DEF Talked

\* What is taken was written, and nothing is left.
LEMMA Taking ==
  ASSUME inbox # <<>>, inbox' = <<>>
  PROVE  /\ \A where, byte : Untaken(where, byte) => inbox[1] = where /\ inbox[2] = byte
         /\ ~Idle
         /\ Idle'
  BY DEF Untaken, Idle

\* One byte more is on its way.
LEMMA Sending ==
  ASSUME NEW byte \in Nat, NEW key \in BOOLEAN, out \in Seq(Sent), out' = Append(out, <<byte, key>>)
  PROVE  /\ out' \in Seq(Sent)
         /\ \A i \in 1..Len(out') : \/ out'[i][1] = byte /\ out'[i][2] = key
                                    \/ i \in 1..Len(out) /\ out'[i] = out[i]
<1>1. <<byte, key>> \in Sent
  BY DEF Sent
<1> DEFINE pair == <<byte, key>>
<1>2. pair[1] = byte /\ pair[2] = key
  OBVIOUS
<1>3. pair \in Sent /\ out' = Append(out, pair)
  BY <1>1
<1> HIDE DEF pair
<1>4. /\ out' \in Seq(Sent) /\ Len(out) \in Nat /\ Len(out') = Len(out) + 1
      /\ \A i \in 1..Len(out') : out'[i] = IF i =< Len(out) THEN out[i] ELSE pair
  BY <1>3
<1>5. \A i \in 1..Len(out') : i \in 1..Len(out) \/ ~(i =< Len(out))
  BY <1>4
<1> QED BY <1>2, <1>4, <1>5

LEMMA TalkedTake == ASSUME Talked, Take PROVE Talked'
<1> DEFINE kind == inbox[1]
           byte == inbox[2]
           more(answer) == Append(out, <<answer, FALSE>>)
<1>1. /\ pc' = pc /\ port' = port /\ fresh' = fresh
      /\ step' = step /\ command_byte' = command_byte /\ honest' = honest
      /\ timedout' = timedout /\ reported' = reported
  BY DEF Take, host
<1>2. inbox # <<>> /\ inbox' = <<>>
  BY DEF Take
<1>3. inbox \in {"command", "data"} \X Nat
  BY <1>2 DEF Talked
<1>4. byte \in Nat
  BY <1>3
<1>5. config \in Nat /\ set \in Nat /\ out \in Seq(Sent)
  BY DEF Talked
<1>6. \/ /\ kind = "command" /\ byte = 32 /\ out' = more(config)
         /\ config' = config /\ awaits' = awaits /\ set' = set
      \/ /\ kind = "command" /\ byte = 96 /\ awaits' = "config"
         /\ config' = config /\ set' = set /\ out' = out
      \/ /\ kind = "data" /\ awaits = "config" /\ config' = byte /\ awaits' = "command"
         /\ set' = set /\ out' = out
      \/ /\ kind = "data" /\ awaits # "config" /\ out' = more(Ack)
         /\ awaits' = IF byte = SetScancode THEN "set" ELSE "command"
         /\ set' = IF awaits = "set" THEN byte ELSE set
         /\ config' = config
  BY DEF Take
<1>7. /\ \A where, b : Untaken(where, b) => kind = where /\ byte = b
      /\ ~Idle
      /\ Idle'
  BY <1>2, Taking
<1>8. ASSUME NEW answer \in Nat, out' = more(answer)
      PROVE  /\ out' \in Seq(Sent)
             /\ \A i \in 1..Len(out') : \/ out'[i][1] = answer /\ out'[i][2] = FALSE
                                        \/ i \in 1..Len(out) /\ out'[i] = out[i]
  BY <1>5, <1>8, Sending
<1> HIDE DEF kind, byte, more
<1>12. config' \in Nat /\ set' \in Nat /\ out' \in Seq(Sent)
  BY <1>4, <1>5, <1>6, <1>8 DEF Ack
<1>9. Asked => Asked'
  <2> SUFFICES ASSUME Asked PROVE Asked'
    OBVIOUS
  <2>1. Untaken("command", 32) /\ ~fresh /\ awaits = "command" /\ step \in {3, 4}
    BY <1>2 DEF Asked
  <2>2. kind = "command" /\ byte = 32
    BY <2>1, <1>7
  <2>3. out' = more(config) /\ config' = config /\ awaits' = awaits
    BY <2>2, <1>6
  <2>4. \A i \in 1..Len(out') : out'[i][1] = config \/ (i \in 1..Len(out) /\ out'[i] = out[i])
    BY <2>3, <1>5, <1>8
  <2>5. \A i \in 1..Len(out') : out'[i][2] = FALSE => out'[i][1] = config'
    BY <2>3, <2>4 DEF Asked
  <2>6. ~(step' <= 2)
    <3>1. step \in {3, 4} /\ step' = step
      BY <2>1, <1>1
    <3> QED BY ONLY <3>1
  <2>7. ~honest' /\ Interrupts(config') /\ awaits' = "command" /\ ~fresh'
    BY <2>1, <2>3, <1>1 DEF Asked
  <2> QED BY <1>2, <2>5, <2>6, <2>7, Zenon DEF Asked
<1>10. \/ kind = "command" /\ byte = 32 /\ config' = config /\ awaits' = awaits /\ set' = set
       \/ kind = "command" /\ byte = 96 /\ awaits' = "config" /\ config' = config /\ set' = set
       \/ /\ kind = "data" /\ awaits = "config" /\ config' = byte /\ awaits' = "command"
          /\ set' = set
       \/ /\ kind = "data" /\ awaits # "config" /\ config' = config
          /\ awaits' = IF byte = SetScancode THEN "set" ELSE "command"
          /\ set' = IF awaits = "set" THEN byte ELSE set
  BY <1>6, Zenon
<1>14. /\ kind = "data" => \A b : ~Untaken("command", b)
       /\ kind = "command" => \A b : ~Untaken("data", b)
       /\ byte = 32 => ~Untaken("command", 96)
       /\ Untaken("data", SetScancode) => byte = SetScancode
       /\ Untaken("data", command_byte) => byte = command_byte
       /\ Untaken("data", 2) => byte = 2 /\ byte # SetScancode
  <2>1. kind = "data" => \A b : ~Untaken("command", b)
    BY <1>7
  <2>2. kind = "command" => \A b : ~Untaken("data", b)
    BY <1>7
  <2>3. byte = 32 => ~Untaken("command", 96)
    BY <1>4, <1>7
  <2>4. Untaken("data", SetScancode) => byte = SetScancode
    BY <1>7
  <2>5. Untaken("data", command_byte) => byte = command_byte
    BY <1>7
  <2>6. Untaken("data", 2) => byte = 2 /\ byte # SetScancode
    BY <1>4, <1>7 DEF SetScancode
  <2> QED BY <2>1, <2>2, <2>3, <2>4, <2>5, <2>6
<1>11. Answered => Answered'
  <2> SUFFICES ASSUME Answered PROVE Answered'
    OBVIOUS
  <2>1. (config' = config \/ config' = command_byte) => Clear' /\ Interrupts(config')
    BY <1>1 DEF Answered, Clear
  <2>2. ConfigAsked => ConfigAsked'
    BY <1>7, <1>10, <1>14, Zenon DEF ConfigAsked
  <2>3. ConfigSent => ConfigSent'
    BY <1>1, <1>7, <1>10, <1>14, Zenon DEF ConfigSent, Configured
  <2>4. SetAsked => SetAsked'
    BY <1>1, <1>7, <1>10, <1>14, Zenon DEF SetAsked, Configured
  <2>5. SetTwo => SetTwo'
    BY <1>1, <1>7, <1>10, <1>14, Zenon DEF SetTwo, Configured
  <2>6. Left => Left'
    BY <1>1, <1>2, <1>7, <1>10, <1>14, <2>5, Zenon DEF Left, Configured
  <2>7. ConfigAsked \/ ConfigSent \/ SetAsked \/ SetTwo \/ Left => config' = config \/ config' = command_byte
    BY <1>7, <1>10, <1>14, Zenon DEF ConfigAsked, ConfigSent, SetAsked, SetTwo, Left
  <2>8. ConfigAsked \/ ConfigSent \/ SetAsked \/ SetTwo \/ Left
    BY <1>7, Zenon DEF Answered, UnderWay
  <2> QED BY <2>1, <2>2, <2>3, <2>4, <2>5, <2>6, <2>7, <2>8, <1>1, <1>7, Zenon DEF Answered, UnderWay
<1> QED BY <1>1, <1>2, <1>12, <1>9, <1>11 DEF Talked

\* What is under way at each step.
\* What is under way at each step.
LEMMA AnsweredAt ==
  ASSUME Answered, pc = "keyboard"
  PROVE  /\ Clear /\ Interrupts(config) /\ UnderWay
         /\ step \in {5, 6} => Idle /\ awaits = "command"
         /\ step = 7 => ConfigAsked
         /\ step = 8 => Idle /\ awaits = "config"
         /\ step = 9 => ConfigSent
         /\ step = 10 => Configured /\ Idle /\ awaits = "command"
         /\ step \in {11, 12, 13} => SetAsked
         /\ step = 14 => Configured /\ Idle /\ awaits = "set"
         /\ step \in {15, 16} => SetTwo
<1>1. Clear /\ Interrupts(config) /\ UnderWay
  BY DEF Answered
<1> QED BY <1>1 DEF UnderWay

\* A loop that ends without a timeout has found what it waits for.
LEMMA TalkedAwait == ASSUME Talked, Await PROVE Talked'
<1>1. /\ pc = "keyboard" /\ pc \in Places /\ step \in 1..16 /\ step \in {1, 5, 7, 9, 13} \cup {3, 11, 15}
      /\ Dialogue[step] = "input" <=> step \in {1, 5, 7, 9, 13}
  BY Steps DEF Await, Doing, Talked
<1>2. /\ command_byte' = command_byte /\ honest' = honest /\ reported' = reported
      /\ config' = config /\ inbox' = inbox /\ awaits' = awaits /\ set' = set /\ out' = out
      /\ port' = port /\ fresh' = fresh
  BY DEF Await, controller
<1>3. /\ Clear' = Clear /\ Configured' = Configured /\ SetTwo' = SetTwo /\ SetAsked' = SetAsked
      /\ ConfigSent' = ConfigSent /\ ConfigAsked' = ConfigAsked /\ Left' = Left
      /\ Idle' = Idle
  BY <1>2 DEF Clear, Configured, SetTwo, SetAsked, ConfigSent, ConfigAsked, Left, Untaken, Idle
<1>4. /\ port' \in Nat /\ command_byte' \in Nat /\ set' \in Nat /\ config' \in Nat /\ out' \in Seq(Sent)
      /\ fresh' \in BOOLEAN /\ honest' \in BOOLEAN
      /\ inbox' = <<>> \/ inbox' \in {"command", "data"} \X Nat
  BY <1>2 DEF Talked
<1>5. CASE pc' = pc /\ step' = step /\ timedout' = timedout
  <2>1. Asked' = Asked /\ Answered' = Answered
    BY <1>2, <1>3, <1>5 DEF Asked, Answered, UnderWay, Untaken
  <2> QED BY <2>1, <1>2, <1>5 DEF Talked
<1>6. CASE /\ timedout' = TRUE
           /\ \/ step' = 9 /\ pc' = pc
              \/ step' = 1 /\ pc' = "loop"
  <2>1. step' \in 1..16 /\ pc' \in Places /\ pc' \notin BeforeDialogue /\ ~reported
    BY <1>1, <1>6 DEF Talked, Places, BeforeDialogue
  <2> QED BY <2>1, <1>2, <1>4, <1>6, Zenon DEF Talked
<1>7. CASE ~Waits /\ step' = step + 1 /\ pc' = pc /\ timedout' = timedout
  <2>1. step' \in 1..16 /\ (step \in {1, 5, 7, 9, 13} => inbox = <<>>)
    BY <1>1, <1>7 DEF Waits, Doing
  <2>2. Asked /\ step <= 4 => Asked'
    BY <1>1, <1>2, <1>7, <2>1 DEF Asked, Untaken
  <2>3. \A where, byte : inbox = <<>> => ~Untaken(where, byte)
    BY DEF Untaken
  <2>4. Answered => Answered'
    <3> SUFFICES ASSUME Answered PROVE Answered'
      OBVIOUS
    <3>1. Clear' /\ Interrupts(config')
      BY <1>2, <1>3 DEF Answered
    <3>2. UnderWay'
      BY AnsweredAt, <1>1, <1>2, <1>3, <1>7, <2>1, <2>3
         DEF UnderWay, ConfigAsked, ConfigSent, SetAsked, Idle
    <3> QED BY <3>1, <3>2, <1>1, <1>7 DEF Answered
  <2>5. step = 3 \/ step <= 1 \/ step >= 5
    BY <1>1
  <2>6. ~reported /\ pc' \in Places /\ pc' \notin BeforeDialogue
    BY <1>1, <1>7 DEF Talked, BeforeDialogue
  <2> QED BY <2>1, <2>2, <2>4, <2>5, <2>6, <1>1, <1>2, <1>4, <1>7 DEF Talked
<1> QED BY <1>5, <1>6, <1>7 DEF Await, Ends, Onward

\* Each write begins what is then under way.
LEMMA TalkedOutb ==
  ASSUME Talked, NEW what, NEW where \in {"command", "data"}, NEW byte \in Nat, Outb(what, where, byte),
         \/ what = "read_command_byte" /\ where = "command" /\ byte = 32
         \/ what = "write_command_byte" /\ where = "command" /\ byte = 96
         \/ what = "send" /\ where = "data" /\ byte = command_byte
         \/ what = "set_scancode" /\ where = "data" /\ byte = SetScancode
         \/ what = "set_2" /\ where = "data" /\ byte = 2
  PROVE  Talked'
<1>1. /\ pc = "keyboard" /\ pc' = pc /\ step \in 1..16 /\ step' = step + 1 /\ Dialogue[step] = what
      /\ command_byte' = command_byte /\ honest' = honest /\ reported' = reported
      /\ timedout' = timedout /\ config' = config /\ awaits' = awaits /\ set' = set /\ out' = out
      /\ port' = port
  BY DEF Outb, Doing, Onward, Talked
<1>2. inbox' = <<where, byte>> /\ fresh' = FALSE
  BY DEF Outb
<1>3. /\ step' \in 1..16
      /\ \/ step = 2 /\ where = "command" /\ byte = 32
         \/ step = 6 /\ where = "command" /\ byte = 96
         \/ step = 8 /\ where = "data" /\ byte = command_byte
         \/ step = 10 /\ where = "data" /\ byte = SetScancode
         \/ step = 14 /\ where = "data" /\ byte = 2
  BY <1>1, Steps
<1>4. inbox' \in {"command", "data"} \X Nat /\ Untaken(where, byte)'
  BY <1>2 DEF Untaken
<1>5. step <= 4 /\ Asked => Asked'
  BY <1>1, <1>2, <1>3 DEF Asked, Untaken
<1>6. step >= 5 /\ Answered => Answered'
  <2> SUFFICES ASSUME step >= 5, Answered PROVE Answered'
    OBVIOUS
  <2>1. Clear' /\ Interrupts(config')
    BY <1>1 DEF Answered, Clear
  <2>2. CASE step = 6
    <3>1. Untaken("command", 96)' /\ awaits' = "command"
      BY <2>2, <1>1, <1>3, <1>4, AnsweredAt
    <3>2. UnderWay'
      BY <2>2, <3>1, <1>1 DEF UnderWay, ConfigAsked
    <3> QED BY <2>1, <3>2, <1>1 DEF Answered
  <2>3. CASE step = 8
    <3>1. Untaken("data", command_byte)' /\ awaits' = "config"
      BY <2>3, <1>1, <1>2, <1>3, AnsweredAt DEF Untaken
    <3>2. UnderWay'
      BY <2>3, <3>1, <1>1 DEF UnderWay, ConfigSent
    <3> QED BY <2>1, <3>2, <1>1 DEF Answered
  <2>4. CASE step = 10
    <3>1. Untaken("data", SetScancode)' /\ awaits' = "command" /\ Configured'
      BY <2>4, <1>1, <1>2, <1>3, AnsweredAt DEF Untaken, Configured, SetScancode
    <3>2. UnderWay'
      BY <2>4, <3>1, <1>1 DEF UnderWay, SetAsked
    <3> QED BY <2>1, <3>2, <1>1 DEF Answered
  <2>5. CASE step = 14
    <3>1. Untaken("data", 2)' /\ awaits' = "set" /\ Configured'
      BY <2>5, <1>1, <1>3, <1>4, AnsweredAt DEF Configured
    <3>2. UnderWay'
      BY <2>5, <3>1, <1>1 DEF UnderWay, SetTwo
    <3> QED BY <2>1, <3>2, <1>1 DEF Answered
  <2> QED BY <2>2, <2>3, <2>4, <2>5, <1>3
<1>7. ~reported /\ pc' \in Places /\ pc' \notin BeforeDialogue /\ step # 4
  BY <1>1, <1>3 DEF Talked, BeforeDialogue
<1>8. /\ port' \in Nat /\ command_byte' \in Nat /\ set' \in Nat /\ config' \in Nat /\ out' \in Seq(Sent)
      /\ fresh' \in BOOLEAN /\ honest' \in BOOLEAN /\ timedout' \in BOOLEAN
  BY <1>1, <1>2 DEF Talked
<1> QED BY <1>1, <1>3, <1>4, <1>5, <1>6, <1>7, <1>8 DEF Talked

\* The byte at the port is masked; it is the controller's if it is fresh.
LEMMA TalkedTakeByte == ASSUME Talked, TakeCommandByte PROVE Talked'
<1>1. /\ pc = "keyboard" /\ pc' = pc /\ step \in 1..16 /\ step' = step + 1 /\ Dialogue[step] = "take"
      /\ command_byte' = Masked(port) /\ honest' = fresh /\ reported' = reported
      /\ timedout' = timedout /\ config' = config /\ inbox' = inbox /\ awaits' = awaits /\ set' = set
      /\ out' = out /\ port' = port /\ fresh' = fresh
  BY DEF TakeCommandByte, Doing, Onward, Talked
<1>2. step = 4 /\ step' = 5
  BY <1>1, Steps
<1>3. port \in Nat
  BY DEF Talked
<1>4. Asked /\ fresh => Answered'
  <2> SUFFICES ASSUME Asked, fresh PROVE Answered'
    OBVIOUS
  <2>1. Interrupts(config) /\ awaits = "command" /\ port = config /\ inbox = <<>>
    BY DEF Asked
  <2>2. Clear' /\ Interrupts(config')
    BY <2>1, <1>1, <1>3, MaskedByte DEF Clear
  <2>3. UnderWay'
    BY <2>1, <1>1, <1>2 DEF UnderWay, Idle
  <2> QED BY <2>2, <2>3, <1>1 DEF Answered
<1>5. /\ port' \in Nat /\ command_byte' \in Nat /\ set' \in Nat /\ config' \in Nat /\ out' \in Seq(Sent)
      /\ fresh' \in BOOLEAN /\ honest' \in BOOLEAN /\ timedout' \in BOOLEAN
      /\ inbox' = <<>> \/ inbox' \in {"command", "data"} \X Nat
  BY <1>1, <1>3, MaskedByte DEF Talked
<1>6. ~reported /\ pc' \in Places /\ pc' \notin BeforeDialogue
  BY <1>1 DEF Talked, BeforeDialogue
<1>7. honest' /\ ~timedout' => Answered'
  BY <1>1, <1>2, <1>4 DEF Talked
<1> QED BY <1>1, <1>2, <1>5, <1>6, <1>7 DEF Talked

\* Success is reported in the last step only.
LEMMA TalkedCheck == ASSUME Talked, Check PROVE Talked'
<1>1. /\ pc = "keyboard" /\ step \in 1..16 /\ Dialogue[step] = "check"
      /\ \/ pc' = pc /\ step' = step + 1 /\ step # 16
         \/ pc' = "loop" /\ step' = 1
      /\ reported' = (port = Ack /\ step = 16)
      /\ command_byte' = command_byte /\ honest' = honest
      /\ timedout' = timedout /\ config' = config /\ inbox' = inbox /\ awaits' = awaits /\ set' = set
      /\ out' = out /\ port' = port /\ fresh' = fresh
  BY Steps DEF Check, Doing, Onward, Ends, Talked
<1>1a. reported' => step = 16
  BY <1>1
<1>2. step \in {12, 16} /\ step' \in 1..16
  BY <1>1, Steps
<1>3. /\ Clear' = Clear /\ Configured' = Configured /\ SetTwo' = SetTwo /\ SetAsked' = SetAsked
  BY <1>1 DEF Clear, Configured, SetTwo, SetAsked, Untaken, Idle
<1>4. Answered => Answered'
  <2> SUFFICES ASSUME Answered PROVE Answered'
    OBVIOUS
  <2>1. Clear' /\ Interrupts(config')
    BY <1>1, <1>3 DEF Answered
  <2>2. CASE pc' = pc /\ step' = step + 1 /\ step # 16
    <3>1. SetAsked' /\ step' = 13
      BY <2>2, <1>1, <1>2, <1>3, AnsweredAt
    <3>2. UnderWay'
      BY <3>1 DEF UnderWay
    <3> QED BY <2>1, <2>2, <3>2, <1>1 DEF Answered
  <2>3. CASE pc' = "loop" /\ step = 12
    <3>1. SetAsked
      BY <2>3, <1>1, AnsweredAt
    <3>2. ~reported'
      BY <2>3, <1>1a
    <3>3. SetAsked'
      BY <3>1, <1>3
    <3>4. Left'
      BY <3>2, <3>3, <1>1, <2>3 DEF Left, SetAsked, Configured, Untaken, Idle
    <3> QED BY <2>1, <2>3, <3>4 DEF Answered
  <2>4. CASE pc' = "loop" /\ step = 16
    <3>1. SetTwo
      BY <2>4, <1>1, AnsweredAt
    <3>2. Left'
      BY <3>1, <1>1, <1>3 DEF Left, SetTwo, Configured, Untaken, Idle
    <3> QED BY <2>1, <2>4, <3>2 DEF Answered
  <2> QED BY <2>2, <2>3, <2>4, <1>1, <1>2
<1>5. /\ port' \in Nat /\ command_byte' \in Nat /\ set' \in Nat /\ config' \in Nat /\ out' \in Seq(Sent)
      /\ fresh' \in BOOLEAN /\ honest' \in BOOLEAN /\ timedout' \in BOOLEAN
      /\ inbox' = <<>> \/ inbox' \in {"command", "data"} \X Nat
  BY <1>1 DEF Talked
<1>6. pc' \in Places /\ pc' \notin BeforeDialogue /\ (reported' => pc' = "loop")
      /\ ~(pc' # "loop" /\ step' <= 4) /\ step >= 5
  <2>1. pc = "keyboard" /\ (pc' = pc \/ pc' = "loop")
    BY <1>1
  <2>2. pc' \in Places /\ pc' \notin BeforeDialogue
    BY <2>1 DEF Places, BeforeDialogue
  <2>3. (pc' = pc /\ step' = step + 1 /\ step # 16) \/ pc' = "loop"
    BY <1>1
  <2>4. reported' => pc' = "loop"
    BY <2>3, <1>1a
  <2>5. step >= 5
    BY <1>2
  <2>6. pc' = "loop" \/ step' = step + 1
    BY <2>3
  <2>7. ~(pc' # "loop" /\ step' <= 4)
    BY <2>5, <2>6, <1>2
  <2> QED BY <2>2, <2>4, <2>5, <2>7
<1>7. honest' /\ ~timedout' => Answered'
  BY <1>1, <1>2, <1>4 DEF Talked
<1> QED BY <1>1, <1>2, <1>5, <1>6, <1>7 DEF Talked

LEMMA TalkedTalk == Talked /\ Talk => Talked'
<1> SUFFICES ASSUME Talked, Talk PROVE Talked'
  OBVIOUS
<1>1. command_byte \in Nat /\ 32 \in Nat /\ 96 \in Nat /\ 2 \in Nat /\ SetScancode \in Nat
  BY DEF Talked, SetScancode
<1>2. CASE Outb("read_command_byte", "command", 32)
  BY <1>1, <1>2, TalkedOutb
<1>3. CASE Outb("write_command_byte", "command", 96)
  BY <1>1, <1>3, TalkedOutb
<1>4. CASE Outb("send", "data", command_byte)
  BY <1>1, <1>4, TalkedOutb
<1>5. CASE Outb("set_scancode", "data", SetScancode)
  BY <1>1, <1>5, TalkedOutb
<1>6. CASE Outb("set_2", "data", 2)
  BY <1>1, <1>6, TalkedOutb
<1> QED BY <1>2, <1>3, <1>4, <1>5, <1>6, TalkedAwait, TalkedTakeByte, TalkedCheck DEF Talk

-----------------------------------------------------------------------------
(* kernel_main *)

LEMMA StartupKeeps == Scanned /\ Talked /\ [BootNext]_bvars => Scanned' /\ Talked'
<1> SUFFICES ASSUME Scanned, Talked, [BootNext]_bvars PROVE Scanned' /\ Talked'
  OBVIOUS
<1>1. CASE UNCHANGED startup
  <2>1. UNCHANGED scan /\ UNCHANGED <<host, controller>> /\ pc' = pc
    BY <1>1 DEF startup, scan, host, controller
  <2> QED BY <2>1, ScannedElse, TalkedBefore
<1>2. CASE scan_gpt \/ ScanEntry \/ NoEntry
  <2>1. Scanned'
    BY <1>2, ScannedStarts, ScannedGoesOn, ScannedEnds
  <2>2. /\ UNCHANGED <<host, controller>>
        /\ pc' = pc \/ (pc \in BeforeDialogue /\ pc' \in BeforeDialogue \cup {"keyboard"})
    BY <1>2 DEF scan_gpt, ScanEntry, NoEntry, BeforeDialogue
  <2> QED BY <2>1, <2>2, TalkedBefore
<1>3. CASE PagingSetup
  <2>1. UNCHANGED scan /\ UNCHANGED <<host, controller>> /\ pc = "paging_setup" /\ pc' = "read_boot_record"
    BY <1>3 DEF PagingSetup
  <2>2. pc \in BeforeDialogue /\ pc' \in BeforeDialogue \cup {"keyboard"}
    BY <2>1 DEF BeforeDialogue
  <2> QED BY <2>1, <2>2, ScannedElse, TalkedBefore
<1>4. CASE read_boot_record
  <2>1. UNCHANGED <<host, controller>> /\ pc = "read_boot_record" /\ pc' = "keyboard"
    BY <1>4 DEF read_boot_record
  <2>2. pc \in BeforeDialogue /\ pc' \in BeforeDialogue \cup {"keyboard"}
    BY <2>1 DEF BeforeDialogue
  <2> QED BY <1>4, <2>1, <2>2, ScannedBootRecord, TalkedBefore
<1>5. CASE Talk
  <2>1. UNCHANGED scan /\ pc = "keyboard" /\ (pc' = pc \/ pc' = "loop")
    BY <1>5 DEF Talk, Await, Outb, TakeCommandByte, Check, Doing, Onward, Ends, scan
  <2> QED BY <1>5, <2>1, TalkedTalk, ScannedElse
<1>6. CASE Devices
  <2>1. UNCHANGED scan /\ pc' = pc
    BY <1>6 DEF Devices, Take, Deliver, Press, scan
  <2> QED BY <1>6, <2>1, ScannedElse, TalkedTake, TalkedDeliver, TalkedPress DEF Devices
<1> QED BY <1>1, <1>2, <1>3, <1>4, <1>5, <1>6
        DEF BootNext, kernel_main, ScanDisk, ReadBootRecord, TalkToKeyboard, Faults, Goes, UsesHeap, bvars,
            startup

\* The start of the kernel uses memory as paging.c describes it: each step of
\* kernel_main is a step of Paging, or does not touch it.
THEOREM BootUsesPaging == BootSpec => Init /\ [][Next]_vars
  BY StepOfPaging, PTL DEF BootSpec, BootInit

\* From kernel_main's first line on the heap's pages and their table have frames
\* of their own, apart from frame 0 once memory is exhausted.
THEOREM FramesFromTheStart == BootSpec => []FramesApart
<1>1. Init /\ [][Next]_vars => []IInv
  BY InitIInv, PagingKeeps, PTL
<1>2. IInv => FramesApart
  BY FramesInvariant
<1> QED BY BootUsesPaging, <1>1, <1>2, PTL

\* With memory for the heap and its table right behind low memory, all of the
\* heap is in usable memory, whatever regions the BIOS reports and however far
\* set_memory_bitmap marks beyond their ends (paging.c:74-94, 135-143).
THEOREM HeapInUsableMemory == BootSpec => []EnoughIsUsable
<1> DEFINE Inv == IInv /\ memory_map \in MemoryMaps /\ InOrder
<1>1. Init => Inv
  BY InitIInv DEF Init, InOrder
<1>2. Inv /\ [Next]_vars => Inv'
  BY PagingKeeps, OrderKeeps
<1>3. Init /\ [][Next]_vars => []Inv
  BY <1>1, <1>2, PTL
<1>4. Inv => EnoughIsUsable
  BY OrderIsUsable
<1> QED BY BootUsesPaging, <1>3, <1>4, PTL

LEMMA StartupInvariance == BootSpec => [](Scanned /\ Talked)
<1>1. BootInit => Scanned /\ Talked
  BY ScannedInit, TalkedInit
<1> QED BY <1>1, StartupKeeps, PTL DEF BootSpec

\* Whatever the disk holds, and whichever reads fail, the bounds that later
\* writes are checked against are those of a partition of ours, or empty
\* (scan_gpt, diskreader.c:129-160).
THEOREM BoundsAreOurs == BootSpec => []PartitionIsOurs
<1>1. Scanned => PartitionIsOurs
  BY DEF Scanned
<1> QED BY StartupInvariance, <1>1, PTL

\* However late the controller answers and whatever is typed meanwhile, the
\* keyboard goes on interrupting and ends up in set 2, untranslated, once
\* success is reported (disable_translation, switch_scancode_set,
\* keyboardhandler.c:42-137).
THEOREM KeyboardSetUp == BootSpec => []SetUp
<1>1. Talked => SetUp
  <2> SUFFICES ASSUME Talked, honest, ~timedout PROVE SetUp
    BY DEF SetUp
  <2>1. Answered
    <3>1. pc # "loop" /\ step <= 4 => ~honest
      BY DEF Talked, Asked
    <3>2. step \in 1..16 /\ (pc = "loop" \/ step >= 5)
      BY <3>1 DEF Talked
    <3> QED BY <3>2 DEF Talked
  <2>2. reported => SetTwo
    BY <2>1 DEF Answered, Left, Talked
  <2>3. SetTwo /\ inbox = <<>> => set = 2 /\ Configured
    BY DEF SetTwo, Untaken
  <2> QED BY <2>1, <2>2, <2>3 DEF SetUp, Answered, Clear, Configured
<1> QED BY StartupInvariance, <1>1, PTL

=============================================================================
