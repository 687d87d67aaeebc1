----------------------------- MODULE HeapProofs -----------------------------
(***************************************************************************)
(* The heap's safety properties for every heap size, header size and set   *)
(* of requests: IInv is inductive, and with it every step of Heap is a     *)
(* step of Alloc.                                                          *)
(***************************************************************************)
EXTENDS Heap, TLAPS

\* A request is rounded up to a multiple of the word, never down.
LEMMA AlignLemma == \A n \in Nat : ALIGN4(n) \in Nat /\ ALIGN4(n) >= n
  BY DEF ALIGN4

\* The invariant holds before the first allocation.
LEMMA InitInv == Init => IInv
  <1> SUFFICES ASSUME Init PROVE IInv
    OBVIOUS
  <1> USE HeapAssumption DEF Init, NoCall, NoStats, Headers
  <1>1. TypeOK
    BY DEF TypeOK, Addr, Header
  <1>2. Tiling
    BY DEF Tiling
  <1>3. Unmerged /\ HeldBacked /\ Accounted /\ Walk /\ Summed /\ StatsExact
    BY DEF Unmerged, HeldBacked, Accounted, Walk, Summed, StatsExact
  <1> QED BY <1>1, <1>2, <1>3 DEF IInv

\* kmalloc's first block.
LEMMA FirstInv == IInv /\ FirstKmalloc => IInv'
  <1> SUFFICES ASSUME IInv, FirstKmalloc PROVE IInv'
    OBVIOUS
  <1>0. FirstRequest \in Nat /\ ALIGN4(FirstRequest) \in Nat
        /\ ALIGN4(FirstRequest) >= FirstRequest
    BY HeapAssumption, AlignLemma
  <1>a. Headers = {} /\ DOMAIN held = {}
    BY DEF IInv, Tiling, FirstKmalloc, HeldBacked
  <1>b. /\ Headers' = {HeapStart}
        /\ hdr' = [a \in {HeapStart} |->
                    [size |-> ALIGN4(FirstRequest), free |-> 0, next |-> NULL]]
        /\ DOMAIN held' = {HeapStart + HDR}
        /\ held' = [p \in {HeapStart + HDR} |-> FirstRequest]
    BY <1>a DEF FirstKmalloc, Put, Headers
  <1> USE HeapAssumption
  <1>c. current = NULL /\ prev = NULL
    BY <1>a DEF IInv, TypeOK
  <1>1. TypeOK'
    <2>1. HeapStart \in Addr /\ HeapStart + HDR \in Addr
      BY <1>0 DEF Addr
    <2>2. hdr' \in [Headers' -> Header]
      BY <1>0, <1>b DEF Header
    <2>3. held' \in [DOMAIN held' -> Sizes]
      BY <1>b
    <2> QED BY <1>b, <1>c, <2>1, <2>2, <2>3 DEF IInv, TypeOK, FirstKmalloc
  <1>2. Tiling'
    BY <1>0, <1>b DEF Tiling, End, FirstKmalloc
  <1>3. Unmerged' /\ HeldBacked' /\ Accounted'
    BY <1>0, <1>b DEF Unmerged, HeldBacked, Accounted
  <1>4. Walk' /\ Summed' /\ StatsExact'
    BY DEF Walk, Summed, StatsExact, FirstKmalloc
  <1> QED BY <1>1, <1>2, <1>3, <1>4 DEF IInv

\* What the block list and the payloads say does not depend on the loops.
LEMMA StillLemma ==
  ASSUME IInv, UNCHANGED <<heap_base, hdr, held>>
  PROVE  Tiling' /\ HeldBacked'
  BY DEF IInv, Tiling, HeldBacked, End, Headers

\* Facts about a header that every step needs.
LEMMA HeaderLemma ==
  ASSUME IInv, NEW a \in Headers
  PROVE  /\ a \in Addr /\ a \in Int /\ a \in Nat /\ a # NULL
         /\ hdr[a] \in Header /\ hdr[a].size \in Nat /\ hdr[a].free \in {0, 1}
         /\ hdr[a].next = NULL \/ hdr[a].next \in Headers
         /\ hdr[a] = [size |-> hdr[a].size, free |-> hdr[a].free,
                      next |-> hdr[a].next]
         /\ End(a) \in Nat /\ a + HDR <= End(a)
         /\ heap_base = HeapStart /\ HeapStart \in Headers /\ HeapStart <= a
  <1> USE HeapAssumption
  <1>1. a \in Addr /\ hdr[a] \in Header
    BY DEF IInv, TypeOK, Headers
  <1>2. a \in Nat /\ a # NULL
    BY <1>1 DEF Addr
  <1>3. /\ hdr[a].size \in Nat /\ hdr[a].free \in {0, 1}
        /\ hdr[a] = [size |-> hdr[a].size, free |-> hdr[a].free,
                     next |-> hdr[a].next]
    BY <1>1 DEF Header
  <1>4. hdr[a].next = NULL \/ hdr[a].next \in Headers
    BY DEF IInv, Tiling
  <1>5. End(a) \in Nat /\ a + HDR <= End(a)
    BY <1>2, <1>3 DEF End
  <1>6. heap_base = HeapStart /\ HeapStart \in Headers
    BY DEF IInv, Tiling, TypeOK
  <1> QED BY <1>1, <1>2, <1>3, <1>4, <1>5, <1>6 DEF Addr

\* The same about positions only.
LEMMA AddrLemma ==
  IInv => \A a \in Headers : /\ a \in Nat /\ a # NULL /\ HeapStart <= a
                              /\ End(a) \in Nat /\ a + HDR <= End(a)
  BY HeaderLemma

\* The calls that only start a loop.
LEMMA KmallocInv == \A n \in Sizes : IInv /\ Kmalloc(n) => IInv'
  <1> SUFFICES ASSUME NEW n \in Sizes, IInv, Kmalloc(n) PROVE IInv'
    OBVIOUS
  <1> USE HeapAssumption
  <1>0. heap_base = HeapStart /\ HeapStart \in Headers
    BY DEF IInv, Tiling, TypeOK, Kmalloc
  <1>1. TypeOK'
    BY <1>0 DEF IInv, TypeOK, Kmalloc, Search, Goto, Headers
  <1>2. Tiling' /\ HeldBacked'
    BY StillLemma DEF Kmalloc, Search
  <1>3. Unmerged' /\ Accounted'
    BY DEF IInv, Unmerged, Accounted, Kmalloc, Search, Goto, Headers
  <1>4. Walk'
    <2>1. \A a \in Headers : ~(a < HeapStart)
      BY AddrLemma
    <2>2. current' = HeapStart /\ HeapStart # NULL
      BY <1>0 DEF Kmalloc, Search, Goto
    <2> QED BY <1>0, <2>1, <2>2 DEF IInv, Walk, Kmalloc, Search, Goto, Headers
  <1>5. Summed' /\ StatsExact'
    BY DEF Summed, StatsExact, Kmalloc, Search, Goto
  <1> QED BY <1>1, <1>2, <1>3, <1>4, <1>5 DEF IInv

LEMMA KreallocMoveInv ==
  \A p \in DOMAIN held, n \in Sizes : IInv /\ KreallocMove(p, n) => IInv'
  <1> SUFFICES ASSUME NEW p \in DOMAIN held, NEW n \in Sizes,
                      IInv, KreallocMove(p, n)
               PROVE  IInv'
    OBVIOUS
  <1> USE HeapAssumption
  <1>0. p - HDR \in Headers /\ heap_base = HeapStart /\ HeapStart \in Headers
    <2>1. p - HDR \in Headers
      BY DEF IInv, HeldBacked
    <2> QED BY <2>1, HeaderLemma
  <1>1. TypeOK'
    BY <1>0 DEF IInv, TypeOK, KreallocMove, Search, Goto, Headers
  <1>2. Tiling' /\ HeldBacked'
    BY StillLemma DEF KreallocMove, Search
  <1>3. Unmerged' /\ Accounted'
    BY DEF IInv, Unmerged, Accounted, KreallocMove, Search, Goto, Headers
  <1>4. Walk'
    <2>1. \A a \in Headers : ~(a < HeapStart)
      BY AddrLemma
    <2>2. current' = HeapStart /\ HeapStart # NULL
      BY <1>0 DEF KreallocMove, Search, Goto
    <2> QED BY <1>0, <2>1, <2>2 DEF IInv, Walk, KreallocMove, Search, Goto, Headers
  <1>5. Summed' /\ StatsExact'
    BY DEF Summed, StatsExact, KreallocMove, Search, Goto
  <1> QED BY <1>1, <1>2, <1>3, <1>4, <1>5 DEF IInv

\* The search moves past a block that does not fit.
LEMMA SearchStepInv == IInv /\ SearchStep => IInv'
  <1> SUFFICES ASSUME IInv, SearchStep PROVE IInv'
    OBVIOUS
  <1> USE HeapAssumption
  <1>0. /\ current \in Headers /\ pc = "search"
        /\ hdr[current].next = NULL \/ hdr[current].next \in Headers
    <2>1. current \in Headers
      BY DEF IInv, TypeOK, SearchStep
    <2> QED BY <2>1, HeaderLemma DEF SearchStep
  <1>1. TypeOK'
    BY <1>0 DEF IInv, TypeOK, SearchStep, Goto, Headers
  <1>2. Tiling' /\ HeldBacked'
    BY StillLemma DEF SearchStep
  <1>3. Unmerged' /\ Accounted'
    BY DEF IInv, Unmerged, Accounted, SearchStep, Goto, Headers
  <1>4. Walk'
    <2> DEFINE n == ALIGN4(call.n)
    <2>1. n \in Nat
      BY <1>0, AlignLemma DEF IInv, Walk
    <2>2. ASSUME NEW a \in Headers, current' = NULL \/ a < current',
                 hdr[a].free = 1
          PROVE  hdr[a].size < n
      <3> HIDE DEF n
      <3>1. a \in Int /\ hdr[a].size \in Nat /\ current \in Int
            /\ hdr[current].size \in Nat
        BY <1>0, HeaderLemma
      <3>2. CASE a < current
        BY <1>0, <2>2, <3>2 DEF IInv, Walk, n
      <3>3. CASE a = current
        BY <1>0, <2>1, <2>2, <3>1, <3>3 DEF SearchStep, Fits, n
      <3>4. CASE current < a
        \* then current is not the last block, and a is not before the next
        <4>1. hdr[current].next = End(current) /\ End(current) <= a
          BY <1>0, <3>1, <3>4, HeaderLemma DEF IInv, Tiling
        <4>2. current' = End(current) /\ End(current) \in Int
          BY <1>0, <4>1, AddrLemma DEF SearchStep, Goto
        <4> QED BY <2>2, <3>1, <4>1, <4>2
      <3> QED BY <3>1, <3>2, <3>3, <3>4
    <2>3. prev' = current /\ current # NULL /\ hdr[prev'].next = current'
      BY <1>0 DEF SearchStep, Goto
    <2> QED BY <1>0, <2>2, <2>3 DEF IInv, Walk, SearchStep, Goto, Headers
  <1>5. Summed' /\ StatsExact'
    BY DEF Summed, StatsExact, SearchStep, Goto
  <1> QED BY <1>1, <1>2, <1>3, <1>4, <1>5 DEF IInv

\* kmalloc returns NULL.
LEMMA FullInv == IInv /\ Full => IInv'
  <1> SUFFICES ASSUME IInv, Full PROVE IInv'
    OBVIOUS
  <1>1. TypeOK'
    BY DEF IInv, TypeOK, Full, Return, NoCall, Goto, Headers
  <1>2. Tiling' /\ HeldBacked'
    BY StillLemma DEF Full
  <1>3. Unmerged' /\ Accounted'
    BY DEF IInv, Unmerged, Accounted, Full, Return, Goto, Headers
  <1>4. Walk' /\ Summed' /\ StatsExact'
    BY DEF Walk, Summed, StatsExact, Full, Return, Goto
  <1> QED BY <1>1, <1>2, <1>3, <1>4 DEF IInv

\* kfree of a pointer outside its bounds: the block stays used, and it is one
\* in the last bytes of the heap, since every block is at or after heap_start.
LEMMA RefuseFreeInv == IInv /\ RefuseFree => IInv'
  <1> SUFFICES ASSUME IInv, RefuseFree PROVE IInv'
    OBVIOUS
  <1> USE HeapAssumption
  <1>1. TypeOK'
    BY DEF IInv, TypeOK, RefuseFree, Return, NoCall, Goto, Headers
  <1>2. Tiling' /\ HeldBacked'
    BY StillLemma DEF RefuseFree
  <1>3. Unmerged'
    BY DEF IInv, Unmerged, RefuseFree, Return, Goto, Headers
  <1>4. Accounted'
    <2> SUFFICES ASSUME NEW a \in Headers, hdr[a].free = 0,
                        a + HDR \notin DOMAIN held
                 PROVE  a + HDR > HeapEnd - 4 * HDR
      BY DEF Accounted, RefuseFree, Headers
    <2>1. CASE call.ptr = a + HDR
      <3>1. a \in Nat /\ HeapStart <= a
        BY HeaderLemma
      <3> QED BY <2>1, <3>1 DEF RefuseFree, Refused, LastFreeable
    <2>2. CASE call.ptr # a + HDR
      BY <2>2 DEF IInv, Accounted
    <2> QED BY <2>1, <2>2
  <1>5. Walk' /\ Summed' /\ StatsExact'
    BY DEF Walk, Summed, StatsExact, RefuseFree, Return, Goto
  <1> QED BY <1>1, <1>2, <1>3, <1>4, <1>5 DEF IInv

\* The pass has reached the last block: no unmerged pair is left.
LEMMA MergeDoneInv == IInv /\ MergeDone => IInv'
  <1> SUFFICES ASSUME IInv, MergeDone PROVE IInv'
    OBVIOUS
  <1> USE HeapAssumption
  <1>0. current \in Headers
    BY DEF IInv, TypeOK, Walk, MergeDone
  <1>1. TypeOK'
    BY DEF IInv, TypeOK, MergeDone, Return, NoCall, Goto, Headers
  <1>2. Tiling' /\ HeldBacked'
    BY StillLemma DEF MergeDone
  <1>3. Unmerged'
    <2> SUFFICES ASSUME NEW a \in Headers,
                        hdr[a].free = 1, hdr[a].next # NULL,
                        hdr[hdr[a].next].free = 1
                 PROVE  FALSE
      BY DEF Unmerged, MergeDone, Headers
    <2>1. current <= a
      BY DEF IInv, Unmerged
    <2>2. a <= current
      BY <1>0 DEF IInv, Tiling, MergeDone
    <2>3. a = current
      BY <1>0, <2>1, <2>2, AddrLemma
    <2> QED BY <2>3 DEF MergeDone
  <1>4. Accounted'
    BY DEF IInv, Accounted, MergeDone, Headers
  <1>5. Walk' /\ Summed' /\ StatsExact'
    BY DEF Walk, Summed, StatsExact, MergeDone, Return, Goto
  <1> QED BY <1>1, <1>2, <1>3, <1>4, <1>5 DEF IInv

\* Handing out the block b: the caller's bookkeeping, whether b was found,
\* split off or appended.  b was not used before, and the other blocks that
\* were used still are, with the same size.
LEMMA DeliverLemma ==
  ASSUME IInv, pc = "search", NEW b \in Headers', Deliver(b + HDR),
         UNCHANGED <<heap_base, stats>>,
         b \in Nat, b + HDR \in Addr,
         b \in Headers => hdr[b].free = 1,
         hdr'[b].free = 0, hdr'[b].size \in Nat,
         hdr'[b].size >= ALIGN4(call.n),
         \A a \in Headers : hdr[a].free = 0 =>
           /\ a \in Headers' /\ hdr'[a].free = 0
           /\ hdr'[a].size = hdr[a].size,
         \A a \in Headers' : hdr'[a].free = 0 =>
           a = b \/ (a \in Headers /\ hdr[a].free = 0)
  PROVE  /\ pc' \in {"idle", "kfree"} /\ current' = NULL /\ prev' = NULL
         /\ call' \in [op : {"none", "kmalloc", "krealloc", "kfree"},
                       ptr : Addr \cup {NULL}, n : Sizes \cup {0}]
         /\ DOMAIN held' \subseteq Addr /\ held' \in [DOMAIN held' -> Sizes]
         /\ HeldBacked' /\ Accounted' /\ Walk' /\ Summed' /\ StatsExact'
  <1> USE HeapAssumption
  <1>1. /\ call.op \in {"kmalloc", "krealloc"} /\ call.n \in Sizes
        /\ call.n \in Nat /\ ALIGN4(call.n) >= call.n
        /\ ALIGN4(call.n) \in Nat
    BY AlignLemma DEF IInv, Walk
  <1>2. DOMAIN held \subseteq Addr /\ held \in [DOMAIN held -> Sizes]
    BY DEF IInv, TypeOK
  <1>3. b + HDR - HDR = b /\ Addr \subseteq Nat
    BY DEF Addr
  <1>a. CASE call.op = "kmalloc"
    <2>1. /\ held' = Put(held, b + HDR, call.n)
          /\ pc' = "idle" /\ current' = NULL /\ prev' = NULL /\ call' = NoCall
      BY <1>a DEF Deliver, Return, Goto
    <2>2. /\ DOMAIN held' = DOMAIN held \cup {b + HDR}
          /\ held'[b + HDR] = call.n
          /\ \A p \in DOMAIN held : p # b + HDR => held'[p] = held[p]
          /\ held' \in [DOMAIN held' -> Sizes]
      BY <1>1, <1>2, <2>1 DEF Put
    <2>3. HeldBacked'
      <3> SUFFICES ASSUME NEW p \in DOMAIN held'
                   PROVE  /\ p - HDR \in Headers' /\ hdr'[p - HDR].free = 0
                          /\ hdr'[p - HDR].size >= held'[p]
        BY DEF HeldBacked
      <3>1. CASE p = b + HDR
        BY <1>1, <1>3, <2>2, <3>1
      <3>2. CASE p # b + HDR
        BY <2>2, <3>2 DEF IInv, HeldBacked
      <3> QED BY <3>1, <3>2
    <2>4. Accounted'
      BY <2>2 DEF IInv, Accounted
    <2>5. Walk' /\ Summed' /\ StatsExact'
      BY <2>1 DEF Walk, Summed, StatsExact
    <2>6. call' \in [op : {"none", "kmalloc", "krealloc", "kfree"},
                     ptr : Addr \cup {NULL}, n : Sizes \cup {0}]
      BY <2>1 DEF NoCall
    <2> QED BY <1>2, <2>1, <2>2, <2>3, <2>4, <2>5, <2>6
  <1>b. CASE call.op = "krealloc"
    <2> DEFINE q == call.ptr
    <2>1. /\ held' = Put(Drop(held, q), b + HDR, call.n)
          /\ pc' = "kfree" /\ current' = NULL /\ prev' = NULL /\ call' = call
      BY <1>b DEF Deliver, Goto
    <2>2. /\ DOMAIN held' = (DOMAIN held \ {q}) \cup {b + HDR}
          /\ held'[b + HDR] = call.n
          /\ \A p \in DOMAIN held \ {q} : p # b + HDR => held'[p] = held[p]
          /\ held' \in [DOMAIN held' -> Sizes]
      BY <1>1, <1>2, <2>1 DEF Put, Drop
    <2>3. HeldBacked'
      <3> SUFFICES ASSUME NEW p \in DOMAIN held'
                   PROVE  /\ p - HDR \in Headers' /\ hdr'[p - HDR].free = 0
                          /\ hdr'[p - HDR].size >= held'[p]
        BY DEF HeldBacked
      <3>1. CASE p = b + HDR
        BY <1>1, <1>3, <2>2, <3>1
      <3>2. CASE p # b + HDR
        BY <2>2, <3>2 DEF IInv, HeldBacked
      <3> QED BY <3>1, <3>2
    <2>4. Accounted'
      BY <2>1, <2>2 DEF IInv, Accounted
    <2>5. q \in DOMAIN held /\ q - HDR \in Headers /\ hdr[q - HDR].free = 0
      BY <1>b DEF IInv, Walk, HeldBacked
    <2>6. q # b + HDR
      BY <1>3, <2>5
    <2>7. Walk'
      <3> HIDE DEF q
      <3>1. q - HDR \in Headers' /\ hdr'[q - HDR].free = 0
        BY <2>5
      <3>2. q \notin DOMAIN held' /\ call'.ptr = q
        BY <2>1, <2>2, <2>6 DEF q
      <3> QED BY <2>1, <3>1, <3>2 DEF Walk
    <2>8. Summed' /\ StatsExact'
      BY <2>1 DEF Summed, StatsExact
    <2> QED BY <1>2, <2>1, <2>2, <2>3, <2>4, <2>7, <2>8 DEF IInv, TypeOK
  <1> QED BY <1>1, <1>a, <1>b

\* kmalloc takes a free block whole.
LEMMA TakeWholeInv == IInv /\ Take /\ ~Splits(current) => IInv'
  <1> SUFFICES ASSUME IInv, Take, ~Splits(current) PROVE IInv'
    OBVIOUS
  <1> USE HeapAssumption
  <1> DEFINE b == current
  <1>1. /\ b \in Headers /\ pc = "search" /\ hdr[b].free = 1
        /\ hdr[b].size >= ALIGN4(call.n) /\ call.n \in Sizes
    BY DEF IInv, TypeOK, Walk, Take, Fits
  <1>2. /\ Headers' = Headers
        /\ \A a \in Headers : a # b => hdr'[a] = hdr[a]
        /\ hdr'[b] = [size |-> hdr[b].size, free |-> 0, next |-> hdr[b].next]
        /\ hdr' \in [Headers -> Header]
    <2>1. hdr' = [hdr EXCEPT ![b].free = 0]
      BY DEF Take
    <2>2. hdr \in [Headers -> Header]
      BY DEF IInv, TypeOK
    <2>3. hdr' \in [Headers -> Header]
      BY <1>1, <2>1, <2>2 DEF Header
    <2> QED BY <1>1, <2>1, <2>2, <2>3 DEF Headers, Header
  <1>3. \A a \in Headers : /\ hdr'[a].size = hdr[a].size
                            /\ hdr'[a].next = hdr[a].next
                            /\ a # b => hdr'[a].free = hdr[a].free
    BY <1>2
  <1>4. hdr'[b].free = 0 /\ hdr[b].size \in Nat /\ b \in Nat /\ b + HDR \in Nat
        /\ End(b) \in Nat /\ b + HDR <= End(b) /\ HeapStart <= b
    <2>1. hdr[b].size \in Nat
      BY <1>1, HeaderLemma
    <2> QED BY <1>1, <1>2, <2>1, AddrLemma
  <1>5. b + HDR \in Addr
    <2>1. End(b) <= HeapEnd
      BY <1>1 DEF IInv, Tiling
    <2> QED BY <1>4, <2>1 DEF Addr
  <1>6. Tiling'
    <2>1. heap_base' = heap_base
      BY DEF Take
    <2> QED BY <1>2, <1>3, <2>1 DEF IInv, Tiling, End
  <1>7. Unmerged'
    <2> SUFFICES ASSUME NEW a \in Headers,
                        hdr'[a].free = 1, hdr'[a].next # NULL,
                        hdr'[hdr'[a].next].free = 1
                 PROVE  FALSE
      BY <1>2 DEF Unmerged
    <2>1. a # b /\ hdr'[a] = hdr[a]
      BY <1>2, <1>4
    <2>2. hdr[a].next \in Headers
      BY <2>1, HeaderLemma
    <2>3. hdr[hdr[a].next].free = 1
      BY <1>2, <1>4, <2>1, <2>2
    <2> QED BY <1>1, <2>1, <2>2, <2>3 DEF IInv, Unmerged
  <1>8. /\ pc' \in {"idle", "kfree"} /\ current' = NULL /\ prev' = NULL
        /\ call' \in [op : {"none", "kmalloc", "krealloc", "kfree"},
                      ptr : Addr \cup {NULL}, n : Sizes \cup {0}]
        /\ DOMAIN held' \subseteq Addr /\ held' \in [DOMAIN held' -> Sizes]
        /\ HeldBacked' /\ Accounted' /\ Walk' /\ Summed' /\ StatsExact'
    <2>1. Deliver(b + HDR) /\ UNCHANGED <<heap_base, stats>>
      BY DEF Take
    <2>2. /\ \A a \in Headers : hdr[a].free = 0 =>
               /\ a \in Headers' /\ hdr'[a].free = 0
               /\ hdr'[a].size = hdr[a].size
          /\ \A a \in Headers' : hdr'[a].free = 0 =>
               a = b \/ (a \in Headers /\ hdr[a].free = 0)
          /\ b \in Headers' /\ hdr'[b].size = hdr[b].size
      BY <1>1, <1>2, <1>3
    <2> HIDE DEF b
    <2> QED BY <1>1, <1>4, <1>5, <2>1, <2>2, DeliverLemma
  <1>9. TypeOK'
    BY <1>2, <1>8 DEF IInv, TypeOK, Take
  <1> QED BY <1>6, <1>7, <1>8, <1>9 DEF IInv

\* kmalloc takes the front of a free block and leaves the rest free: the rest
\* begins inside the block, so its header meets no other.
LEMMA TakeSplitInv == IInv /\ Take /\ Splits(current) => IInv'
  <1> SUFFICES ASSUME IInv, Take, Splits(current) PROVE IInv'
    OBVIOUS
  <1> USE HeapAssumption
  <1>a. PICK b : b = current
    OBVIOUS
  <1>b. PICK n : n = ALIGN4(call.n)
    OBVIOUS
  <1>c. PICK r : r = b + n + HDR
    OBVIOUS
  <1>1. /\ b \in Headers /\ pc = "search" /\ hdr[b].free = 1
        /\ call.n \in Sizes /\ n \in Nat
    BY <1>a, <1>b, AlignLemma DEF IInv, TypeOK, Walk, Take, Fits
  <1>2. /\ b \in Nat /\ HeapStart <= b /\ hdr[b].size \in Nat
        /\ End(b) = b + HDR + hdr[b].size /\ End(b) <= HeapEnd
        /\ hdr[b].size >= HDR + n + MinBlock
    <2>1. b \in Nat /\ HeapStart <= b
      BY <1>1, AddrLemma
    <2>2. hdr[b].size \in Nat
      BY <1>1, HeaderLemma
    <2>3. End(b) <= HeapEnd
      BY <1>1 DEF IInv, Tiling
    <2> QED BY <1>a, <1>b, <2>1, <2>2, <2>3 DEF Splits, End
  <1>3. /\ r \in Nat /\ b < r /\ r + HDR <= End(b) /\ r \in Addr /\ r # NULL
        /\ b + HDR \in Addr /\ hdr[b].size - HDR - n \in Nat
    BY <1>1, <1>2, <1>c DEF Addr
  <1>4. r \notin Headers
    <2>1. b < r /\ r < End(b)
      BY <1>1, <1>2, <1>3
    <2> QED BY <1>1, <1>2, <1>3, <2>1 DEF IInv, Tiling
  <1>5. /\ Headers' = Headers \cup {r}
        /\ hdr'[b] = [size |-> n, free |-> 0, next |-> r]
        /\ hdr'[r] = [size |-> hdr[b].size - HDR - n, free |-> 1,
                     next |-> hdr[b].next]
        /\ \A a \in Headers : a # b => hdr'[a] = hdr[a]
    <2>1. hdr' = SplitAt(b)
      BY <1>a DEF Take
    <2> QED BY <1>1, <1>3, <1>4, <1>b, <1>c, <2>1 DEF SplitAt, Headers
  <1>6. hdr' \in [Headers' -> Header]
    <2>1. hdr'[b] \in Header /\ hdr'[r] \in Header
      <3>1. hdr[b].next \in Addr \cup {NULL}
        BY <1>1, HeaderLemma DEF Header
      <3> QED BY <1>1, <1>3, <1>5, <3>1 DEF Header
    <2>2. \A a \in Headers' : hdr'[a] \in Header
      BY <1>5, <2>1, HeaderLemma
    <2>3. hdr' = [a \in Headers' |-> hdr'[a]]
      BY DEF Take, SplitAt, Headers
    <2> QED BY <2>2, <2>3
  <1>7. Tiling'
    <2>a. heap_base' = heap_base /\ heap_base # NULL /\ HeapStart \in Headers
          /\ heap_base = HeapStart
      BY <1>1, HeaderLemma DEF Take
    <2>b. /\ End(b)' = r /\ End(r)' = End(b)
          /\ \A a \in Headers : a # b => End(a)' = End(a)
      <3>1. End(b)' = b + HDR + hdr'[b].size /\ b + HDR + hdr'[b].size = r
        BY <1>c, <1>1, <1>2, <1>5 DEF End
      <3>2. End(r)' = r + HDR + hdr'[r].size /\ r + HDR + hdr'[r].size = End(b)
        BY <1>c, <1>1, <1>2, <1>3, <1>5 DEF End
      <3>3. \A a \in Headers : a # b => End(a)' = End(a)
        BY <1>5 DEF End
      <3> QED BY <3>1, <3>2, <3>3
    <2>1. ASSUME NEW a \in Headers', NEW c \in Headers', a < c
          PROVE  End(a)' <= c
      <3>1. CASE a = b /\ c # r
        BY <1>1, <1>2, <1>3, <1>5, <2>b, <2>1, <3>1, AddrLemma DEF IInv, Tiling
      <3>2. CASE a = r
        <4>1. c \in Headers /\ c # b /\ b < c
          BY <1>2, <1>3, <1>5, <2>1, <3>2, AddrLemma
        <4> QED BY <1>1, <2>b, <3>2, <4>1 DEF IInv, Tiling
      <3>3. CASE a # b /\ a # r /\ c # r
        BY <1>5, <2>b, <2>1, <3>3 DEF IInv, Tiling
      <3>4. CASE a # b /\ a # r /\ c = r
        <4>1. a \in Headers /\ a \in Nat /\ a < r
          BY <1>5, <2>1, <3>4, AddrLemma
        <4>2. ~(b < a)
          BY <1>1, <1>2, <1>3, <4>1 DEF IInv, Tiling
        <4>3. a < b
          BY <1>2, <3>4, <4>1, <4>2
        <4>4. End(a) <= b /\ End(a) \in Nat
          BY <1>1, <4>1, <4>3, AddrLemma DEF IInv, Tiling
        <4> QED BY <1>2, <1>3, <2>b, <3>4, <4>1, <4>4
      <3>5. CASE a = b /\ c = r
        BY <1>3, <2>b, <3>5
      <3> QED BY <3>1, <3>2, <3>3, <3>4, <3>5
    <2>2. ASSUME NEW a \in Headers'
          PROVE  /\ End(a)' <= HeapEnd
                 /\ IF hdr'[a].next = NULL THEN \A c \in Headers' : c <= a
                    ELSE hdr'[a].next = End(a)' /\ End(a)' \in Headers'
      <3>1. CASE a = b
        BY <1>2, <1>3, <1>5, <2>b, <3>1
      <3>2. CASE a = r
        <4>1. hdr'[a].next = hdr[b].next
          BY <1>5, <3>2
        <4>2. CASE hdr[b].next = NULL
          <5>1. \A c \in Headers : c <= b
            BY <1>1, <4>2 DEF IInv, Tiling
          <5>2. \A c \in Headers' : c <= r
            BY <1>2, <1>3, <1>5, <5>1, AddrLemma
          <5> QED BY <1>2, <2>b, <3>2, <4>1, <4>2, <5>2
        <4>3. CASE hdr[b].next # NULL
          BY <1>1, <1>2, <1>5, <2>b, <3>2, <4>1, <4>3 DEF IInv, Tiling
        <4> QED BY <4>2, <4>3
      <3>3. CASE a # b /\ a # r
        <4>1. a \in Headers /\ hdr'[a] = hdr[a] /\ End(a)' = End(a)
          BY <1>5, <2>b, <3>3
        <4>2. CASE hdr[a].next = NULL
          <5>1. b <= a /\ b # a /\ a \in Nat
            BY <1>1, <3>3, <4>1, <4>2, AddrLemma DEF IInv, Tiling
          <5>2. End(b) <= a
            BY <1>1, <1>2, <4>1, <5>1 DEF IInv, Tiling
          <5>3. r <= a
            BY <1>2, <1>3, <5>1, <5>2
          <5> QED BY <1>5, <4>1, <4>2, <5>3 DEF IInv, Tiling
        <4>3. CASE hdr[a].next # NULL
          BY <1>5, <4>1, <4>3 DEF IInv, Tiling
        <4> QED BY <4>2, <4>3
      <3> QED BY <3>1, <3>2, <3>3
    <2>3. ASSUME NEW a \in Headers', a # HeapStart
          PROVE  \E c \in Headers' : hdr'[c].next = a
      <3>1. CASE a = r
        BY <1>1, <1>5, <3>1
      <3>2. CASE a # r
        <4>1. PICK c \in Headers : hdr[c].next = a
          BY <1>5, <2>3, <3>2 DEF IInv, Tiling
        <4>2. CASE c = b
          BY <1>5, <4>1, <4>2
        <4>3. CASE c # b
          BY <1>5, <4>1, <4>3
        <4> QED BY <4>2, <4>3
      <3> QED BY <3>1, <3>2
    <2> QED BY <1>5, <2>a, <2>1, <2>2, <2>3 DEF Tiling
  <1>8. Unmerged'
    <2> SUFFICES ASSUME NEW a \in Headers',
                        hdr'[a].free = 1, hdr'[a].next # NULL,
                        hdr'[hdr'[a].next].free = 1
                 PROVE  FALSE
      BY DEF Unmerged
    <2>1. a # b
      BY <1>5
    <2>2. CASE a = r
      <3>0. hdr[b].next = NULL \/ hdr[b].next \in Headers
        BY <1>1, HeaderLemma
      <3>1. hdr'[a].next = hdr[b].next /\ hdr[b].next \in Headers
        BY <1>5, <2>2, <3>0
      <3>2. hdr[hdr[b].next].free = 1
        BY <1>4, <1>5, <3>1
      <3> QED BY <1>1, <2>2, <3>1, <3>2 DEF IInv, Unmerged
    <2>3. CASE a # r
      <3>1. a \in Headers /\ hdr'[a] = hdr[a] /\ hdr[a].next \in Headers
        BY <1>5, <2>1, <2>3, HeaderLemma
      <3>2. hdr[a].next # b /\ hdr[hdr[a].next].free = 1
        BY <1>5, <3>1
      <3> QED BY <1>1, <3>1, <3>2 DEF IInv, Unmerged
    <2> QED BY <2>2, <2>3
  <1>9. /\ pc' \in {"idle", "kfree"} /\ current' = NULL /\ prev' = NULL
        /\ call' \in [op : {"none", "kmalloc", "krealloc", "kfree"},
                      ptr : Addr \cup {NULL}, n : Sizes \cup {0}]
        /\ DOMAIN held' \subseteq Addr /\ held' \in [DOMAIN held' -> Sizes]
        /\ HeldBacked' /\ Accounted' /\ Walk' /\ Summed' /\ StatsExact'
    <2>1. Deliver(b + HDR) /\ UNCHANGED <<heap_base, stats>>
      BY <1>a DEF Take
    <2>2. /\ \A a \in Headers : hdr[a].free = 0 =>
               /\ a \in Headers' /\ hdr'[a].free = 0
               /\ hdr'[a].size = hdr[a].size
          /\ \A a \in Headers' : hdr'[a].free = 0 =>
               a = b \/ (a \in Headers /\ hdr[a].free = 0)
          /\ b \in Headers' /\ hdr'[b].size = n /\ hdr'[b].free = 0
      BY <1>1, <1>5
    <2> QED BY <1>b, <1>1, <1>2, <1>3, <2>1, <2>2, DeliverLemma
  <1>d. TypeOK'
    BY <1>3, <1>5, <1>6, <1>9 DEF IInv, TypeOK, Take
  <1> QED BY <1>7, <1>8, <1>9, <1>d DEF IInv

\* kmalloc adds a block behind the last one.
LEMMA AppendInv == IInv /\ Append => IInv'
  <1> SUFFICES ASSUME IInv, Append PROVE IInv'
    OBVIOUS
  <1> USE HeapAssumption
  <1>a. PICK l : l = prev
    OBVIOUS
  <1>b. PICK n : n = ALIGN4(call.n)
    OBVIOUS
  <1>c. PICK r : r = NewBlock
    OBVIOUS
  <1>1. /\ l \in Headers /\ hdr[l].next = NULL /\ pc = "search"
        /\ call.n \in Sizes /\ n \in Nat
    <2>1. pc = "search" /\ current = NULL /\ heap_base # NULL /\ call.n \in Sizes
      BY DEF Append, IInv, Walk
    <2>2. prev # NULL
      BY <2>1 DEF IInv, Walk
    <2>3. prev \in Headers /\ hdr[prev].next = NULL
      BY <2>1, <2>2 DEF IInv, Walk, TypeOK
    <2> QED BY <1>a, <1>b, <2>1, <2>3, AlignLemma
  <1>2. /\ l \in Nat /\ HeapStart <= l /\ End(l) = l + HDR + hdr[l].size
        /\ l + HDR <= End(l) /\ End(l) \in Nat
        /\ r = End(l) /\ r + HDR + n <= HeapEnd
        /\ \A a \in Headers : a <= l /\ a \in Nat
        /\ \A a \in Headers : a # l => End(a) <= l
    <2>1. l \in Nat /\ HeapStart <= l /\ End(l) \in Nat /\ l + HDR <= End(l)
      BY <1>1, AddrLemma
    <2>2. r = End(l) /\ End(l) = l + HDR + hdr[l].size /\ r + HDR + n <= HeapEnd
      BY <1>a, <1>b, <1>c DEF NewBlock, RoomAtEnd, End, Append
    <2>3. \A a \in Headers : a <= l /\ a \in Nat
      BY <1>1, AddrLemma DEF IInv, Tiling
    <2>4. \A a \in Headers : a # l => End(a) <= l
      BY <1>1, <2>1, <2>3 DEF IInv, Tiling
    <2> QED BY <2>1, <2>2, <2>3, <2>4
  <1>3. /\ r \in Nat /\ l < r /\ r \in Addr /\ r # NULL /\ r + HDR \in Addr
        /\ r \notin Headers
    BY <1>1, <1>2 DEF Addr
  <1>5. /\ Headers' = Headers \cup {r}
        /\ hdr'[r] = [size |-> n, free |-> 0, next |-> NULL]
        /\ hdr'[l].size = hdr[l].size /\ hdr'[l].free = hdr[l].free
        /\ hdr'[l].next = r /\ hdr'[l] \in Header
        /\ \A a \in Headers : a # l => hdr'[a] = hdr[a]
    <2>1. hdr' = [h \in Headers \cup {r} |->
                   CASE h = r -> [size |-> n, free |-> 0, next |-> NULL]
                     [] h = l -> [hdr[l] EXCEPT !.next = r]
                     [] OTHER -> hdr[h]]
      BY <1>a, <1>b, <1>c DEF Append
    <2>2. hdr'[l] = [hdr[l] EXCEPT !.next = r] /\ hdr[l] \in Header
      BY <1>1, <1>3, <2>1, HeaderLemma
    <2>3. /\ hdr'[l].size = hdr[l].size /\ hdr'[l].free = hdr[l].free
          /\ hdr'[l].next = r /\ hdr'[l] \in Header
      BY <1>3, <2>2 DEF Header
    <2>4. /\ Headers' = Headers \cup {r}
          /\ hdr'[r] = [size |-> n, free |-> 0, next |-> NULL]
          /\ \A a \in Headers : a # l => hdr'[a] = hdr[a]
      BY <1>1, <1>3, <2>1 DEF Headers
    <2> QED BY <2>3, <2>4
  <1>6. hdr' \in [Headers' -> Header]
    <2>1. hdr'[r] \in Header
      BY <1>1, <1>5 DEF Header
    <2>2. \A a \in Headers' : hdr'[a] \in Header
      BY <1>5, <2>1, HeaderLemma
    <2>3. hdr' = [a \in Headers' |-> hdr'[a]]
      BY DEF Append, Headers
    <2> QED BY <2>2, <2>3
  <1>7. Tiling'
    <2>a. heap_base' = heap_base /\ heap_base # NULL /\ HeapStart \in Headers
          /\ heap_base = HeapStart
      BY <1>1, HeaderLemma DEF Append
    <2>b. /\ End(r)' = r + HDR + n
          /\ \A a \in Headers : End(a)' = End(a)
      BY <1>5 DEF End
    <2>1. ASSUME NEW a \in Headers', NEW c \in Headers', a < c
          PROVE  End(a)' <= c
      <3>1. CASE c = r
        <4>1. a \in Headers
          BY <1>3, <1>5, <2>1, <3>1
        <4>2. End(a) \in Nat /\ (a = l \/ End(a) <= l)
          BY <1>2, <4>1, AddrLemma
        <4> QED BY <1>2, <1>3, <2>b, <3>1, <4>1, <4>2
      <3>2. CASE c # r
        <4>1. c \in Headers /\ c <= l /\ c \in Nat
          BY <1>2, <1>5, <3>2
        <4>2. a \in Headers
          BY <1>3, <1>5, <1>2, <2>1, <4>1
        <4> QED BY <2>1, <2>b, <4>1, <4>2 DEF IInv, Tiling
      <3> QED BY <3>1, <3>2
    <2>2. ASSUME NEW a \in Headers'
          PROVE  /\ End(a)' <= HeapEnd
                 /\ IF hdr'[a].next = NULL THEN \A c \in Headers' : c <= a
                    ELSE hdr'[a].next = End(a)' /\ End(a)' \in Headers'
      <3>1. CASE a = r
        <4>1. \A c \in Headers' : c <= r
          BY <1>2, <1>3, <1>5
        <4> QED BY <1>2, <1>5, <2>b, <3>1, <4>1
      <3>2. CASE a = l
        BY <1>1, <1>2, <1>3, <1>5, <2>b, <3>2 DEF IInv, Tiling
      <3>3. CASE a # l /\ a # r
        <4>1. a \in Headers /\ hdr'[a] = hdr[a] /\ End(a)' = End(a)
          BY <1>5, <2>b, <3>3
        <4>2. hdr[a].next # NULL
          <5>1. a <= l /\ a \in Nat
            BY <1>2, <4>1
          <5>2. ~(l <= a)
            BY <1>2, <3>3, <5>1
          <5> QED BY <1>1, <4>1, <5>2 DEF IInv, Tiling
        <4> QED BY <1>5, <4>1, <4>2 DEF IInv, Tiling
      <3> QED BY <3>1, <3>2, <3>3
    <2>3. ASSUME NEW a \in Headers', a # HeapStart
          PROVE  \E c \in Headers' : hdr'[c].next = a
      <3>1. CASE a = r
        BY <1>1, <1>5, <3>1
      <3>2. CASE a # r
        <4>1. PICK c \in Headers : hdr[c].next = a
          BY <1>5, <2>3, <3>2 DEF IInv, Tiling
        <4>2. a # NULL
          BY <1>5, <3>2, AddrLemma
        <4>3. c # l
          BY <1>1, <4>1, <4>2
        <4> QED BY <1>5, <4>1, <4>3
      <3> QED BY <3>1, <3>2
    <2> QED BY <1>5, <2>a, <2>1, <2>2, <2>3 DEF Tiling
  <1>8. Unmerged'
    <2> SUFFICES ASSUME NEW a \in Headers',
                        hdr'[a].free = 1, hdr'[a].next # NULL,
                        hdr'[hdr'[a].next].free = 1
                 PROVE  FALSE
      BY DEF Unmerged
    <2>1. a # r /\ a # l
      BY <1>5
    <2>2. a \in Headers /\ hdr'[a] = hdr[a] /\ hdr[a].next \in Headers
      BY <1>5, <2>1, HeaderLemma
    <2>3. hdr[hdr[a].next].free = 1
      BY <1>3, <1>5, <2>2
    <2> QED BY <1>1, <2>2, <2>3 DEF IInv, Unmerged
  <1>9. /\ pc' \in {"idle", "kfree"} /\ current' = NULL /\ prev' = NULL
        /\ call' \in [op : {"none", "kmalloc", "krealloc", "kfree"},
                      ptr : Addr \cup {NULL}, n : Sizes \cup {0}]
        /\ DOMAIN held' \subseteq Addr /\ held' \in [DOMAIN held' -> Sizes]
        /\ HeldBacked' /\ Accounted' /\ Walk' /\ Summed' /\ StatsExact'
    <2>1. Deliver(r + HDR) /\ UNCHANGED <<heap_base, stats>>
      BY <1>c DEF Append
    <2>2. /\ \A a \in Headers : hdr[a].free = 0 =>
               /\ a \in Headers' /\ hdr'[a].free = 0
               /\ hdr'[a].size = hdr[a].size
          /\ \A a \in Headers' : hdr'[a].free = 0 =>
               a = r \/ (a \in Headers /\ hdr[a].free = 0)
          /\ r \in Headers' /\ hdr'[r].size = n /\ hdr'[r].free = 0
      BY <1>1, <1>5
    <2> QED BY <1>b, <1>1, <1>2, <1>3, <2>1, <2>2, DeliverLemma
  <1>d. TypeOK'
    BY <1>3, <1>5, <1>6, <1>9 DEF IInv, TypeOK, Append
  <1> QED BY <1>7, <1>8, <1>9, <1>d DEF IInv

\* krealloc finds the block large enough.
LEMMA KreallocInPlaceInv ==
  \A p \in DOMAIN held, n \in Sizes : IInv /\ KreallocInPlace(p, n) => IInv'
  <1> SUFFICES ASSUME NEW p \in DOMAIN held, NEW n \in Sizes,
                      IInv, KreallocInPlace(p, n)
               PROVE  IInv'
    OBVIOUS
  <1> USE HeapAssumption
  <1>1. n \in Nat /\ ALIGN4(n) >= n /\ ALIGN4(n) \in Nat
    BY AlignLemma
  <1>2. DOMAIN held \subseteq Addr /\ held \in [DOMAIN held -> Sizes]
    BY DEF IInv, TypeOK
  <1>3. /\ DOMAIN held' = DOMAIN held /\ held'[p] = n
        /\ \A q \in DOMAIN held : q # p => held'[q] = held[q]
        /\ held' \in [DOMAIN held' -> Sizes]
    BY <1>2 DEF KreallocInPlace, Put
  <1>4. TypeOK'
    BY <1>2, <1>3 DEF IInv, TypeOK, KreallocInPlace, Headers
  <1>5. Tiling' /\ Unmerged' /\ Accounted'
    BY <1>3 DEF IInv, Tiling, Unmerged, Accounted, KreallocInPlace, Headers, End
  <1>6. HeldBacked'
    <2>1. hdr[p - HDR].size \in Nat /\ hdr[p - HDR].size >= n
      <3>1. p - HDR \in Headers /\ hdr[p - HDR].size >= ALIGN4(n)
        BY DEF IInv, HeldBacked, KreallocInPlace
      <3>2. hdr[p - HDR].size \in Nat
        BY <3>1, HeaderLemma
      <3> QED BY <1>1, <3>1, <3>2
    <2> QED BY <1>3, <2>1 DEF IInv, HeldBacked, KreallocInPlace, Headers
  <1>7. Walk' /\ Summed' /\ StatsExact'
    BY DEF Walk, Summed, StatsExact, KreallocInPlace
  <1> QED BY <1>4, <1>5, <1>6, <1>7 DEF IInv

\* A caller gives its block up.
LEMMA KfreeInv == \A p \in DOMAIN held \cup {NULL} : IInv /\ Kfree(p) => IInv'
  <1> SUFFICES ASSUME NEW p \in DOMAIN held \cup {NULL}, IInv, Kfree(p)
               PROVE  IInv'
    OBVIOUS
  <1> USE HeapAssumption
  <1>2. DOMAIN held \subseteq Addr /\ held \in [DOMAIN held -> Sizes]
    BY DEF IInv, TypeOK
  <1>3. /\ DOMAIN held' = DOMAIN held \ {p}
        /\ \A q \in DOMAIN held' : held'[q] = held[q]
        /\ held' \in [DOMAIN held' -> Sizes]
        /\ call' = [op |-> "kfree", ptr |-> p, n |-> 0]
        /\ pc' = "kfree" /\ pc = "idle"
        /\ current' = NULL /\ prev' = NULL
        /\ UNCHANGED <<heap_base, hdr, stats>>
    BY <1>2 DEF Kfree, Drop, Goto
  <1>4. TypeOK'
    BY <1>2, <1>3 DEF IInv, TypeOK, Headers
  <1>5. Tiling' /\ Unmerged' /\ HeldBacked'
    BY <1>3 DEF IInv, Tiling, Unmerged, HeldBacked, Headers, End
  <1>6. Accounted'
    BY <1>3 DEF IInv, Accounted, Headers
  <1>7. Walk'
    <2>1. CASE p # NULL
      BY <1>3, <2>1 DEF IInv, Walk, HeldBacked, Headers
    <2>2. CASE p = NULL
      BY <1>3, <2>2 DEF Walk
    <2> QED BY <2>1, <2>2
  <1>8. Summed' /\ StatsExact'
    BY <1>3 DEF Summed, StatsExact
  <1> QED BY <1>4, <1>5, <1>6, <1>7, <1>8 DEF IInv

\* kfree marks the block free; from here to the end of the pass it may have
\* free neighbours, all of them ahead of the pass.
LEMMA MarkFreeInv == IInv /\ MarkFree => IInv'
  <1> SUFFICES ASSUME IInv, MarkFree PROVE IInv'
    OBVIOUS
  <1> USE HeapAssumption
  <1>a. PICK b : b = call.ptr - HDR
    OBVIOUS
  <1>1. /\ call.ptr \in Nat /\ b \in Headers /\ hdr[b].free = 0
        /\ call.ptr \notin DOMAIN held /\ pc = "kfree" /\ call.ptr = b + HDR
    <2>1. call.ptr \in HeapStart..LastFreeable
      BY DEF MarkFree, Refused
    <2>2. call.ptr \in Int /\ HeapStart <= call.ptr
      BY <2>1 DEF LastFreeable
    <2>3. call.ptr # NULL /\ call.ptr \in Nat
      BY <2>2
    <2>4. b \in Headers /\ hdr[b].free = 0 /\ call.ptr \notin DOMAIN held
      BY <1>a, <2>3 DEF IInv, Walk, MarkFree
    <2> QED BY <1>a, <2>3, <2>4 DEF MarkFree
  <1>2. /\ Headers' = Headers
        /\ \A a \in Headers : a # b => hdr'[a] = hdr[a]
        /\ hdr'[b].size = hdr[b].size /\ hdr'[b].free = 1
        /\ hdr'[b].next = hdr[b].next
        /\ hdr' \in [Headers -> Header]
    <2>1. hdr' = [hdr EXCEPT ![b].free = 1]
      BY <1>a DEF MarkFree
    <2>2. hdr \in [Headers -> Header]
      BY DEF IInv, TypeOK
    <2>3. hdr' \in [Headers -> Header]
      BY <1>1, <2>1, <2>2 DEF Header
    <2> QED BY <1>1, <2>1, <2>2, <2>3 DEF Headers, Header
  <1>3. /\ heap_base = HeapStart /\ HeapStart \in Headers
        /\ UNCHANGED <<heap_base, call, held, stats>>
        /\ pc' = "merge" /\ current' = HeapStart /\ prev' = NULL
    BY <1>1, HeaderLemma DEF MarkFree, Goto
  <1>4. TypeOK'
    BY <1>2, <1>3 DEF IInv, TypeOK
  <1>5. Tiling'
    BY <1>2, <1>3 DEF IInv, Tiling, End
  <1>6. Unmerged'
    BY <1>2, <1>3, AddrLemma DEF Unmerged
  <1>7. HeldBacked'
    <2> SUFFICES ASSUME NEW p \in DOMAIN held
                 PROVE  /\ p - HDR \in Headers /\ hdr'[p - HDR].free = 0
                        /\ hdr'[p - HDR].size >= held[p]
      BY <1>2, <1>3 DEF HeldBacked
    <2>1. p \in Addr /\ p # b + HDR
      BY <1>1 DEF IInv, TypeOK
    <2>2. p - HDR # b
      BY <1>1, <2>1, AddrLemma DEF Addr
    <2> QED BY <1>2, <2>2 DEF IInv, HeldBacked
  <1>8. Accounted'
    <2> SUFFICES ASSUME NEW a \in Headers, hdr'[a].free = 0,
                        a + HDR \notin DOMAIN held
                 PROVE  a + HDR > HeapEnd - 4 * HDR
      BY <1>2, <1>3 DEF Accounted
    <2>1. a # b /\ hdr[a].free = 0
      BY <1>2
    <2>2. a + HDR # call.ptr
      BY <1>1, <2>1, AddrLemma
    <2> QED BY <2>1, <2>2 DEF IInv, Accounted
  <1>9. Walk' /\ Summed' /\ StatsExact'
    BY <1>3 DEF Walk, Summed, StatsExact
  <1> QED BY <1>4, <1>5, <1>6, <1>7, <1>8, <1>9 DEF IInv

\* The pass moves past a pair that is not both free.
LEMMA MergeSkipInv ==
  IInv /\ MergeStep /\ ~BothFree(current) => IInv'
  <1> SUFFICES ASSUME IInv, MergeStep, ~BothFree(current) PROVE IInv'
    OBVIOUS
  <1> USE HeapAssumption
  <1>1. /\ current \in Headers /\ current' = hdr[current].next
        /\ hdr[current].next \in Headers /\ pc = "merge"
        /\ UNCHANGED <<heap_base, hdr, pc, call, prev, held, stats>>
    <2>1. current \in Headers
      BY DEF IInv, TypeOK, Walk, MergeStep
    <2>2. hdr[current].next = NULL \/ hdr[current].next \in Headers
      BY <2>1, HeaderLemma
    <2> QED BY <2>1, <2>2 DEF MergeStep
  <1>2. TypeOK' /\ Tiling' /\ HeldBacked'
    BY <1>1, StillLemma DEF IInv, TypeOK, Headers
  <1>3. Unmerged'
    <2> SUFFICES ASSUME NEW a \in Headers,
                        hdr[a].free = 1, hdr[a].next # NULL,
                        hdr[hdr[a].next].free = 1
                 PROVE  current' <= a
      BY <1>1 DEF Unmerged, Headers
    <2>1. current <= a
      BY DEF IInv, Unmerged
    <2>2. a # current
      BY DEF BothFree
    <2>3. current < a
      BY <1>1, <2>1, <2>2, AddrLemma
    <2>4. hdr[current].next # NULL
      BY <1>1, AddrLemma
    <2>5. hdr[current].next = End(current) /\ End(current) <= a
      BY <1>1, <2>3, <2>4 DEF IInv, Tiling
    <2> QED BY <1>1, <2>5
  <1>4. Accounted' /\ Summed' /\ StatsExact'
    BY <1>1 DEF IInv, Accounted, Summed, StatsExact, Headers
  <1>5. Walk'
    <2>1. current' # NULL
      BY <1>1, AddrLemma
    <2> QED BY <1>1, <2>1 DEF IInv, Walk
  <1> QED BY <1>2, <1>3, <1>4, <1>5 DEF IInv

\* The pass merges a free block with the free block behind it.
LEMMA MergePairInv ==
  IInv /\ MergeStep /\ BothFree(current) => IInv'
  <1> SUFFICES ASSUME IInv, MergeStep, BothFree(current) PROVE IInv'
    OBVIOUS
  <1> USE HeapAssumption
  <1>a. PICK b : b = current
    OBVIOUS
  <1>b. PICK m : m = hdr[b].next
    OBVIOUS
  <1>1. /\ b \in Headers /\ m \in Headers /\ m = End(b) /\ pc = "merge"
        /\ hdr[b].free = 1 /\ hdr[m].free = 1
    <2>1. b \in Headers /\ m # NULL /\ pc = "merge"
      BY <1>a, <1>b DEF IInv, TypeOK, Walk, MergeStep
    <2> QED BY <1>a, <1>b, <2>1 DEF IInv, Tiling, BothFree
  <1>2. /\ b \in Nat /\ m \in Nat /\ HeapStart <= b /\ b < m /\ m < End(m)
        /\ End(m) \in Nat /\ b # NULL
    BY <1>1, AddrLemma
  <1>3. /\ Headers' = Headers \ {m}
        /\ hdr'[b] = [size |-> hdr[b].size + hdr[m].size + HDR, free |-> 1,
                     next |-> hdr[m].next]
        /\ \A a \in Headers' : a # b => hdr'[a] = hdr[a]
        /\ b \in Headers' /\ hdr'[b] \in Header
    <2>1. hdr' = [h \in Headers \ {m} |->
                   IF h = b THEN [hdr[b] EXCEPT !.size = @ + hdr[m].size + HDR,
                                                !.next = hdr[m].next]
                            ELSE hdr[h]]
      BY <1>a, <1>b DEF MergeStep, MergedAt
    <2>2. /\ hdr[b] \in Header /\ hdr[m] \in Header
      BY <1>1, HeaderLemma
    <2>3. hdr'[b] = [hdr[b] EXCEPT !.size = hdr[b].size + hdr[m].size + HDR,
                                   !.next = hdr[m].next]
      BY <1>1, <1>2, <2>1
    <2>4. hdr'[b] = [size |-> hdr[b].size + hdr[m].size + HDR, free |-> 1,
                     next |-> hdr[m].next]
      BY <1>1, <2>2, <2>3 DEF Header
    <2>5. hdr'[b] \in Header
      BY <2>2, <2>4 DEF Header
    <2> QED BY <1>1, <1>2, <2>1, <2>4, <2>5 DEF Headers
  <1>4. UNCHANGED <<heap_base, pc, call, current, prev, held, stats>>
    BY DEF MergeStep
  <1>5. TypeOK'
    <2>1. \A a \in Headers' : hdr'[a] \in Header
      BY <1>3, HeaderLemma
    <2>2. hdr' = [a \in Headers' |-> hdr'[a]]
      BY <1>a DEF MergeStep, MergedAt, Headers
    <2>3. hdr' \in [Headers' -> Header]
      BY <2>1, <2>2
    <2>4. prev = NULL
      BY <1>1 DEF IInv, Walk
    <2> QED BY <1>a, <1>3, <1>4, <2>3, <2>4 DEF IInv, TypeOK
  <1>7. Tiling'
    <2>a. heap_base' = heap_base /\ heap_base # NULL /\ HeapStart \in Headers'
          /\ heap_base = HeapStart
      <3>1. heap_base = HeapStart /\ HeapStart \in Headers
        BY <1>1, HeaderLemma
      <3> QED BY <1>2, <1>3, <1>4, <3>1
    <2>b. /\ End(b)' = End(m)
          /\ \A a \in Headers' : a # b => End(a)' = End(a)
      <3>1. End(b)' = b + HDR + hdr'[b].size /\ End(b) = b + HDR + hdr[b].size
            /\ End(m) = m + HDR + hdr[m].size
        BY DEF End
      <3>2. hdr[b].size \in Nat /\ hdr[m].size \in Nat
        BY <1>1, HeaderLemma
      <3>3. End(b)' = End(m)
        BY <1>1, <1>2, <1>3, <3>1, <3>2
      <3> QED BY <1>3, <3>3 DEF End
    <2>1. ASSUME NEW a \in Headers', NEW c \in Headers', a < c
          PROVE  End(a)' <= c
      <3>1. CASE a = b
        <4>1. m <= c /\ c # m /\ c \in Nat
          BY <1>1, <1>3, <2>1, <3>1, AddrLemma DEF IInv, Tiling
        <4>2. m < c
          BY <1>2, <4>1
        <4> QED BY <1>1, <1>3, <2>b, <3>1, <4>2 DEF IInv, Tiling
      <3>2. CASE a # b
        BY <1>3, <2>b, <2>1, <3>2 DEF IInv, Tiling
      <3> QED BY <3>1, <3>2
    <2>2. ASSUME NEW a \in Headers'
          PROVE  /\ End(a)' <= HeapEnd
                 /\ IF hdr'[a].next = NULL THEN \A c \in Headers' : c <= a
                    ELSE hdr'[a].next = End(a)' /\ End(a)' \in Headers'
      <3>1. CASE a = b
        <4>1. hdr'[a].next = hdr[m].next /\ End(a)' = End(m) /\ End(m) <= HeapEnd
          BY <1>1, <1>3, <2>b, <3>1 DEF IInv, Tiling
        <4>2. CASE hdr[m].next = NULL
          <5> SUFFICES ASSUME NEW c \in Headers' PROVE c <= b
            BY <3>1, <4>1, <4>2
          <5>1. c \in Headers /\ c # m /\ c \in Nat /\ c <= m
            BY <1>1, <1>3, <4>2, AddrLemma DEF IInv, Tiling
          <5>2. ~(b < c)
            BY <1>1, <1>2, <5>1 DEF IInv, Tiling
          <5> QED BY <1>2, <5>1, <5>2
        <4>3. CASE hdr[m].next # NULL
          <5>1. hdr[m].next = End(m) /\ End(m) \in Headers
            BY <1>1, <4>3 DEF IInv, Tiling
          <5> QED BY <1>2, <1>3, <4>1, <4>3, <5>1
        <4> QED BY <4>2, <4>3
      <3>2. CASE a # b
        <4>1. a \in Headers /\ hdr'[a] = hdr[a] /\ End(a)' = End(a)
              /\ a \in Nat /\ a < End(a) /\ End(a) \in Nat
          BY <1>3, <2>b, <3>2, AddrLemma
        <4>2. CASE hdr[a].next = NULL
          BY <1>3, <4>1, <4>2 DEF IInv, Tiling
        <4>3. CASE hdr[a].next # NULL
          <5>1. End(a) # m
            <6>1. CASE a < b
              <7>1. End(a) <= b
                BY <1>1, <4>1, <6>1 DEF IInv, Tiling
              <7> QED BY <1>2, <4>1, <7>1
            <6>2. CASE b < a
              <7>1. m <= a
                BY <1>1, <4>1, <6>2 DEF IInv, Tiling
              <7> QED BY <1>2, <4>1, <7>1
            <6> QED BY <1>2, <3>2, <4>1, <6>1, <6>2
          <5> QED BY <1>3, <4>1, <4>3, <5>1 DEF IInv, Tiling
        <4> QED BY <4>2, <4>3
      <3> QED BY <3>1, <3>2
    <2>3. ASSUME NEW a \in Headers', a # HeapStart
          PROVE  \E c \in Headers' : hdr'[c].next = a
      <3>1. PICK c \in Headers : hdr[c].next = a
        BY <1>3, <2>3 DEF IInv, Tiling
      <3>2. CASE c = m
        BY <1>3, <3>1, <3>2
      <3>3. CASE c # m
        <4>1. c # b
          BY <1>1, <1>3, <1>b, <3>1
        <4> QED BY <1>3, <3>1, <3>3, <4>1
      <3> QED BY <3>2, <3>3
    <2> QED BY <1>3, <2>a, <2>1, <2>2, <2>3 DEF Tiling
  <1>8. Unmerged'
    <2> SUFFICES ASSUME NEW a \in Headers',
                        hdr'[a].free = 1, hdr'[a].next # NULL,
                        hdr'[hdr'[a].next].free = 1
                 PROVE  b <= a
      BY <1>a, <1>1, <1>4 DEF Unmerged
    <2>1. CASE a = b
      BY <1>2, <2>1
    <2>2. CASE a # b
      <3>1. a \in Headers /\ hdr'[a] = hdr[a]
        BY <1>3, <2>2
      <3>2. hdr'[a].next \in Headers'
        BY <1>7, <2>2 DEF Tiling
      <3>3. hdr[hdr[a].next].free = 1
        BY <1>1, <1>3, <3>1, <3>2
      <3> QED BY <1>a, <3>1, <3>3 DEF IInv, Unmerged
    <2> QED BY <2>1, <2>2
  <1>9. HeldBacked' /\ Accounted' /\ Walk' /\ Summed' /\ StatsExact'
    <2>1. /\ \A a \in Headers : hdr[a].free = 0 =>
               a \in Headers' /\ hdr'[a] = hdr[a]
          /\ \A a \in Headers' : hdr'[a].free = 0 => hdr[a].free = 0
      BY <1>1, <1>3
    <2>2. HeldBacked'
      BY <1>4, <2>1 DEF IInv, HeldBacked
    <2>3. Accounted'
      BY <1>1, <1>3, <1>4, <2>1 DEF IInv, Accounted
    <2>4. Walk' /\ Summed' /\ StatsExact'
      BY <1>1, <1>4 DEF IInv, Walk, Summed, StatsExact
    <2> QED BY <2>2, <2>3, <2>4
  <1> QED BY <1>5, <1>7, <1>8, <1>9 DEF IInv

\* heap_stats starts at heap_start with nothing counted.
LEMMA HeapStatsInv == IInv /\ HeapStats => IInv'
  <1> SUFFICES ASSUME IInv, HeapStats PROVE IInv'
    OBVIOUS
  <1> USE HeapAssumption
  <1>0. HeapStart \in Headers /\ HeapStart # NULL
    BY DEF IInv, Tiling, HeapStats
  <1>1. TypeOK'
    BY <1>0 DEF IInv, TypeOK, HeapStats, NoStats, Goto, Headers
  <1>2. Tiling' /\ HeldBacked'
    BY StillLemma DEF HeapStats
  <1>3. Unmerged' /\ Accounted' /\ Walk' /\ StatsExact'
    BY <1>0 DEF IInv, Unmerged, Accounted, Walk, StatsExact, HeapStats, Goto,
               Headers
  <1>4. Summed'
    <2>1. stats' = NoStats /\ current' = HeapStart
      BY DEF HeapStats, Goto
    <2>2. 0 * HDR = 0
      OBVIOUS
    <2> QED BY <1>0, <2>1, <2>2 DEF Summed, NoStats
  <1> QED BY <1>1, <1>2, <1>3, <1>4 DEF IInv

\* It counts a block and goes on to the next one.
LEMMA StatsStepInv == IInv /\ StatsStep => IInv'
  <1> SUFFICES ASSUME IInv, StatsStep PROVE IInv'
    OBVIOUS
  <1> USE HeapAssumption
  <1>a. PICK b : b = current
    OBVIOUS
  <1>b. PICK u : u = 1 - hdr[b].free
    OBVIOUS
  <1>c. PICK w : w = u * hdr[b].size
    OBVIOUS
  <1>1. /\ b \in Headers /\ pc = "stats"
        /\ stats' = [used        |-> stats.used + u,
                    used_bytes  |-> stats.used_bytes + w,
                    total       |-> stats.total + 1,
                    total_bytes |-> stats.total_bytes + hdr[b].size]
        /\ current' = hdr[b].next /\ pc' = "stats"
        /\ UNCHANGED <<heap_base, hdr, call, prev, held>>
    BY <1>a, <1>b, <1>c DEF IInv, TypeOK, StatsStep
  <1>2. /\ hdr[b].size \in Nat /\ u \in {0, 1} /\ w \in Nat
        /\ w <= hdr[b].size /\ b \in Nat
        /\ hdr[b].next = NULL \/ hdr[b].next \in Headers
    <2>1. hdr[b].size \in Nat /\ hdr[b].free \in {0, 1} /\ b \in Nat
      BY <1>1, HeaderLemma
    <2>2. u = 0 \/ u = 1
      BY <1>b, <2>1
    <2>3. hdr[b].next = NULL \/ hdr[b].next \in Headers
      BY <1>1, HeaderLemma
    <2>4. CASE u = 0
      <3>1. w = 0
        BY <1>c, <2>1, <2>4
      <3> QED BY <2>1, <2>3, <2>4, <3>1
    <2>5. CASE u = 1
      <3>1. w = hdr[b].size
        BY <1>c, <2>1, <2>5
      <3> QED BY <2>1, <2>3, <2>5, <3>1
    <2> QED BY <2>2, <2>4, <2>5
  <1>3. /\ stats.used \in Nat /\ stats.used_bytes \in Nat
        /\ stats.total \in Nat /\ stats.total_bytes \in Nat
    BY DEF IInv, TypeOK
  <1>4. TypeOK'
    <2>1. stats' \in [used : Nat, used_bytes : Nat, total : Nat,
                     total_bytes : Nat]
      <3>1. /\ stats.used + u \in Nat /\ stats.total + 1 \in Nat
            /\ stats.used_bytes + w \in Nat
            /\ stats.total_bytes + hdr[b].size \in Nat
        <4>1. hdr[b].size \in Nat /\ (u = 0 \/ u = 1) /\ w \in Nat
          BY <1>2
        <4> QED BY <1>3, <4>1
      <3> QED BY <1>1, <3>1
    <2> QED BY <1>1, <1>2, <2>1 DEF IInv, TypeOK, Headers
  <1>5. Tiling' /\ HeldBacked'
    BY <1>1, StillLemma
  <1>6. Unmerged' /\ Accounted' /\ Walk' /\ StatsExact'
    BY <1>1 DEF IInv, Unmerged, Accounted, Walk, StatsExact, Headers
  <1>7. Summed'
    <2>1. /\ stats'.total_bytes = stats.total_bytes + hdr[b].size
          /\ stats'.total = stats.total + 1
          /\ stats'.used = stats.used + u
          /\ stats'.used_bytes = stats.used_bytes + w
      BY <1>1
    <2>2. PICK h, g, gu \in Nat : /\ h = stats.total * HDR
                                 /\ h + HDR = stats'.total * HDR
                                 /\ g = stats.used * HDR
                                 /\ gu = stats'.used * HDR /\ gu <= g + HDR
      <3>1. /\ stats.total * HDR \in Nat /\ stats.used * HDR \in Nat
            /\ (stats.total + 1) * HDR = stats.total * HDR + HDR
            /\ (stats.used + 1) * HDR = stats.used * HDR + HDR
        BY <1>3
      <3>2. CASE u = 0
        <4>1. stats'.used = stats.used
          BY <1>3, <2>1, <3>2
        <4> QED BY <2>1, <3>1, <4>1
      <3>3. CASE u = 1
        <4>1. stats'.used = stats.used + 1
          BY <2>1, <3>3
        <4> QED BY <2>1, <3>1, <4>1
      <3> QED BY <1>2, <3>2, <3>3
    <2>4. /\ stats.used_bytes + g <= stats.total_bytes + h
          /\ stats.total_bytes + h = b - HeapStart
      <3>1. /\ stats.used_bytes + stats.used * HDR
                 <= stats.total_bytes + stats.total * HDR
            /\ stats.total_bytes + stats.total * HDR = b - HeapStart
        BY <1>a, <1>1, AddrLemma DEF IInv, Summed
      <3> QED BY <2>2, <3>1
    <2>5. stats'.total_bytes + stats'.total * HDR = End(b) - HeapStart
      <3>1. End(b) = b + HDR + hdr[b].size
        BY DEF End
      <3>2. stats.total_bytes + hdr[b].size + (h + HDR) = End(b) - HeapStart
        BY <1>2, <1>3, <2>4, <3>1
      <3>3. stats'.total * HDR = h + HDR
        BY <2>2
      <3> QED BY <2>1, <3>2, <3>3
    <2>6. stats'.used_bytes + stats'.used * HDR
            <= stats'.total_bytes + stats'.total * HDR
      <3>1. stats.used_bytes + w + gu <= stats.total_bytes + hdr[b].size + (h + HDR)
        BY <1>2, <1>3, <2>2, <2>4
      <3>2. stats'.total * HDR = h + HDR /\ stats'.used * HDR = gu
        BY <2>2
      <3> QED BY <2>1, <3>1, <3>2
    <2>7. IF current' # NULL
            THEN stats'.total_bytes + stats'.total * HDR = current' - HeapStart
            ELSE \E a \in Headers : hdr[a].next = NULL
                   /\ stats'.total_bytes + stats'.total * HDR = End(a) - HeapStart
      BY <1>1, <2>5 DEF IInv, Tiling
    <2> QED BY <1>1, <2>6, <2>7 DEF Summed, Headers, End
  <1> QED BY <1>4, <1>5, <1>6, <1>7 DEF IInv

\* It adds the headers and returns the sums, which the caller then drops.
LEMMA StatsEndInv == IInv /\ (StatsDone \/ StatsReturn) => IInv'
  <1> SUFFICES ASSUME IInv, StatsDone \/ StatsReturn PROVE IInv'
    OBVIOUS
  <1> USE HeapAssumption
  <1>1. UNCHANGED <<heap_base, hdr, call, current, prev, held>>
    BY DEF StatsDone, StatsReturn
  <1>2. /\ \/ pc = "stats" /\ pc' = "report"
           \/ pc = "report" /\ pc' = "idle"
        /\ heap_base # NULL
    BY DEF IInv, Walk, StatsDone, StatsReturn
  <1>3. Tiling' /\ HeldBacked'
    BY <1>1, StillLemma
  <1>4. Unmerged' /\ Accounted' /\ Walk' /\ Summed'
    BY <1>1, <1>2 DEF IInv, Unmerged, Accounted, Walk, Summed, Headers
  <1>5. TypeOK' /\ StatsExact'
    <2>1. CASE StatsReturn
      BY <1>1, <2>1 DEF IInv, TypeOK, StatsExact, StatsReturn, NoStats, Headers
    <2>2. CASE StatsDone
      <3>1. /\ stats.used \in Nat /\ stats.used_bytes \in Nat
            /\ stats.total \in Nat /\ stats.total_bytes \in Nat
        BY DEF IInv, TypeOK
      <3>2. stats.total * HDR \in Nat /\ stats.used * HDR \in Nat
        BY <3>1
      <3>3. stats' = [used |-> stats.used,
                      used_bytes |-> stats.used_bytes + stats.used * HDR,
                      total |-> stats.total,
                      total_bytes |-> stats.total_bytes + stats.total * HDR]
        BY <2>2 DEF StatsDone, IInv, TypeOK
      <3>4. TypeOK'
        BY <1>1, <2>2, <3>1, <3>2, <3>3 DEF IInv, TypeOK, StatsDone, Headers
      <3>5. StatsExact'
        BY <1>1, <2>2, <3>3 DEF IInv, Summed, StatsExact, StatsDone, Headers, End
      <3> QED BY <3>4, <3>5
    <2> QED BY <2>1, <2>2
  <1> QED BY <1>3, <1>4, <1>5 DEF IInv

-----------------------------------------------------------------------------
LEMMA NextInv == IInv /\ [Next]_vars => IInv'
  <1> SUFFICES ASSUME IInv, [Next]_vars PROVE IInv'
    OBVIOUS
  <1>1. CASE FirstKmalloc
    BY <1>1, FirstInv
  <1>2. CASE \E n \in Sizes : Kmalloc(n)
    BY <1>2, KmallocInv
  <1>3. CASE \E p \in DOMAIN held \cup {NULL} : Kfree(p)
    BY <1>3, KfreeInv
  <1>4. CASE \E p \in DOMAIN held, n \in Sizes : KreallocInPlace(p, n)
    BY <1>4, KreallocInPlaceInv
  <1>5. CASE \E p \in DOMAIN held, n \in Sizes : KreallocMove(p, n)
    BY <1>5, KreallocMoveInv
  <1>6. CASE HeapStats
    BY <1>6, HeapStatsInv
  <1>7. CASE SearchStep
    BY <1>7, SearchStepInv
  <1>8. CASE Take
    BY <1>8, TakeWholeInv, TakeSplitInv
  <1>9. CASE Append
    BY <1>9, AppendInv
  <1>10. CASE Full
    BY <1>10, FullInv
  <1>11. CASE RefuseFree
    BY <1>11, RefuseFreeInv
  <1>12. CASE MarkFree
    BY <1>12, MarkFreeInv
  <1>13. CASE MergeStep
    BY <1>13, MergePairInv, MergeSkipInv
  <1>14. CASE MergeDone
    BY <1>14, MergeDoneInv
  <1>15. CASE StatsStep
    BY <1>15, StatsStepInv
  <1>16. CASE StatsDone \/ StatsReturn
    BY <1>16, StatsEndInv
  <1>17. CASE UNCHANGED vars
    BY <1>17 DEF vars, IInv, TypeOK, Tiling, Unmerged, HeldBacked, Accounted,
       Walk, Summed, StatsExact, Headers, End
  <1> QED BY <1>1, <1>2, <1>3, <1>4, <1>5, <1>6, <1>7, <1>8, <1>9, <1>10, <1>11,
             <1>12, <1>13, <1>14, <1>15, <1>16, <1>17 DEF Next, Call, Run

\* The inductive invariant holds in every reachable state of the heap.
THEOREM Invariance == Spec => []IInv
  BY InitInv, NextInv, PTL DEF Spec

\* The heap's variables keep their types (kmalloc.c:8-13).
THEOREM TypeCorrect == Spec => []TypeOK
  <1>1. IInv => TypeOK
    BY DEF IInv
  <1> QED BY <1>1, Invariance, PTL

\* The blocks always tile the heap and never overlap (kmalloc.c:16-79).
THEOREM HeapTiled == Spec => []Tiling
  <1>1. IInv => Tiling
    BY DEF IInv
  <1> QED BY <1>1, Invariance, PTL

\* No free neighbours remain between calls (kmalloc.c:69-78).
THEOREM HeapCoalesced == Spec => []Coalesced
  <1>1. IInv => Coalesced
    <2> SUFFICES ASSUME IInv, pc = "idle", NEW a \in Headers,
                        hdr[a].free = 1, hdr[a].next # NULL
                 PROVE  hdr[hdr[a].next].free = 0
      BY DEF Coalesced
    <2>1. hdr[a].next \in Headers
      BY HeaderLemma
    <2>2. hdr[hdr[a].next].free \in {0, 1}
      BY <2>1, HeaderLemma
    <2>3. hdr[hdr[a].next].free # 1
      BY DEF IInv, Unmerged
    <2> QED BY <2>2, <2>3
  <1> QED BY <1>1, Invariance, PTL

\* Callers' pointers stay backed by a used block large enough.
THEOREM HoldersBacked == Spec => []HeldBacked
  <1>1. IInv => HeldBacked
    BY DEF IInv
  <1> QED BY <1>1, Invariance, PTL

\* Nothing but the blocks kfree refuses leaks inside the allocator.
THEOREM AllAccounted == Spec => []Accounted
  <1>1. IInv => Accounted
    BY DEF IInv
  <1> QED BY <1>1, Invariance, PTL

\* heap_stats returns the extent of the heap.
THEOREM StatsCorrect == Spec => []StatsExact
  <1>1. IInv => StatsExact
    BY DEF IInv
  <1> QED BY <1>1, Invariance, PTL

\* kmalloc returns NULL only when no free block could serve (kmalloc.c:28-52).
THEOREM NullOnlyWhenFull == Spec => FailsOnlyWhenFull
  <1>1. IInv /\ [Next]_vars =>
          [Full => \A a \in Headers :
             hdr[a].free = 1 => hdr[a].size < ALIGN4(call.n)]_vars
    BY DEF IInv, Walk, Full
  <1> QED BY <1>1, Invariance, PTL DEF Spec, FailsOnlyWhenFull

-----------------------------------------------------------------------------
(* Heap implements Alloc *)

\* Allocating does not touch the blocks in use.
LEMMA KeepLemma ==
  ASSUME IInv, Take \/ Append, NEW a \in Headers, hdr[a].free = 0
  PROVE  a \in Headers' /\ hdr'[a].size = hdr[a].size
  <1> USE HeapAssumption
  <1>1. CASE Take
    <2>a. PICK b : b = current
      OBVIOUS
    <2>1. b \in Headers /\ hdr[b].free = 1 /\ a # b /\ call.n \in Sizes
      BY <1>1, <2>a DEF IInv, TypeOK, Walk, Take, Fits
    <2>2. CASE ~Splits(b)
      BY <1>1, <2>a, <2>1, <2>2 DEF Take, Headers
    <2>3. CASE Splits(b)
      <3>1. PICK r : r = b + ALIGN4(call.n) + HDR
        OBVIOUS
      <3>2. b < r /\ r < End(b) /\ b \in Nat /\ r \in Nat /\ End(b) \in Nat
        <4>1. b \in Nat /\ End(b) \in Nat /\ hdr[b].size \in Nat
          BY <2>1, HeaderLemma
        <4>2. End(b) = b + HDR + hdr[b].size
          BY DEF End
        <4>3. ALIGN4(call.n) \in Nat
          BY <2>1, AlignLemma
        <4> QED BY <2>3, <3>1, <4>1, <4>2, <4>3 DEF Splits
      <3>3. a # r
        BY <2>1, <3>2 DEF IInv, Tiling
      <3>4. hdr' = SplitAt(b)
        BY <1>1, <2>a, <2>3 DEF Take
      <3> QED BY <2>1, <3>1, <3>3, <3>4 DEF SplitAt, Headers
    <2> QED BY <2>2, <2>3
  <1>2. CASE Append
    <2>1. prev \in Headers
      BY <1>2 DEF IInv, TypeOK, Walk, Append
    <2>2. NewBlock = End(prev) /\ hdr[prev].next = NULL
      BY <1>2, <2>1, AddrLemma DEF NewBlock, End, IInv, Walk, Append
    <2>3. a # NewBlock
      <3>1. a <= prev
        BY <2>1, <2>2 DEF IInv, Tiling
      <3> QED BY <2>1, <2>2, <3>1, AddrLemma
    <2>4. hdr[a] \in Header
      BY HeaderLemma
    <2> QED BY <1>2, <2>3, <2>4 DEF Append, Headers, Header
  <1> QED BY <1>1, <1>2

\* The bytes handed out are apart from all those held, the ones krealloc is
\* about to copy from included.
LEMMA FreshLemma ==
  ASSUME IInv, IInv', Take \/ Append, NEW b \in Headers', NEW n \in Nat,
         b \in Headers => hdr[b].free = 1, hdr'[b].size >= n
  PROVE  AsAlloc!Fresh(b + HDR, n) /\ b + HDR \in HeapStart..HeapEnd
  <1> USE HeapAssumption
  <1>1. /\ b \in Nat /\ HeapStart <= b /\ hdr'[b].size \in Nat
        /\ b + HDR + hdr'[b].size <= HeapEnd
    <2>1. b \in Addr /\ hdr'[b] \in Header
      BY DEF IInv, TypeOK
    <2>2. b + HDR + hdr'[b].size <= HeapEnd
      BY DEF IInv, Tiling, End
    <2> QED BY <2>1, <2>2 DEF Addr, Header
  <1>2. ASSUME NEW q \in DOMAIN held
        PROVE  q # b + HDR /\ AsAlloc!Apart(b + HDR, n, q, held[q])
    <2>a. PICK a : a = q - HDR
      OBVIOUS
    <2>1. /\ a \in Headers /\ hdr[a].free = 0 /\ hdr[a].size >= held[q]
          /\ q \in Nat /\ held[q] \in Nat /\ q = a + HDR /\ a \in Nat
          /\ hdr[a].size \in Nat
      <3>1. a \in Headers /\ hdr[a].free = 0 /\ hdr[a].size >= held[q]
        BY <2>a DEF IInv, HeldBacked
      <3>2. q \in Nat /\ held[q] \in Nat
        BY DEF IInv, TypeOK, Addr
      <3>3. hdr[a].size \in Nat /\ a \in Nat
        BY <3>1, HeaderLemma
      <3> QED BY <2>a, <3>1, <3>2, <3>3
    <2>2. a \in Headers' /\ hdr'[a].size = hdr[a].size
      BY <2>1, KeepLemma
    <2>3. a # b
      BY <2>1
    <2>4. CASE a < b
      <3>1. a + HDR + hdr[a].size <= b
        BY <2>2, <2>4 DEF IInv, Tiling, End
      <3> QED BY <1>1, <2>1, <2>3, <3>1 DEF AsAlloc!Apart
    <2>5. CASE b < a
      <3>1. b + HDR + hdr'[b].size <= a
        BY <2>2, <2>5 DEF IInv, Tiling, End
      <3> QED BY <1>1, <2>1, <2>3, <3>1 DEF AsAlloc!Apart
    <2> QED BY <1>1, <2>1, <2>3, <2>4, <2>5
  <1> QED BY <1>1, <1>2 DEF AsAlloc!Fresh

\* A block handed out is an Allocate for kmalloc and a Move for krealloc.
LEMMA DeliverRefines ==
  ASSUME IInv, IInv', Take \/ Append, pc = "search",
         NEW b \in Headers', Deliver(b + HDR),
         b \in Headers => hdr[b].free = 1, hdr'[b].size >= ALIGN4(call.n)
  PROVE  AsAlloc!Next
  <1> USE HeapAssumption
  <1>1. /\ call.op \in {"kmalloc", "krealloc"} /\ call.n \in Sizes
        /\ call.n \in Nat /\ ALIGN4(call.n) >= call.n
        /\ ALIGN4(call.n) \in Nat
    BY AlignLemma DEF IInv, Walk
  <1>2. hdr'[b].size \in Nat
    BY DEF IInv, TypeOK, Header
  <1>3. AsAlloc!Fresh(b + HDR, call.n) /\ b + HDR \in HeapStart..HeapEnd
    <2>1. hdr'[b].size >= call.n
      BY <1>1, <1>2
    <2> QED BY <1>1, <2>1, FreshLemma
  <1>4. CASE call.op = "kmalloc"
    <2>1. held' = Put(held, b + HDR, call.n)
      BY <1>4 DEF Deliver
    <2>2. AsAlloc!Allocate(call.n)
      BY <1>3, <2>1 DEF AsAlloc!Allocate, Put, AsAlloc!Put
    <2> QED BY <1>1, <2>2 DEF AsAlloc!Next
  <1>5. CASE call.op = "krealloc"
    <2>1. /\ held' = Put(Drop(held, call.ptr), b + HDR, call.n)
          /\ call.ptr \in DOMAIN held
      BY <1>5 DEF Deliver, IInv, Walk
    <2>2. AsAlloc!Move(call.ptr, call.n)
      BY <1>3, <2>1 DEF AsAlloc!Move, Put, Drop, AsAlloc!Put, AsAlloc!Drop
    <2> QED BY <1>1, <2>1, <2>2 DEF AsAlloc!Next
  <1> QED BY <1>1, <1>4, <1>5

\* The first request is served at heap_start.
LEMMA FirstRefines == IInv /\ FirstKmalloc => AsAlloc!Next
  <1> SUFFICES ASSUME IInv, FirstKmalloc PROVE AsAlloc!Next
    OBVIOUS
  <1> USE HeapAssumption
  <1>0. FirstRequest \in Nat /\ ALIGN4(FirstRequest) \in Nat
        /\ ALIGN4(FirstRequest) >= FirstRequest
    BY AlignLemma
  <1>1. DOMAIN held = {}
    BY DEF IInv, Tiling, FirstKmalloc, HeldBacked
  <1>2. HeapStart + HDR \in HeapStart..HeapEnd
        /\ HeapStart + HDR + FirstRequest <= HeapEnd
    BY <1>0
  <1>3. AsAlloc!Fresh(HeapStart + HDR, FirstRequest)
    BY <1>1, <1>2 DEF AsAlloc!Fresh
  <1>4. held' = Put(held, HeapStart + HDR, FirstRequest)
    BY DEF FirstKmalloc
  <1>5. AsAlloc!Allocate(FirstRequest)
    BY <1>2, <1>3, <1>4 DEF AsAlloc!Allocate, Put, AsAlloc!Put
  <1> QED BY <1>5 DEF AsAlloc!Next

\* krealloc in place stays within the block, which meets no other payload.
LEMMA InPlaceRefines ==
  \A p \in DOMAIN held, n \in Sizes :
    IInv /\ KreallocInPlace(p, n) => AsAlloc!Next
  <1> SUFFICES ASSUME NEW p \in DOMAIN held, NEW n \in Sizes,
                      IInv, KreallocInPlace(p, n)
               PROVE  AsAlloc!Next
    OBVIOUS
  <1> USE HeapAssumption
  <1>1. ASSUME NEW q \in DOMAIN held
        PROVE  /\ q \in Nat /\ held[q] \in Nat /\ q - HDR \in Headers
               /\ q - HDR \in Nat /\ hdr[q - HDR].size \in Nat
               /\ hdr[q - HDR].size >= held[q]
               /\ End(q - HDR) = q + hdr[q - HDR].size
               /\ End(q - HDR) <= HeapEnd
    <2>1. q \in Nat /\ held[q] \in Nat
      BY DEF IInv, TypeOK, Addr
    <2>2. q - HDR \in Headers /\ hdr[q - HDR].size >= held[q]
      BY DEF IInv, HeldBacked
    <2>3. q - HDR \in Nat /\ hdr[q - HDR].size \in Nat
      BY <2>2, HeaderLemma
    <2>4. End(q - HDR) = q + hdr[q - HDR].size
      BY <2>1, <2>3 DEF End
    <2>5. End(q - HDR) <= HeapEnd
      BY <2>2 DEF IInv, Tiling
    <2> QED BY <2>1, <2>2, <2>3, <2>4, <2>5
  <1>2. n \in Nat /\ hdr[p - HDR].size >= n
    <2>1. n \in Nat /\ ALIGN4(n) \in Nat /\ ALIGN4(n) >= n
      BY AlignLemma
    <2> QED BY <1>1, <2>1 DEF KreallocInPlace
  <1>3. ASSUME NEW q \in DOMAIN held \ {p}
        PROVE  AsAlloc!Apart(p, n, q, held[q])
    <2>1. CASE p < q
      <3>1. End(p - HDR) <= q - HDR
        BY <1>1, <2>1 DEF IInv, Tiling
      <3> QED BY <1>1, <1>2, <3>1 DEF AsAlloc!Apart
    <2>2. CASE q < p
      <3>1. End(q - HDR) <= p - HDR
        BY <1>1, <2>2 DEF IInv, Tiling
      <3> QED BY <1>1, <1>2, <3>1 DEF AsAlloc!Apart
    <2> QED BY <1>1, <2>1, <2>2
  <1>4. p + n <= HeapEnd
    BY <1>1, <1>2
  <1>5. AsAlloc!ResizeInPlace(p, n)
    BY <1>3, <1>4 DEF AsAlloc!ResizeInPlace, KreallocInPlace, Put, AsAlloc!Put
  <1> QED BY <1>5 DEF AsAlloc!Next

\* Every step of the heap is a step of Alloc or changes nothing of it.
LEMMA StepRefines == IInv /\ IInv' /\ [Next]_vars => [AsAlloc!Next]_held
  <1> SUFFICES ASSUME IInv, IInv', [Next]_vars PROVE [AsAlloc!Next]_held
    OBVIOUS
  <1> USE HeapAssumption
  <1>1. CASE FirstKmalloc
    BY <1>1, FirstRefines
  <1>2. CASE \E p \in DOMAIN held \cup {NULL} : Kfree(p)
    <2> PICK p \in DOMAIN held \cup {NULL} : Kfree(p)
      BY <1>2
    <2>1. held' = Drop(held, p)
      BY DEF Kfree
    <2>2. CASE p \in DOMAIN held
      BY <2>1, <2>2 DEF AsAlloc!Next, AsAlloc!Release, Drop, AsAlloc!Drop
    <2>3. CASE p \notin DOMAIN held
      <3>1. held = [q \in DOMAIN held |-> held[q]]
        BY DEF IInv, TypeOK
      <3> QED BY <2>1, <2>3, <3>1 DEF Drop
    <2> QED BY <2>2, <2>3
  <1>3. CASE \E p \in DOMAIN held, n \in Sizes : KreallocInPlace(p, n)
    BY <1>3, InPlaceRefines
  <1>4. CASE Take
    <2>a. PICK b : b = current
      OBVIOUS
    <2>1. /\ b \in Headers /\ hdr[b].free = 1 /\ pc = "search"
          /\ hdr[b].size >= ALIGN4(call.n) /\ ALIGN4(call.n) \in Nat
          /\ Deliver(b + HDR)
      <3>1. call.n \in Nat
        BY <1>4 DEF IInv, Walk, Take
      <3> QED BY <1>4, <2>a, <3>1, AlignLemma DEF IInv, TypeOK, Take, Fits
    <2>2. b \in Headers' /\ hdr'[b].size >= ALIGN4(call.n)
      <3>1. CASE Splits(b)
        <4>1. hdr' = SplitAt(b)
          BY <1>4, <2>a, <3>1 DEF Take
        <4>2. b # b + ALIGN4(call.n) + HDR
          <5>1. b \in Nat
            BY <2>1, AddrLemma
          <5> QED BY <2>1, <5>1
        <4>3. hdr'[b].size = ALIGN4(call.n) /\ b \in Headers'
          BY <2>1, <4>1, <4>2 DEF SplitAt, Headers
        <4> QED BY <2>1, <4>3
      <3>2. CASE ~Splits(b)
        <4>1. hdr' = [hdr EXCEPT ![b].free = 0] /\ hdr[b] \in Header
          BY <1>4, <2>a, <2>1, <3>2, HeaderLemma DEF Take
        <4> QED BY <2>1, <4>1 DEF Headers, Header
      <3> QED BY <3>1, <3>2
    <2> QED BY <1>4, <2>1, <2>2, DeliverRefines
  <1>5. CASE Append
    <2>a. PICK b : b = NewBlock
      OBVIOUS
    <2>1. /\ prev \in Headers /\ hdr[prev].next = NULL /\ pc = "search"
          /\ ALIGN4(call.n) \in Nat /\ b = End(prev)
          /\ Deliver(b + HDR)
      <3>1. call.n \in Nat
        BY <1>5 DEF IInv, Walk, Append
      <3> QED BY <1>5, <2>a, <3>1, AlignLemma, AddrLemma
              DEF IInv, TypeOK, Walk, Append, NewBlock, End
    <2>2. b \notin Headers
      <3>1. \A a \in Headers : a <= prev
        BY <2>1 DEF IInv, Tiling
      <3> QED BY <2>1, <3>1, AddrLemma
    <2>3. b \in Headers' /\ hdr'[b].size >= ALIGN4(call.n)
      <3>1. b # prev
        BY <2>1, <2>2
      <3>2. hdr'[b].size = ALIGN4(call.n) /\ b \in Headers'
        BY <1>5, <2>a, <3>1 DEF Append, Headers
      <3> QED BY <2>1, <3>2
    <2> QED BY <1>5, <2>1, <2>2, <2>3, DeliverRefines
  <1>6. CASE UNCHANGED held
    BY <1>6
  <1>7. CASE UNCHANGED vars
    BY <1>7 DEF vars
  <1> QED BY <1>1, <1>2, <1>3, <1>4, <1>5, <1>6, <1>7
          DEF Next, Call, Run, Kmalloc, KreallocMove, Search, HeapStats,
              SearchStep, Full, RefuseFree, MarkFree, MergeStep, MergeDone,
              StatsStep, StatsDone, StatsReturn

\* The heap implements the allocator its callers rely on (kmalloc.c:16-98):
\* what kmalloc and krealloc hand out is disjoint and stays in the heap.
THEOREM HeapImplementsAlloc == Spec => RefinesAlloc
  <1>1. Init => AsAlloc!Init
    BY DEF Init, AsAlloc!Init
  <1> QED BY <1>1, Invariance, StepRefines, PTL
          DEF Spec, RefinesAlloc, AsAlloc!Spec
=============================================================================
