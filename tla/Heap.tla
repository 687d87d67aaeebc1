-------------------------------- MODULE Heap --------------------------------
(***************************************************************************)
(* The kernel heap, src/kmalloc.c: one singly linked list of block headers *)
(* laid end to end from heap_start, searched first-fit, split on           *)
(* allocation and coalesced on release.                                    *)
(*                                                                         *)
(* Headers are records at byte addresses, linked by their next pointers;   *)
(* the loops of the code (the search, the merging pass, the walk of        *)
(* heap_stats) are one action per iteration.  Calls are sequential: the    *)
(* kernel has one thread and no interrupt handler allocates.  held is what *)
(* the callers own: the pointers returned to them, with the bytes they     *)
(* asked for.  Callers free and resize only what they hold.                *)
(***************************************************************************)
EXTENDS Integers, Maps

CONSTANTS HeapStart, HeapEnd,   \* heap_start, heap_end
          HDR,                  \* sizeof(block_header): 12 on i386
          MinBlock,             \* MIN_BLOCK_SIZE
          Sizes,                \* the requests callers make, in bytes
          FirstRequest,         \* the first one: kmalloc(1) in read_boot_record
          NULL                  \* the null pointer

ALIGN4(n) == ((n + 3) \div 4) * 4

ASSUME HeapAssumption ==
  /\ HeapStart \in Nat /\ HeapEnd \in Nat
  /\ HDR \in Nat \ {0} /\ MinBlock \in Nat
  /\ Sizes \subseteq Nat
  /\ FirstRequest \in Sizes
  /\ HeapStart + HDR + ALIGN4(FirstRequest) <= HeapEnd
  /\ NULL \notin Int

VARIABLES heap_base,  \* the first header, NULL before the first allocation
          hdr,        \* address -> [size, free, next] of the linked headers
          pc,         \* where the call in progress is
          call,       \* its parameters: op, the pointer given, bytes asked
          current,    \* the loop variables of the call
          prev,
          held,       \* pointer -> bytes its holder asked for
          stats       \* the sums heap_stats accumulates

vars == <<heap_base, hdr, pc, call, current, prev, held, stats>>

Headers == DOMAIN hdr
Addr == HeapStart..HeapEnd
Header == [size : Nat, free : {0, 1}, next : Addr \cup {NULL}]

NoCall == [op |-> "none", ptr |-> NULL, n |-> 0]
NoStats == [used |-> 0, used_bytes |-> 0, total |-> 0, total_bytes |-> 0]

Init ==
  /\ heap_base = NULL
  /\ hdr = [a \in {} |-> 0]
  /\ pc = "idle"
  /\ call = NoCall
  /\ current = NULL /\ prev = NULL
  /\ held = [p \in {} |-> 0]
  /\ stats = NoStats

Goto(next_pc, cur, prv) == pc' = next_pc /\ current' = cur /\ prev' = prv

\* The call returns and its frame is gone.
Return == Goto("idle", NULL, NULL) /\ call' = NoCall

-----------------------------------------------------------------------------
(* kmalloc *)

\* Mutant: krealloc forgets to free the block it moved away from.
MutDeliverNoFree(p) ==
  /\ held' = Put(Drop(held, call.ptr), p, call.n)
  /\ Return

\* The caller gets n bytes at p: kmalloc returns them, krealloc copies the old
\* bytes there and goes on to kfree the old pointer.
Deliver(p) ==
  \/ /\ call.op = "kmalloc"
     /\ held' = Put(held, p, call.n)
     /\ Return
  \/ /\ call.op = "krealloc"
     /\ held' = Put(Drop(held, call.ptr), p, call.n)
     /\ Goto("kfree", NULL, NULL)
     /\ UNCHANGED call

\* The first allocation places its block at heap_start without a bound check.
FirstKmalloc ==
  /\ pc = "idle" /\ heap_base = NULL
  /\ heap_base' = HeapStart
  /\ hdr' = Put(hdr, HeapStart,
                [size |-> ALIGN4(FirstRequest), free |-> 0, next |-> NULL])
  /\ held' = Put(held, HeapStart + HDR, FirstRequest)
  /\ UNCHANGED <<pc, call, current, prev, stats>>

Search(op, p, n) ==
  /\ call' = [op |-> op, ptr |-> p, n |-> n]
  /\ Goto("search", heap_base, NULL)
  /\ UNCHANGED <<heap_base, hdr, held, stats>>

Kmalloc(n) == pc = "idle" /\ heap_base # NULL /\ Search("kmalloc", NULL, n)

\* Mutant: a block of exactly the size asked for is passed over.
MutFitsStrict(a) == hdr[a].free = 1 /\ hdr[a].size > ALIGN4(call.n)

\* current->free && current->size >= size
Fits(a) == hdr[a].free = 1 /\ hdr[a].size >= ALIGN4(call.n)

SearchStep ==
  /\ pc = "search" /\ current # NULL /\ ~Fits(current)
  /\ Goto("search", hdr[current].next, current)
  /\ UNCHANGED <<heap_base, hdr, call, held, stats>>

\* Take the block found, cutting off the rest when a block fits in it.
Splits(a) == hdr[a].size >= HDR + ALIGN4(call.n) + MinBlock

SplitAt(a) ==
  LET size == ALIGN4(call.n)
      rest == a + size + HDR
  IN  [h \in Headers \cup {rest} |->
         CASE h = a    -> [size |-> size, free |-> 0, next |-> rest]
           [] h = rest -> [size |-> hdr[a].size - HDR - size, free |-> 1,
                           next |-> hdr[a].next]
           [] OTHER    -> hdr[h]]

\* Mutant: a block found is marked used only when it is split.
MutTakeStaysFree ==
  /\ pc = "search" /\ current # NULL /\ Fits(current)
  /\ hdr' = IF Splits(current) THEN SplitAt(current) ELSE hdr
  /\ Deliver(current + HDR)
  /\ UNCHANGED <<heap_base, stats>>

Take ==
  /\ pc = "search" /\ current # NULL /\ Fits(current)
  /\ hdr' = IF Splits(current) THEN SplitAt(current)
                               ELSE [hdr EXCEPT ![current].free = 0]
  /\ Deliver(current + HDR)
  /\ UNCHANGED <<heap_base, stats>>

\* Mutant: the new block is placed at the end of the last block's bytes
\* counted from its header.
MutNewBlockNoHeader == prev + hdr[prev].size

\* The list is exhausted: a new block goes behind the last one if it ends
\* within the heap.
NewBlock == prev + HDR + hdr[prev].size
RoomAtEnd == NewBlock + HDR + ALIGN4(call.n) <= HeapEnd

Append ==
  /\ pc = "search" /\ current = NULL /\ RoomAtEnd
  /\ hdr' = [h \in Headers \cup {NewBlock} |->
               CASE h = NewBlock -> [size |-> ALIGN4(call.n), free |-> 0,
                                     next |-> NULL]
                 [] h = prev     -> [hdr[prev] EXCEPT !.next = NewBlock]
                 [] OTHER        -> hdr[h]]
  /\ Deliver(NewBlock + HDR)
  /\ UNCHANGED <<heap_base, stats>>

\* NULL to the caller of kmalloc, and to that of krealloc, whose block stays.
Full ==
  /\ pc = "search" /\ current = NULL /\ ~RoomAtEnd
  /\ Return
  /\ UNCHANGED <<heap_base, hdr, held, stats>>

-----------------------------------------------------------------------------
(* kfree *)

\* kfree's bound is computed on int pointers: heap_end minus 4 * HDR bytes.
LastFreeable == HeapEnd - 4 * HDR
Refused(p) == p \notin HeapStart..LastFreeable   \* NULL too

Kfree(p) ==
  /\ pc = "idle"
  /\ call' = [op |-> "kfree", ptr |-> p, n |-> 0]
  /\ held' = Drop(held, p)
  /\ Goto("kfree", NULL, NULL)
  /\ UNCHANGED <<heap_base, hdr, stats>>

RefuseFree ==
  /\ pc = "kfree" /\ Refused(call.ptr)
  /\ Return
  /\ UNCHANGED <<heap_base, hdr, held, stats>>

MarkFree ==
  /\ pc = "kfree" /\ ~Refused(call.ptr)
  /\ hdr' = [hdr EXCEPT ![call.ptr - HDR].free = 1]
  /\ Goto("merge", heap_base, NULL)
  /\ UNCHANGED <<heap_base, call, held, stats>>

\* One iteration of the merging pass over the whole list.
BothFree(a) == hdr[a].free = 1 /\ hdr[hdr[a].next].free = 1

MergedAt(a) ==
  LET b == hdr[a].next
  IN  [h \in Headers \ {b} |->
         IF h = a THEN [hdr[a] EXCEPT !.size = @ + hdr[b].size + HDR,
                                      !.next = hdr[b].next]
                  ELSE hdr[h]]

\* Mutant: the pass moves on after every merge, as if a pair were all there
\* is to merge.
MutMergePairs ==
  /\ pc = "merge" /\ hdr[current].next # NULL
  /\ hdr' = IF BothFree(current) THEN MergedAt(current) ELSE hdr
  /\ current' = IF hdr'[current].next = NULL THEN current ELSE hdr'[current].next
  /\ UNCHANGED <<heap_base, pc, call, prev, held, stats>>

MergeStep ==
  /\ pc = "merge" /\ hdr[current].next # NULL
  /\ \/ /\ BothFree(current)
        /\ hdr' = MergedAt(current)
        /\ UNCHANGED current
     \/ /\ ~BothFree(current)
        /\ current' = hdr[current].next
        /\ UNCHANGED hdr
  /\ UNCHANGED <<heap_base, pc, call, prev, held, stats>>

MergeDone ==
  /\ pc = "merge" /\ hdr[current].next = NULL
  /\ Return
  /\ UNCHANGED <<heap_base, hdr, held, stats>>

-----------------------------------------------------------------------------
(* krealloc of a pointer held; of NULL it is kmalloc, to size 0 it is kfree *)

\* Mutant: the comparison is the wrong way round.
MutInPlaceSwapped(p, n) ==
  /\ pc = "idle" /\ n # 0
  /\ hdr[p - HDR].size <= ALIGN4(n)
  /\ held' = Put(held, p, n)
  /\ UNCHANGED <<heap_base, hdr, pc, call, current, prev, stats>>

KreallocInPlace(p, n) ==
  /\ pc = "idle" /\ n # 0
  /\ hdr[p - HDR].size >= ALIGN4(n)
  /\ held' = Put(held, p, n)
  /\ UNCHANGED <<heap_base, hdr, pc, call, current, prev, stats>>

KreallocMove(p, n) ==
  /\ pc = "idle" /\ n # 0
  /\ hdr[p - HDR].size < ALIGN4(n)
  /\ Search("krealloc", p, n)

-----------------------------------------------------------------------------
(* heap_stats, the sums the command heapcheck prints *)

HeapStats ==
  /\ pc = "idle" /\ heap_base # NULL
  /\ stats' = NoStats
  /\ Goto("stats", HeapStart, NULL)
  /\ UNCHANGED <<heap_base, hdr, call, held>>

StatsStep ==
  /\ pc = "stats" /\ current # NULL
  /\ LET b == hdr[current]
         u == 1 - b.free
     IN  stats' = [used        |-> stats.used + u,
                   used_bytes  |-> stats.used_bytes + u * b.size,
                   total       |-> stats.total + 1,
                   total_bytes |-> stats.total_bytes + b.size]
  /\ current' = hdr[current].next
  /\ UNCHANGED <<heap_base, hdr, pc, call, prev, held>>

\* The headers are added to both sums at the end.
StatsDone ==
  /\ pc = "stats" /\ current = NULL
  /\ stats' = [stats EXCEPT !.used_bytes = @ + stats.used * HDR,
                            !.total_bytes = @ + stats.total * HDR]
  /\ pc' = "report"
  /\ UNCHANGED <<heap_base, hdr, call, current, prev, held>>

\* The caller has the sums.
StatsReturn ==
  /\ pc = "report"
  /\ stats' = NoStats
  /\ pc' = "idle"
  /\ UNCHANGED <<heap_base, hdr, call, current, prev, held>>

-----------------------------------------------------------------------------
Call ==
  \/ FirstKmalloc
  \/ \E n \in Sizes : Kmalloc(n)
  \/ \E p \in DOMAIN held \cup {NULL} : Kfree(p)
  \/ \E p \in DOMAIN held, n \in Sizes : KreallocInPlace(p, n)
                                         \/ KreallocMove(p, n)
  \/ HeapStats

Run ==
  \/ SearchStep \/ Take \/ Append \/ Full
  \/ RefuseFree \/ MarkFree \/ MergeStep \/ MergeDone
  \/ StatsStep \/ StatsDone \/ StatsReturn

Next == Call \/ Run

Spec == Init /\ [][Next]_vars

\* The processor executes the call in progress; callers may stop calling.
FairSpec == Spec /\ WF_vars(Run)
-----------------------------------------------------------------------------
(* Properties *)

\* Types of the state; the loop variables are headers of the list or NULL.
TypeOK ==
  /\ heap_base \in {NULL, HeapStart}
  /\ Headers \subseteq Addr
  /\ hdr \in [Headers -> Header]
  /\ pc \in {"idle", "search", "kfree", "merge", "stats", "report"}
  /\ call \in [op : {"none", "kmalloc", "krealloc", "kfree"},
               ptr : Addr \cup {NULL}, n : Sizes \cup {0}]
  /\ current \in Headers \cup {NULL} /\ prev \in Headers \cup {NULL}
  /\ DOMAIN held \subseteq Addr
  /\ held \in [DOMAIN held -> Sizes]
  /\ stats \in [used : Nat, used_bytes : Nat, total : Nat, total_bytes : Nat]

End(a) == a + HDR + hdr[a].size

\* The linked blocks tile the heap from heap_start: each ends where the next
\* one begins, the last one ends within the heap, and no header lies within
\* another block, however kmalloc's splits, kfree's merges and krealloc's
\* moves follow one another (kmalloc.c:34-56, 68-78).
Tiling ==
  /\ (heap_base = NULL) = (Headers = {})
  /\ heap_base # NULL => heap_base = HeapStart /\ HeapStart \in Headers
  /\ \A a \in Headers :
       /\ End(a) <= HeapEnd
       /\ IF hdr[a].next = NULL THEN \A b \in Headers : b <= a
          ELSE hdr[a].next = End(a) /\ End(a) \in Headers
       /\ \A b \in Headers : a < b => End(a) <= b
       /\ a # HeapStart => \E b \in Headers : hdr[b].next = a

\* Between calls no two neighbours are both free: the one pass of kfree is
\* enough, and a split never leaves its rest beside a free block
\* (kmalloc.c:35-42, 69-78).
Coalesced ==
  pc = "idle" => \A a \in Headers :
    hdr[a].free = 1 /\ hdr[a].next # NULL => hdr[hdr[a].next].free = 0

\* Every pointer a caller holds is the payload of a used block that has at
\* least the bytes it asked for: no call made on behalf of another caller
\* frees, merges or shrinks it, and krealloc's early return is right.
HeldBacked ==
  \A p \in DOMAIN held : /\ p - HDR \in Headers
                         /\ hdr[p - HDR].free = 0
                         /\ hdr[p - HDR].size >= held[p]

\* A used block nobody holds is one that is being released, or one kfree
\* refused because it lies in the last 48 bytes of the heap
\* (kmalloc.c:61, 4 * sizeof(block_header) off heap_end): nothing else leaks,
\* krealloc's moves and failures included.
Accounted ==
  \A a \in Headers : hdr[a].free = 0 /\ a + HDR \notin DOMAIN held =>
    \/ a + HDR > HeapEnd - 4 * HDR
    \/ pc = "kfree" /\ call.ptr = a + HDR

\* The sums heapcheck prints: the blocks with their headers cover the heap up
\* to the end of the last block, and the used ones are part of that
\* (kmalloc.c:106-118).
StatsExact ==
  pc = "report" =>
    /\ \E a \in Headers : /\ hdr[a].next = NULL
                          /\ stats.total_bytes = End(a) - HeapStart
    /\ stats.used_bytes <= stats.total_bytes

\* kmalloc returns NULL only when no free block anywhere in the list could
\* have served the request: the search misses none (kmalloc.c:28-31, 49-52).
FailsOnlyWhenFull ==
  [][Full => \A a \in Headers :
       hdr[a].free = 1 => hdr[a].size < ALIGN4(call.n)]_vars

\* The heap keeps what callers rely on: allocations are disjoint, lie in the
\* heap, and change only by a call about them (module Alloc).
AsAlloc == INSTANCE Alloc WITH live <- held
RefinesAlloc == AsAlloc!Spec

-----------------------------------------------------------------------------
(* The inductive invariant behind the safety properties *)

\* While a pass runs, unmerged pairs are only at or after its position.
Unmerged ==
  \A a \in Headers :
    (hdr[a].free = 1 /\ hdr[a].next # NULL /\ hdr[hdr[a].next].free = 1)
      => (pc = "merge" /\ current <= a)

\* Where the loops are: prev precedes current, what the search has passed does
\* not fit, the block to free or to move away from is there and used.
Walk ==
  /\ pc \in {"search", "merge", "stats", "report"} => heap_base # NULL
  /\ pc = "search" =>
       /\ call.op \in {"kmalloc", "krealloc"} /\ call.n \in Sizes
       /\ IF prev = NULL THEN current = HeapStart
          ELSE hdr[prev].next = current
       /\ \A a \in Headers : (current = NULL \/ a < current) =>
            (hdr[a].free = 1 => hdr[a].size < ALIGN4(call.n))
       /\ call.op = "krealloc" => call.ptr \in DOMAIN held
  /\ pc = "kfree" /\ call.ptr # NULL =>
       /\ call.ptr \notin DOMAIN held
       /\ call.ptr - HDR \in Headers
       /\ hdr[call.ptr - HDR].free = 0
  /\ pc = "merge" => current # NULL /\ prev = NULL

\* heap_stats has counted the blocks that end at or before its position.
Summed ==
  LET seen  == stats.total_bytes + stats.total * HDR
      inuse == stats.used_bytes + stats.used * HDR
  IN  pc = "stats" =>
        /\ inuse <= seen
        /\ IF current # NULL THEN seen = current - HeapStart
           ELSE \E a \in Headers : hdr[a].next = NULL
                                   /\ seen = End(a) - HeapStart

IInv ==
  /\ TypeOK /\ Tiling /\ Unmerged /\ HeldBacked /\ Accounted
  /\ Walk /\ Summed /\ StatsExact
=============================================================================
