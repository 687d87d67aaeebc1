------------------------------- MODULE Alloc --------------------------------
(***************************************************************************)
(* What the rest of the kernel relies on when it calls kmalloc, kfree and  *)
(* krealloc: every byte handed out lies in the arena and belongs to one    *)
(* caller at a time, and a call disturbs no allocation but the one it is   *)
(* given.  A caller may always be refused (NULL), which is a stutter here. *)
(***************************************************************************)
EXTENDS Integers, Maps

CONSTANTS Sizes,                \* the numbers of bytes callers ask for
          HeapStart, HeapEnd    \* the arena, as byte addresses

VARIABLE live                   \* pointer -> the bytes its holder may use

Apart(p, n, q, m) == p + n <= q \/ q + m <= p

\* [p, p+n) lies in the arena and meets no live allocation.
Fresh(p, n) ==
  /\ HeapStart <= p /\ p + n <= HeapEnd
  /\ \A q \in DOMAIN live : q # p /\ Apart(p, n, q, live[q])

Init == live = [p \in {} |-> 0]

Allocate(n) == \E p \in HeapStart..HeapEnd :
  Fresh(p, n) /\ live' = Put(live, p, n)

Release(p) == p \in DOMAIN live /\ live' = Drop(live, p)

\* The bytes grow or shrink where they are.
ResizeInPlace(p, n) ==
  /\ p \in DOMAIN live
  /\ p + n <= HeapEnd
  /\ \A q \in DOMAIN live \ {p} : Apart(p, n, q, live[q])
  /\ live' = Put(live, p, n)

\* The bytes move: the new place is apart from the old one too, so that the
\* copy between them is a copy of disjoint regions (memcpy requires it).
Move(p, n) == \E q \in HeapStart..HeapEnd :
  /\ p \in DOMAIN live
  /\ Fresh(q, n)
  /\ live' = Put(Drop(live, p), q, n)

Next ==
  \/ \E n \in Sizes : Allocate(n)
  \/ \E p \in DOMAIN live : Release(p)
  \/ \E p \in DOMAIN live, n \in Sizes : ResizeInPlace(p, n) \/ Move(p, n)

Spec == Init /\ [][Next]_live
=============================================================================
