------------------------------ MODULE FatProofs -----------------------------
(***************************************************************************)
(* The FAT has no circle, for every disk, name, text and sequence of       *)
(* commands, lost writes and crashes: IInv is inductive.  Then Good, what  *)
(* the disk and the calls still to be made are as long as no write was     *)
(* lost, and what each call does to it.                                    *)
(***************************************************************************)
EXTENDS Fat, SequenceTheorems, FiniteSetTheorems, WellFoundedInduction, TLAPS

\* The marks are no clusters, and 1 is a copy of the FAT.
LEMMA TypeFacts ==
  /\ EOC \in Nat /\ EOC \notin Entries /\ 0 \notin Entries /\ Entries \subseteq Nat
  /\ -1 \notin Entries /\ 1 \in 1..NumFats
  BY FatAssumption DEF EOC, Entries

\* A set of clusters that is not empty has a smallest one.
LEMMA MinOfEntries ==
  ASSUME NEW S \in SUBSET Entries, S # {}
  PROVE  Min(S) \in S
<1>1. S \subseteq Nat
  BY TypeFacts
<1>2. \E x \in S : \A y \in S : ~(<<y, x>> \in OpToRel(<, Nat))
  BY <1>1, WFMin, NatLessThanWellFounded
<1>3. PICK x \in S : \A y \in S : ~(<<y, x>> \in OpToRel(<, Nat))
  BY <1>2
<1>4. ASSUME NEW y \in S PROVE x =< y
  <2>1. ~(y < x)
    BY <1>1, <1>3 DEF OpToRel
  <2> QED BY <2>1, <1>1
<1> QED BY <1>4 DEF Min

\* get_empty_cluster returns a free cluster if there is one.
LEMMA EmptyCluster ==
  /\ get_empty_cluster # -1 => /\ get_empty_cluster \in Entries
                               /\ fats[1][get_empty_cluster] = 0
  /\ get_empty_cluster = -1 => \A c \in Entries : fats[1][c] # 0
<1> DEFINE free == {c \in Entries : fats[1][c] = 0}
<1>1. get_empty_cluster = IF free = {} THEN -1 ELSE Min(free)
  BY DEF get_empty_cluster, Free
<1>2. free # {} => Min(free) \in free
  BY MinOfEntries
<1> QED BY <1>1, <1>2, TypeFacts

\* Freeing or ending a chain makes no circle.
LEMMA CutKeeps ==
  ASSUME NEW fat \in [Entries -> Links], NoCircle(fat), NEW c, NEW w \in {0, EOC}
  PROVE  NoCircle([fat EXCEPT ![c] = w])
<1> SUFFICES ASSUME NEW S \in SUBSET Entries, S # {}
             PROVE  \E d \in S : [fat EXCEPT ![c] = w][d] \notin S
  BY DEF NoCircle
<1>1. PICK d \in S : fat[d] \notin S
  BY DEF NoCircle
<1>2. w \notin S
  BY TypeFacts
<1> QED BY <1>1, <1>2

\* Nor does a link to another cluster that itself leads nowhere.
LEMMA LinkKeeps ==
  ASSUME NEW fat \in [Entries -> Links], NoCircle(fat), NEW c, NEW w \in Entries,
         c # w, fat[w] \notin Entries
  PROVE  NoCircle([fat EXCEPT ![c] = w])
<1> SUFFICES ASSUME NEW S \in SUBSET Entries, S # {}
             PROVE  \E d \in S : [fat EXCEPT ![c] = w][d] \notin S
  BY DEF NoCircle
<1>1. CASE w \in S
  <2>1. [fat EXCEPT ![c] = w][w] = fat[w]
    OBVIOUS
  <2> QED BY <1>1, <2>1
<1>2. CASE w \notin S
  <2>1. PICK d \in S : fat[d] \notin S
    BY DEF NoCircle
  <2> QED BY <1>2, <2>1
<1> QED BY <1>1, <1>2

\* t is s with the calls cs in place of the first: where each call comes from.
Follows(t, s, cs) ==
  /\ t \in Seq(Range(t))
  /\ Len(cs) \in Nat /\ Len(s) \in Nat
  /\ \A i \in 1..Len(t) :
       \/ i \in 1..Len(cs) /\ t[i] = cs[i]
       \/ /\ i - Len(cs) + 1 \in 2..Len(s)
          /\ t[i] = s[i - Len(cs) + 1]

\* Putting calls in place of the first makes such a sequence.
LEMMA Stacked ==
  ASSUME NEW s, s \in Seq(Range(s)), s # <<>>, NEW cs, cs \in Seq(Range(cs)),
         NEW t, t = cs \o Tail(s)
  PROVE  Follows(t, s, cs)
<1> DEFINE U == Range(s) \cup Range(cs)
<1>1. s \in Seq(U) /\ cs \in Seq(U)
  BY SeqMonotonic
<1>2. /\ Tail(s) \in Seq(U) /\ Len(Tail(s)) = Len(s) - 1
      /\ \A i \in 1..Len(Tail(s)) : Tail(s)[i] = s[i+1]
  BY <1>1, HeadTailProperties
<1>3. Len(s) \in Nat /\ Len(cs) \in Nat
  BY <1>1, LenProperties
<1>4. /\ t \in Seq(U) /\ Len(t) = Len(cs) + Len(Tail(s))
      /\ \A i \in 1..Len(cs) + Len(Tail(s)) :
            t[i] = IF i <= Len(cs) THEN cs[i] ELSE Tail(s)[i - Len(cs)]
  BY <1>1, <1>2, ConcatProperties
<1>5. t \in Seq(Range(t))
  BY <1>4, SeqOfRange
<1>6. ASSUME NEW i \in 1..Len(t)
      PROVE  \/ i \in 1..Len(cs) /\ t[i] = cs[i]
             \/ i - Len(cs) + 1 \in 2..Len(s) /\ t[i] = s[i - Len(cs) + 1]
  <2>1. CASE i <= Len(cs)
    BY <2>1, <1>3, <1>4
  <2>2. CASE i > Len(cs)
    <3>1. i - Len(cs) \in 1..Len(Tail(s))
      BY <2>2, <1>3, <1>4, <1>2
    <3>2. t[i] = Tail(s)[i - Len(cs)]
      BY <2>2, <1>3, <1>4, <1>2
    <3> QED BY <3>1, <3>2, <1>2, <1>3
  <2> QED BY <2>1, <2>2, <1>3
<1> QED BY <1>3, <1>5, <1>6 DEF Follows

\* The running call is the first.
LEMMA First ==
  ASSUME Pending, todo # <<>>
  PROVE  /\ Len(todo) \in Nat /\ 1 \in 1..Len(todo)
         /\ Head(todo) = todo[1]
         /\ CallOK(Head(todo)) /\ (LinkCall(Head(todo)) => LinkOK(1))
<1>1. todo \in Seq(Range(todo))
  BY DEF Pending
<1>2. Len(todo) \in Nat \ {0}
  BY <1>1, EmptySeq
<1>3. Head(todo) = todo[1]
  BY <1>1
<1> QED BY <1>1, <1>2, <1>3 DEF Pending

\* Calls that lead to no link at once.
Harmless(cs) == /\ cs \in Seq(Range(cs))
                /\ \A i \in 1..Len(cs) :
                     /\ cs[i].f # "write_fat"
                     /\ cs[i].f = "modify_fat" => cs[i].args[2] \in {0, EOC}

\* While anything but a FAT write runs, no link is waiting.
LEMMA NoLinkWaits ==
  ASSUME Pending, todo # <<>>, ~FatCall(Head(todo)), NEW i \in 1..Len(todo)
  PROVE  ~LinkCall(todo[i])
<1>1. /\ Len(todo) \in Nat /\ 1 \in 1..Len(todo) /\ Head(todo) = todo[1]
  BY First
<1> SUFFICES ASSUME LinkCall(todo[i]) PROVE FALSE
  OBVIOUS
<1>2. LinkOK(i)
  BY DEF Pending
<1>3. i # 1
  BY <1>1 DEF LinkCall, FatCall
<1>4. 1 \in 1..i-1
  BY <1>1, <1>3
<1> QED BY <1>1, <1>2, <1>4 DEF LinkOK

\* Such calls in place of one that writes no FAT leave no link waiting.
LEMMA HarmlessKeeps ==
  ASSUME Pending, todo # <<>>, ~FatCall(Head(todo)), NEW cs, Harmless(cs),
         Becomes(cs), fats' = fats
  PROVE  Pending'
<1>1. todo' = cs \o Tail(todo)
  BY DEF Becomes
<1>2. Follows(todo', todo, cs)
  <2>1. todo \in Seq(Range(todo)) /\ cs \in Seq(Range(cs))
    BY DEF Pending, Harmless
  <2> QED BY <1>1, <2>1, Stacked
<1>3. ASSUME NEW i \in 1..Len(todo')
      PROVE  CallOK(todo'[i]) /\ ~LinkCall(todo'[i])
  <2>1. CASE i \in 1..Len(cs) /\ todo'[i] = cs[i]
    BY <2>1, TypeFacts DEF Harmless, CallOK, LinkCall, Links
  <2>2. CASE i - Len(cs) + 1 \in 2..Len(todo) /\ todo'[i] = todo[i - Len(cs) + 1]
    <3>1. i - Len(cs) + 1 \in 1..Len(todo)
      BY <2>2, <1>2 DEF Follows
    <3> QED BY <2>2, <3>1, NoLinkWaits DEF Pending
  <2> QED BY <1>2, <2>1, <2>2 DEF Follows
<1>4. ASSUME NEW i \in 1..Len(todo')
      PROVE  CallOK(todo[i])' /\ ~LinkCall(todo[i])'
  BY <1>3 DEF CallOK, LinkCall
<1> QED BY <1>2, <1>4 DEF Pending, Follows

\* A call that does not itself lead to a link.
Safe(t) == /\ t.f # "write_fat"
           /\ t.f = "modify_fat" => t.args[2] \in {0, EOC}

\* Short sequences of such calls.
LEMMA HarmlessTuples ==
  /\ Harmless(<<>>)
  /\ \A a : Safe(a) => Harmless(<<a>>)
  /\ \A a, b : Safe(a) /\ Safe(b) => Harmless(<<a, b>>)
  /\ \A a, b, c : Safe(a) /\ Safe(b) /\ Safe(c) => Harmless(<<a, b, c>>)
<1>1. Harmless(<<>>)
  BY DEF Harmless, Range
<1>2. ASSUME NEW a, Safe(a) PROVE Harmless(<<a>>)
  <2>1. <<a>> \in Seq({a})
    OBVIOUS
  <2>2. <<a>> \in Seq(Range(<<a>>))
    BY <2>1, SeqOfRange
  <2>3. Len(<<a>>) = 1 /\ \A i \in 1..1 : Safe(<<a>>[i])
    BY <1>2
  <2> QED BY <2>2, <2>3 DEF Harmless, Safe
<1>3. ASSUME NEW a, NEW b, Safe(a), Safe(b) PROVE Harmless(<<a, b>>)
  <2>1. <<a, b>> \in Seq({a, b})
    OBVIOUS
  <2>2. <<a, b>> \in Seq(Range(<<a, b>>))
    BY <2>1, SeqOfRange
  <2>3. Len(<<a, b>>) = 2 /\ \A i \in 1..2 : Safe(<<a, b>>[i])
    BY <1>3
  <2> QED BY <2>2, <2>3 DEF Harmless, Safe
<1>4. ASSUME NEW a, NEW b, NEW c, Safe(a), Safe(b), Safe(c) PROVE Harmless(<<a, b, c>>)
  <2>1. <<a, b, c>> \in Seq({a, b, c})
    OBVIOUS
  <2>2. <<a, b, c>> \in Seq(Range(<<a, b, c>>))
    BY <2>1, SeqOfRange
  <2>3. Len(<<a, b, c>>) = 3 /\ \A i \in 1..3 : Safe(<<a, b, c>>[i])
    BY <1>4
  <2> QED BY <2>2, <2>3 DEF Harmless, Safe
<1> QED BY <1>1, <1>2, <1>3, <1>4

\* The calls that are so by their kind.
LEMMA SafeCalls ==
  /\ \A c, img : Safe(WriteData(c, img))
  /\ \A c : Safe(modify_fat(c, 0)) /\ Safe(modify_fat(c, EOC))
  /\ \A c : Safe(extend_file(c)) /\ Safe(FreeFrom(c)) /\ Safe(Returns(c))
  /\ \A p : Safe(delete_file(p))
  /\ Safe(Look)
  /\ \A p, x, n : Safe(DeleteInside(p, x, n)) /\ Safe(PlaceAt(x, p, n)) /\ Safe(Grow(n, x, p))
                  /\ Safe(Fill(n, x, p))
  /\ \A p, d : Safe(create_file(p, d)) /\ Safe(CreateAt(p, d)) /\ Safe(PlaceInNew(p, d))
               /\ Safe(write_to_file(p, d))
BY DEF Safe, Call, WriteData, modify_fat, extend_file, FreeFrom, Returns, delete_file,
       DeleteInside, PlaceAt, Grow, Fill, create_file, CreateAt, PlaceInNew, write_to_file, Look

\* A step that writes no FAT and waits for no link.
Cold == /\ todo # <<>> /\ ~broken /\ ~FatCall(Head(todo))
        /\ \E cs : Harmless(cs) /\ Becomes(cs)
        /\ UNCHANGED <<fats, broken>>

\* A cold step keeps the invariant.
LEMMA ColdKeeps == IInv /\ Cold => IInv'
<1> SUFFICES ASSUME IInv, Cold PROVE IInv'
  OBVIOUS
<1>1. PICK cs : Harmless(cs) /\ Becomes(cs)
  BY DEF Cold
<1>2. Pending'
  BY <1>1, HarmlessKeeps DEF Cold, IInv
<1> QED BY <1>2 DEF IInv, Cold, Acyclic, NoCircle

\* A call that writes no FAT and goes on as harmless ones takes such a step.
LEMMA ColdDoes ==
  ASSUME NEW f, Running(f), f \notin {"write_fat", "modify_fat"},
         NEW cs, Harmless(cs), Becomes(cs), fats' = fats, broken' = broken
  PROVE  Cold
BY DEF Running, Cold, FatCall

\* Each of these actions is such a step.
LEMMA ColdActions ==
  \/ DoWriteData \/ DoReturn \/ ExtendFails \/ DeleteMissing \/ Delete
  \/ DeleteInsideStep \/ FreeStep \/ Create \/ FindNew \/ EntryInNew \/ NewEntry
  \/ WriteFile \/ GrowStep \/ FillStep \/ DoLook
  => Cold
<1> USE SafeCalls, HarmlessTuples
<1>1. DoWriteData => Cold
  BY ColdDoes DEF DoWriteData
<1>2. DoReturn => Cold
  BY ColdDoes DEF DoReturn, Computes
<1>3. ExtendFails => Cold
  BY ColdDoes DEF ExtendFails, Computes
<1>4. DeleteMissing => Cold
  BY ColdDoes DEF DeleteMissing, Does, Computes
<1>5. Delete => Cold
  BY ColdDoes DEF Delete, Does, Computes
<1>6. DeleteInsideStep => Cold
  BY ColdDoes DEF DeleteInsideStep, Does, Computes
<1>7. FreeStep => Cold
  BY ColdDoes DEF FreeStep, Does, Computes
<1>8. Create => Cold
  BY ColdDoes DEF Create, Does, Computes
<1>9. FindNew => Cold
  BY ColdDoes DEF FindNew, Does, Computes
<1>10. EntryInNew => Cold
  BY ColdDoes DEF EntryInNew, Does, Computes
<1>11. NewEntry => Cold
  BY ColdDoes DEF NewEntry, WithEntry, Does, Computes
<1>12. WriteFile => Cold
  BY ColdDoes DEF WriteFile, Does, Computes
<1>13. GrowStep => Cold
  BY ColdDoes DEF GrowStep, Does, Computes
<1>14. FillStep => Cold
  BY ColdDoes DEF FillStep, Does, Computes
<1>15. DoLook => Cold
  BY ColdDoes DEF DoLook, Does, Computes
<1> QED BY <1>1, <1>2, <1>3, <1>4, <1>5, <1>6, <1>7, <1>8, <1>9, <1>10, <1>11,
           <1>12, <1>13, <1>14, <1>15

\* The first call is done and writes at most the FAT; what is linked to later
\* still leads nowhere.
LEMMA PopKeeps ==
  ASSUME Pending, todo # <<>>, Becomes(<<>>),
         \A i \in 2..Len(todo) :
            LinkCall(todo[i]) => fats'[1][todo[i].args[2]] \notin Entries
  PROVE  Pending'
<1>1. Follows(todo', todo, <<>>) /\ Len(<<>>) = 0
  <2>1. todo \in Seq(Range(todo)) /\ <<>> \in Seq(Range(<<>>))
    BY DEF Pending
  <2> QED BY <2>1, Stacked DEF Becomes
<1>2. /\ Len(todo) \in Nat
      /\ \A i \in 1..Len(todo') : i + 1 \in 2..Len(todo) /\ todo'[i] = todo[i+1]
  BY <1>1 DEF Follows
<1>3. ASSUME NEW i \in 1..Len(todo')
      PROVE  CallOK(todo[i])'
  <2>1. i + 1 \in 1..Len(todo) /\ todo'[i] = todo[i+1]
    BY <1>2
  <2>2. CallOK(todo'[i])
    BY <2>1 DEF Pending
  <2> QED BY <2>2 DEF CallOK
<1>4. ASSUME NEW i \in 1..Len(todo'), LinkCall(todo[i])'
      PROVE  LinkOK(i)'
  <2>1. i + 1 \in 2..Len(todo) /\ todo'[i] = todo[i+1] /\ LinkCall(todo[i+1])
    BY <1>2, <1>4 DEF LinkCall
  <2>2. LinkOK(i+1)
    BY <2>1, <1>2 DEF Pending
  <2>3. fats'[1][todo'[i].args[2]] \notin Entries
    BY <2>1
  <2>4. ASSUME NEW j \in 1..i-1
        PROVE  /\ FatCall(todo'[j]) /\ ~LinkCall(todo'[j])
               /\ LeadsNowhere(todo'[i].args[2], todo'[j])
    <3>1. j + 1 \in 1..(i+1)-1 /\ todo'[j] = todo[j+1]
      BY <1>2
    <3> QED BY <2>1, <2>2, <3>1 DEF LinkOK
  <2> QED BY <2>1, <2>2, <2>3, <2>4 DEF LinkOK, FatCall, LinkCall, LeadsNowhere
<1>5. todo' \in Seq(Range(todo'))
  BY <1>1 DEF Follows
<1> QED BY <1>3, <1>4, <1>5 DEF Pending

\* The writes of the FAT: one that arrives,
LEMMA WriteFatKeeps == IInv /\ DoWriteFat => IInv'
<1> SUFFICES ASSUME IInv, DoWriteFat PROVE IInv'
  OBVIOUS
<1> USE TypeFacts
<1> DEFINE k == Args[1]
           img == Args[2]
<1>1. /\ todo # <<>> /\ ~broken /\ Head(todo).f = "write_fat" /\ broken' = broken
      /\ fats' = [fats EXCEPT ![k] = img] /\ Becomes(<<>>)
  BY DEF DoWriteFat, Running
<1>2. img \in [Entries -> Links] /\ NoCircle(img)
  <2>1. CallOK(Head(todo))
    BY <1>1, First DEF IInv
  <2> QED BY <1>1, <2>1 DEF CallOK, Args
<1>3. fats' \in [1..NumFats -> [Entries -> Links]] /\ fats'[1] \in {fats[1], img}
  BY <1>1, <1>2 DEF IInv
<1>4. NoCircle(fats'[1])
  BY <1>2, <1>3 DEF IInv, Acyclic
<1>5. ASSUME NEW i \in 2..Len(todo), LinkCall(todo[i])
      PROVE  fats'[1][todo[i].args[2]] \notin Entries
  <2>1. Len(todo) \in Nat /\ Head(todo) = todo[1]
    BY <1>1, First DEF IInv
  <2>2. i \in 1..Len(todo) /\ 1 \in 1..i-1
    BY <2>1
  <2>3. LinkOK(i)
    BY <1>5, <2>2 DEF IInv, Pending
  <2>4. fats[1][todo[i].args[2]] \notin Entries /\ LeadsNowhere(todo[i].args[2], todo[1])
    BY <2>2, <2>3 DEF LinkOK
  <2> QED BY <2>1, <2>4, <1>1, <1>3 DEF LeadsNowhere, Args
<1>6. Pending'
  BY <1>1, <1>5, PopKeeps DEF IInv
<1> QED BY <1>1, <1>3, <1>4, <1>6 DEF IInv, Acyclic, NoCircle

\* and one that is lost.
LEMMA LoseKeeps == IInv /\ LoseWrite => IInv'
<1> SUFFICES ASSUME IInv, LoseWrite PROVE IInv'
  OBVIOUS
<1>1. /\ todo # <<>> /\ ~broken /\ broken' = broken /\ fats' = fats /\ Becomes(<<>>)
  BY DEF LoseWrite, Running
<1>2. ASSUME NEW i \in 2..Len(todo), LinkCall(todo[i])
      PROVE  fats'[1][todo[i].args[2]] \notin Entries
  <2>1. Len(todo) \in Nat
    BY <1>1, First DEF IInv
  <2>2. i \in 1..Len(todo)
    BY <2>1
  <2>3. LinkOK(i)
    BY <1>2, <2>2 DEF IInv, Pending
  <2> QED BY <1>1, <2>3 DEF LinkOK
<1>3. Pending'
  BY <1>1, <1>2, PopKeeps DEF IInv
<1> QED BY <1>1, <1>3 DEF IInv, Acyclic, NoCircle

\* The cluster extend_file links to is free, and another than the one it
\* links from.
LEMMA NewIsOther ==
  ASSUME EndOf(Args[1]) >= EOC, get_empty_cluster # -1
  PROVE  /\ get_empty_cluster \in Entries /\ fats[1][get_empty_cluster] = 0
         /\ LastOf(Args[1]) # get_empty_cluster
<1> DEFINE new == get_empty_cluster
           prev == LastOf(Args[1])
<1>1. new \in Entries /\ fats[1][new] = 0
  BY EmptyCluster
<1>2. CASE InChain(Args[1])
  <2>1. get_from_fat(prev) >= EOC
    BY <1>2 DEF EndOf
  <2>2. get_from_fat(new) = 0
    BY <1>1 DEF get_from_fat, EntryIn
  <2>3. ~(0 >= EOC)
    BY DEF EOC
  <2> QED BY <1>1, <2>1, <2>2, <2>3
<1>3. CASE ~InChain(Args[1])
  BY <1>1, <1>3, TypeFacts DEF LastOf
<1> QED BY <1>1, <1>2, <1>3

\* extend_file links to a cluster that leads nowhere.
LEMMA ExtendKeeps == IInv /\ Extend => IInv'
<1> SUFFICES ASSUME IInv, Extend PROVE IInv'
  OBVIOUS
<1> USE TypeFacts
<1> DEFINE new == get_empty_cluster
           prev == LastOf(Args[1])
           cs == <<modify_fat(new, EOC), modify_fat(prev, new), WriteData(new, Zero), Returns(new)>>
<1>1. /\ todo # <<>> /\ ~broken /\ ~FatCall(Head(todo))
      /\ fats' = fats /\ broken' = broken /\ todo' = cs \o Tail(todo)
  BY DEF Extend, Running, FatCall, Does, Becomes, Computes
<1>2. new \in Entries /\ fats[1][new] = 0 /\ prev # new
  BY NewIsOther DEF Extend
<1>3. /\ cs \in Seq(Range(cs)) /\ Len(cs) = 4
      /\ cs[1] = modify_fat(new, EOC) /\ cs[2] = modify_fat(prev, new)
      /\ cs[3] = WriteData(new, Zero) /\ cs[4] = Returns(new)
  <2> HIDE DEF new, prev
  <2> DEFINE S == {modify_fat(new, EOC), modify_fat(prev, new), WriteData(new, Zero), Returns(new)}
  <2>1. cs \in Seq(S)
    OBVIOUS
  <2>2. cs \in Seq(Range(cs))
    BY <2>1, SeqOfRange
  <2> QED BY <2>2
<1> HIDE DEF cs
<1>4. Follows(todo', todo, cs)
  <2>1. todo \in Seq(Range(todo))
    BY DEF IInv, Pending
  <2> QED BY <1>1, <1>3, <2>1, Stacked
<1> HIDE DEF new, prev
<1>5. /\ todo' \in Seq(Range(todo')) /\ Len(todo) \in Nat
      /\ \A i \in 1..Len(todo') :
           \/ i \in 1..4 /\ todo'[i] = cs[i]
           \/ i > 4 /\ i - 3 \in 1..Len(todo) /\ todo'[i] = todo[i - 3]
  BY <1>3, <1>4 DEF Follows
<1>6. /\ \A i \in 1..4 : CallOK(cs[i]) /\ (LinkCall(cs[i]) => i = 2)
      /\ cs[2].args[1] = prev /\ cs[2].args[2] = new
      /\ FatCall(cs[1]) /\ LeadsNowhere(new, cs[1])
  <2> USE DEF Call
  <2>1. CallOK(cs[1]) /\ ~LinkCall(cs[1]) /\ FatCall(cs[1]) /\ LeadsNowhere(new, cs[1])
    BY <1>3 DEF CallOK, LinkCall, FatCall, LeadsNowhere, modify_fat, Links
  <2>2. CallOK(cs[2]) /\ cs[2].args[1] = prev /\ cs[2].args[2] = new
    BY <1>2, <1>3 DEF CallOK, modify_fat, Links
  <2>3. CallOK(cs[3]) /\ ~LinkCall(cs[3])
    <3>1. \A c, img : WriteData(c, img).f = "write_data"
      BY DEF WriteData
    <3>2. cs[3].f = "write_data"
      BY <1>3, <3>1
    <3> QED BY <3>2 DEF CallOK, LinkCall
  <2>4. CallOK(cs[4]) /\ ~LinkCall(cs[4])
    BY <1>3 DEF CallOK, LinkCall, Returns
  <2>5. \A i \in 1..4 : i = 1 \/ i = 2 \/ i = 3 \/ i = 4
    OBVIOUS
  <2> QED BY <2>1, <2>2, <2>3, <2>4, <2>5
<1>7. ASSUME NEW i \in 1..Len(todo')
      PROVE  CallOK(todo'[i]) /\ (LinkCall(todo'[i]) => i = 2 /\ todo'[i] = cs[2])
  <2>1. CASE i \in 1..4 /\ todo'[i] = cs[i]
    BY <1>6, <2>1
  <2>2. CASE i > 4 /\ i - 3 \in 1..Len(todo) /\ todo'[i] = todo[i - 3]
    BY <1>1, <2>2, NoLinkWaits DEF IInv, Pending
  <2> QED BY <1>5, <2>1, <2>2
<1>8. ASSUME NEW i \in 1..Len(todo'), LinkCall(todo'[i])
      PROVE  /\ todo'[i].args[1] # todo'[i].args[2]
             /\ fats'[1][todo'[i].args[2]] \notin Entries
             /\ \A j \in 1..i-1 : /\ FatCall(todo'[j]) /\ ~LinkCall(todo'[j])
                                  /\ LeadsNowhere(todo'[i].args[2], todo'[j])
  <2>1. i = 2 /\ todo'[i] = cs[2]
    BY <1>7, <1>8
  <2>2. 1 \in 1..Len(todo') /\ todo'[1] = cs[1] /\ \A j \in 1..i-1 : j = 1
    BY <2>1, <1>5
  <2>3. /\ cs[2].args[1] # cs[2].args[2] /\ fats'[1][cs[2].args[2]] \notin Entries
        /\ FatCall(cs[1]) /\ ~LinkCall(cs[1]) /\ LeadsNowhere(cs[2].args[2], cs[1])
    BY <1>1, <1>2, <1>6
  <2> QED BY ONLY <2>1, <2>2, <2>3
<1>9. Pending'
  BY <1>5, <1>7, <1>8 DEF Pending, CallOK, LinkCall, LinkOK, FatCall, LeadsNowhere
<1> QED BY <1>1, <1>9 DEF IInv, Acyclic, NoCircle

\* extend_file damages the heap on a full disk.
LEMMA ExtendFullKeeps == IInv /\ ExtendFull => IInv'
<1> SUFFICES ASSUME IInv, ExtendFull PROVE IInv'
  OBVIOUS
<1>1. fats' = fats /\ todo' = todo /\ broken' = TRUE
  BY DEF ExtendFull
<1> QED BY <1>1 DEF IInv, Acyclic, NoCircle, Pending, CallOK,
                         LinkCall, LinkOK, FatCall, LeadsNowhere

\* modify_fat goes on as the writes of one sector to every copy.
LEMMA ModifyKeeps == IInv /\ DoModifyFat => IInv'
<1> SUFFICES ASSUME IInv, DoModifyFat PROVE IInv'
  OBVIOUS
<1> USE TypeFacts
<1> DEFINE c == Args[1]
           w == Args[2]
           img == [fats[1] EXCEPT ![c] = w]
           cs == [k \in 1..NumFats |-> WriteFat(k, img)]
<1>1. /\ todo # <<>> /\ ~broken /\ Head(todo).f = "modify_fat"
      /\ fats' = fats /\ broken' = broken
      /\ Becomes(IF c < Root THEN <<>> ELSE cs)
  BY DEF DoModifyFat, Running, Does, Computes
<1>2. /\ Len(todo) \in Nat /\ 1 \in 1..Len(todo) /\ Head(todo) = todo[1]
      /\ CallOK(Head(todo)) /\ (LinkCall(Head(todo)) => LinkOK(1))
  BY <1>1, First DEF IInv
<1>3. w \in Links /\ todo[1].args[1] = c /\ todo[1].args[2] = w
  BY <1>1, <1>2 DEF CallOK, Args
<1>4. w \in Entries => LinkCall(todo[1]) /\ c # w /\ fats[1][w] \notin Entries
  BY <1>1, <1>2, <1>3 DEF LinkCall, LinkOK
<1> HIDE DEF c, w
<1>5. img \in [Entries -> Links] /\ NoCircle(img)
  <2>1. fats[1] \in [Entries -> Links] /\ NoCircle(fats[1])
    BY DEF IInv, Acyclic
  <2>2. img \in [Entries -> Links]
    BY <1>3, <2>1
  <2>3. ASSUME w \in Entries PROVE NoCircle(img)
    <3>1. c # w /\ fats[1][w] \notin Entries
      BY <1>4, <2>3
    <3> QED BY ONLY <2>1, <2>3, <3>1, LinkKeeps, Zenon
  <2>4. ASSUME w \in {0, EOC} PROVE NoCircle(img)
    BY ONLY <2>1, <2>4, CutKeeps, Zenon
  <2> QED BY <1>3, <2>2, <2>3, <2>4 DEF Links
<1>6. ASSUME c < Root PROVE Pending'
  <2>1. Becomes(<<>>)
    BY <1>1, <1>6
  <2>2. ASSUME NEW i \in 2..Len(todo), LinkCall(todo[i])
        PROVE  fats'[1][todo[i].args[2]] \notin Entries
    <3>1. i \in 1..Len(todo)
      BY <1>2
    <3>2. LinkOK(i)
      BY <2>2, <3>1 DEF IInv, Pending
    <3> QED BY <1>1, <3>2 DEF LinkOK
  <2> QED BY <1>1, <2>1, <2>2, PopKeeps DEF IInv
<1>7. ASSUME ~(c < Root) PROVE Pending'
  <2>1. todo' = cs \o Tail(todo)
    BY <1>1, <1>7 DEF Becomes
  <2>2. NumFats \in Nat /\ cs \in Seq(Range(cs)) /\ Len(cs) = NumFats
        /\ \A k \in 1..NumFats : cs[k] = WriteFat(k, img)
    <3> HIDE DEF img
    <3>1. NumFats \in Nat
      BY FatAssumption
    <3>2. cs \in Seq({WriteFat(k, img) : k \in 1..NumFats})
      BY <3>1
    <3>3. cs \in Seq(Range(cs))
      BY <3>2, SeqOfRange
    <3>4. Len(cs) = NumFats
      BY <3>1
    <3>5. \A k \in 1..NumFats : cs[k] = WriteFat(k, img)
      OBVIOUS
    <3> QED BY <3>1, <3>3, <3>4, <3>5
  <2> HIDE DEF cs, img
  <2>3. Follows(todo', todo, cs)
    <3>1. todo \in Seq(Range(todo))
      BY DEF IInv, Pending
    <3> QED BY <1>1, <2>1, <2>2, <3>1, Stacked
  <2>4. /\ todo' \in Seq(Range(todo'))
        /\ \A i \in 1..Len(todo') :
             \/ i \in 1..NumFats /\ todo'[i] = WriteFat(i, img)
             \/ /\ i > NumFats /\ i - NumFats + 1 \in 2..Len(todo)
                /\ todo'[i] = todo[i - NumFats + 1]
    BY <1>2, <2>2, <2>3 DEF Follows
  <2>5. \A k \in 1..NumFats :
          LET t == WriteFat(k, img)
          IN  CallOK(t) /\ FatCall(t) /\ ~LinkCall(t) /\ t.args[2] = img
    BY <1>5 DEF WriteFat, Call, CallOK, FatCall, LinkCall
  <2>6. ASSUME NEW i \in 1..Len(todo')
        PROVE  CallOK(todo'[i]) /\ (LinkCall(todo'[i]) => i > NumFats)
    BY <1>2, <2>4, <2>5 DEF IInv, Pending
  <2>7. ASSUME NEW i \in 1..Len(todo'), LinkCall(todo'[i])
        PROVE  /\ todo'[i].args[1] # todo'[i].args[2]
               /\ fats'[1][todo'[i].args[2]] \notin Entries
               /\ \A j \in 1..i-1 : /\ FatCall(todo'[j]) /\ ~LinkCall(todo'[j])
                                    /\ LeadsNowhere(todo'[i].args[2], todo'[j])
    <3> DEFINE m == i - NumFats + 1
               v == todo[m].args[2]
    <3>1. m \in 2..Len(todo) /\ todo'[i] = todo[m] /\ i > NumFats
      BY <2>4, <2>6, <2>7, <2>2
    <3>2. LinkOK(m) /\ v \in Entries /\ 1 \in 1..m-1
      <4>1. m \in 1..Len(todo) /\ LinkCall(todo[m]) /\ 1 \in 1..m-1
        BY <1>2, <2>7, <3>1
      <4> QED BY <4>1 DEF IInv, Pending, LinkCall
    <3>3. img[v] \notin Entries
      <4>1. ~LinkCall(todo[1]) /\ fats[1][v] \notin Entries
        BY <3>2 DEF LinkOK
      <4>2. w \notin Entries
        BY <1>4, <4>1
      <4> QED BY <4>1, <4>2, <3>2, <1>3 DEF img, IInv
    <3>4. ASSUME NEW j \in 1..i-1
          PROVE  /\ FatCall(todo'[j]) /\ ~LinkCall(todo'[j])
                 /\ LeadsNowhere(v, todo'[j])
      <4>1. CASE j \in 1..NumFats /\ todo'[j] = WriteFat(j, img)
        BY <2>5, <3>3, <4>1 DEF LeadsNowhere
      <4>2. CASE /\ j > NumFats /\ j - NumFats + 1 \in 2..Len(todo)
                 /\ todo'[j] = todo[j - NumFats + 1]
        <5>1. j - NumFats + 1 \in 1..m-1
          BY <2>2, <4>2
        <5> QED BY <3>2, <4>2, <5>1 DEF LinkOK
      <4>3. j \in 1..Len(todo')
        OBVIOUS
      <4> QED BY <2>4, <4>1, <4>2, <4>3
    <3> QED BY <1>1, <3>1, <3>2, <3>4 DEF LinkOK
  <2> QED BY <2>4, <2>6, <2>7 DEF Pending, CallOK, LinkCall, LinkOK, FatCall, LeadsNowhere
<1> QED BY <1>1, <1>6, <1>7 DEF IInv, Acyclic, NoCircle

\* A command begins with calls that lead to no link at once.
LEMMA StartPends ==
  ASSUME NEW cs, Harmless(cs), todo' = cs
  PROVE  Pending'
<1>1. ASSUME NEW i \in 1..Len(todo')
      PROVE  CallOK(todo'[i]) /\ ~LinkCall(todo'[i])
  BY TypeFacts DEF Harmless, CallOK, LinkCall, Links
<1>2. todo' \in Seq(Range(todo'))
  BY DEF Harmless
<1> QED BY <1>1, <1>2 DEF Pending, CallOK, LinkCall

\* The commands begin with harmless calls,
LEMMA StartKeeps ==
  ASSUME IInv, NEW cs, Harmless(cs), todo' = cs, fats' = fats, broken' = broken
  PROVE  IInv'
<1>1. Pending'
  BY StartPends
<1> QED BY <1>1 DEF IInv, Acyclic, NoCircle

\* A crash drops all calls.
LEMMA CrashKeeps == IInv /\ Crash => IInv'
<1> SUFFICES ASSUME IInv, Crash PROVE IInv'
  OBVIOUS
<1>1. todo' = <<Look>> /\ broken' = FALSE /\ fats' = fats
  BY DEF Crash
<1>2. Harmless(<<Look>>)
  BY SafeCalls, HarmlessTuples
<1>3. Pending'
  BY <1>1, <1>2, StartPends
<1> QED BY <1>1, <1>3 DEF IInv, Acyclic, NoCircle

\* each of them,
LEMMA CommandKeeps == IInv /\ Command => IInv'
<1> SUFFICES ASSUME IInv, Command PROVE IInv'
  OBVIOUS
<1>1. ASSUME NEW name, NEW p, NEW t, NEW cs, Harmless(cs), Start(name, p, t, cs)
      PROVE  IInv'
  BY <1>1, StartKeeps DEF Start
<1> USE SafeCalls, HarmlessTuples
<1>2. ASSUME NEW p, cmd_touch(p) PROVE IInv'
  BY <1>1, <1>2 DEF cmd_touch
<1>3. ASSUME NEW p, cmd_mkdir(p) PROVE IInv'
  BY <1>1, <1>3 DEF cmd_mkdir
<1>4. ASSUME NEW p, cmd_rm(p) PROVE IInv'
  BY <1>1, <1>4 DEF cmd_rm
<1>5. ASSUME NEW p, cmd_rm_r(p) PROVE IInv'
  BY <1>1, <1>5 DEF cmd_rm_r
<1>6. ASSUME NEW p, NEW t, write_editor_buffer(p, t) PROVE IInv'
  BY <1>1, <1>6 DEF write_editor_buffer
<1> QED BY <1>2, <1>3, <1>4, <1>5, <1>6 DEF Command

\* The disk at first has no links.
LEMMA InitInv == Init => IInv
<1> SUFFICES ASSUME Init PROVE IInv
  OBVIOUS
<1> USE TypeFacts
<1>1. fats \in [1..NumFats -> [Entries -> Links]]
  BY DEF Init, Links
<1>2. \A c \in Entries : fats[1][c] \notin Entries
  BY DEF Init
<1>3. Acyclic
  BY <1>2 DEF Acyclic, NoCircle
<1>4. Pending
  BY DEF Init, Pending
<1> QED BY <1>1, <1>3, <1>4 DEF Init, IInv

\* Every step keeps the invariant.
LEMMA NextInv == IInv /\ [Next]_vars => IInv'
<1> SUFFICES ASSUME IInv, [Next]_vars PROVE IInv'
  OBVIOUS
<1>1. CASE Command
  BY <1>1, CommandKeeps
<1>2. CASE Step
  <2>1. Cold => IInv'
    BY ColdKeeps
  <2> QED BY <1>2, <2>1, ColdActions, WriteFatKeeps, ModifyKeeps, ExtendKeeps, ExtendFullKeeps
          DEF Step
<1>3. CASE LoseWrite
  BY <1>3, LoseKeeps
<1>4. CASE Crash
  BY <1>4, CrashKeeps
<1>5. CASE UNCHANGED vars
  BY <1>5 DEF vars, IInv, Acyclic, NoCircle, Pending, CallOK,
              LinkCall, LinkOK, FatCall, LeadsNowhere
<1>6. CASE DoLook
  BY <1>6, ColdActions, ColdKeeps
<1> QED BY <1>1, <1>2, <1>3, <1>4, <1>5, <1>6 DEF Next

\* The invariant: what is still to be written to the FAT makes no circle.
THEOREM Invariance == Spec => []IInv
<1>1. Init => IInv
  BY InitInv
<1>2. IInv /\ [Next]_vars => IInv'
  BY NextInv
<1> QED BY <1>1, <1>2, PTL DEF Spec

\* No chain of clusters ever leads back into itself, whatever writes were lost
\* and wherever the machine was switched off: every walk along the FAT ends
\* (get_from_fat's loops, modify_fat, extend_file, delete_file, create_file).
THEOREM NoEndlessWalk == Spec => []Acyclic
<1>1. IInv => Acyclic
  BY DEF IInv
<1> QED BY <1>1, Invariance, PTL

-----------------------------------------------------------------------------
(* The tree.  As long as the machine has not been switched off and no write *)
(* was lost, the disk is sound (DiskSound), and each call still to be made  *)
(* is one that keeps it so (CallSound): Good is the inductive invariant     *)
(* behind NotShared.  fat, dat, td and rt stand for fats[1], data, todo and *)
(* ret, so that the facts about a step speak of two of each.                *)

\* What a chain reaches, and a cluster read as a row of entries.
Reach(fat, c) == Range(ChainIn(fat, c))
RowFrom(x) == IF x \in Pieces THEN [s \in 1..Slots |-> TextEntry] ELSE x

\* Only text reads as an entry named so.
TextIsText(row) == \A s \in 1..Slots : row[s].name = "text" => row[s].cluster = EOC /\ row[s].dir = FALSE

\* The places of entries, the entry at one, and the places in use.
Places == [cluster : Entries, slot : 1..Slots]
AtIn(dat, l) == RowFrom(dat[l.cluster])[l.slot]
Known == Names \cup {"kernel"}
InUse(e) == e.name \in Known
UsedIn(dat) == {l \in Places : InUse(AtIn(dat, l))}

\* No circle, no two links to the same cluster, none to the root or to a free
\* cluster.
FatSound(fat) ==
  /\ fat \in [Entries -> Links] /\ NoCircle(fat)
  /\ \A c, d \in Entries : fat[c] = fat[d] /\ fat[c] \in Entries => c = d
  /\ \A c \in Entries : fat[c] \in Entries => fat[c] # Root /\ fat[fat[c]] # 0
  /\ fat[Root] # 0

\* A cluster holds a row of entries or a piece of text.
RowsSound(dat) ==
  /\ dat \in [Entries -> Rows \cup Pieces]
  /\ \A c \in Entries : TextIsText(RowFrom(dat[c]))

\* An entry in use lies in a cluster in use and has a head of its own, to which
\* nothing links; what a file's chain holds is no entry.
HeadsSound(fat, dat) ==
  /\ \A l \in UsedIn(dat) : /\ AtIn(dat, l).cluster \in Entries \ {Root}
                            /\ \A c \in Entries : fat[c] # AtIn(dat, l).cluster
                            /\ fat[l.cluster] # 0
  /\ \A l, m \in UsedIn(dat) : AtIn(dat, l).cluster = AtIn(dat, m).cluster => l = m
  /\ \A l, m \in UsedIn(dat) : ~AtIn(dat, l).dir => m.cluster \notin Reach(fat, AtIn(dat, l).cluster)

\* A name occurs once in a directory; the kernel's only in the root, where it
\* stays.
NamesSound(fat, dat) ==
  /\ \A v \in Entries, l, m \in UsedIn(dat) :
        l.cluster \in Reach(fat, v) /\ m.cluster \in Reach(fat, v)
        /\ AtIn(dat, l).name = AtIn(dat, m).name => l = m
  /\ \A l \in UsedIn(dat) : AtIn(dat, l).name = "kernel" => l = [cluster |-> Root, slot |-> 1]
  /\ Kernel => AtIn(dat, [cluster |-> Root, slot |-> 1]).name = "kernel"

DiskSound(fat, dat) == FatSound(fat) /\ RowsSound(dat) /\ HeadsSound(fat, dat) /\ NamesSound(fat, dat)

\* The directory at v has a directory n, which begins at x.
Leads(fat, dat, v, n, x) ==
  \E l \in UsedIn(dat) : /\ l.cluster \in Reach(fat, v)
                         /\ AtIn(dat, l).name = n /\ AtIn(dat, l).dir /\ AtIn(dat, l).cluster = x

\* g are the directories that the path w goes through.
IsWay(fat, dat, g, w) ==
  /\ g \in [0..Len(w) -> Entries] /\ g[0] = Root
  /\ \A k \in 1..Len(w) : Leads(fat, dat, g[k-1], w[k], g[k])

-----------------------------------------------------------------------------
(* The calls *)

\* The calls that free a chain, and the one that takes the entry at l away.
FreeCall(t) == FatCall(t) \/ t.f = "free_chain"
Removes(t, l) == /\ t.f = "write_data" /\ t.args[1] = l.cluster
                 /\ ~InUse(RowFrom(t.args[2])[l.slot])

\* The call that sets the entry of c to w, before or after it is expanded.
Sets(fat, t, c, w) ==
  \/ t.f = "modify_fat" /\ t.args[1] = c /\ t.args[2] = w
  \/ t.f = "write_fat" /\ t.args[1] = 1 /\ t.args[2] = [fat EXCEPT ![c] = w]

\* An entry in use whose head is free is a debt: the call t ends it, by marking
\* the head or by taking the entry away, and only FAT writes come before t.
Pays(fat, dat, t, l) == Removes(t, l) \/ Sets(fat, t, AtIn(dat, l).cluster, EOC)
Paid(fat, dat, td, l) ==
  \E i \in 1..Len(td) : Pays(fat, dat, td[i], l) /\ \A j \in 1..i-1 : FreeCall(td[j])

Debts(fat, dat, td) == \A l \in UsedIn(dat) : fat[AtIn(dat, l).cluster] = 0 => Paid(fat, dat, td, l)

\* The call t frees, changes or orphans the cluster x.
Takes(fat, dat, t, x) ==
  \/ t.f = "free_chain" /\ t.args[1] = x
  \/ t.f = "modify_fat" /\ t.args[1] = x
  \/ t.f = "write_fat" /\ t.args[1] = 1 /\ t.args[2][x] # fat[x]
  \/ \E l \in UsedIn(dat) : Removes(t, l) /\ AtIn(dat, l).cluster = x

\* Nothing is being deleted or about to be.
Calm(td) == \A i \in 1..Len(td) :
              td[i].f \notin {"delete_file", "delete_inside", "free_chain", "create_file", "find_new"}

\* What is deleted before the call i lies below the directory p.
Below(td, i, p) == \A j \in 1..i-1 : td[j].f \in {"delete_file", "delete_inside"} =>
                                       Len(td[j].args[1]) > Len(p)

\* The call before i takes the entry at l, in the directory p, away.
Covered(dat, td, i, p, l) ==
  i > 1 /\ \/ td[i-1].f = "delete_file" /\ td[i-1].args[1] = Append(p, AtIn(dat, l).name)
           \/ Removes(td[i-1], l)

\* What waits below is the rest of the command.
Rest(td, i) == \A j \in i+1..Len(td) : td[j].f \in {"write_to_file", "look"}

\* The paths that delete_file is called with.
AllPaths == Seq(Known \cup {"text"}) \ {<<>>}

\* What is in a directory is being deleted: all that is still there is in the
\* rest of the list or being deleted now, and nothing touches the way to it.
InsideOK(fat, dat, td, i) ==
  LET p == td[i].args[1]  list == td[i].args[2]  n == td[i].args[3]
      h == td[i+1].args[1] c == td[i+2].args[1]
  IN  /\ i + 2 <= Len(td) /\ td[i+1].f = "free_chain" /\ td[i+2].f = "write_data"
      /\ p \in AllPaths /\ n \in Nat \ {0} /\ list \in Seq(Range(list))
      /\ \A m \in 1..Len(list) : list[m].name \in Known \cup Unused \cup {"text"} /\ list[m].name # "kernel"
      /\ i > 1 => list # <<>> /\ td[i-1].f \in {"delete_file", "write_data"}
      /\ Below(td, i, p)
      /\ list # <<>> => \E g \in [0..Len(p) -> Entries] : /\ IsWay(fat, dat, g, p) /\ g[Len(p)] = h
                               /\ c \in Reach(fat, g[Len(p)-1])
                               /\ \A j \in 1..i-1, k \in 0..Len(p) : ~Takes(fat, dat, td[j], g[k])
      /\ \A l \in UsedIn(dat) : l.cluster \in Reach(fat, h) =>
            \/ \E m \in 1..Len(list) : m >= n /\ list[m].name = AtIn(dat, l).name
            \/ Covered(dat, td, i, p, l)

\* A chain is being freed: its entry goes next, and nothing in use is in it.
FreeOK(fat, dat, td, i) ==
  LET x == td[i].args[1]
  IN  /\ i + 1 <= Len(td) /\ td[i+1].f = "write_data"
      /\ x \in Links /\ x # Root
      /\ \A l \in UsedIn(dat) : AtIn(dat, l).cluster = x => Removes(td[i+1], l)
      /\ \A y \in Entries : fat[y] = x /\ x \in Entries =>
           \E j \in 1..i-1 : Sets(fat, td[j], y, 0)
      /\ \/ i > 1 /\ td[i-1].f = "delete_inside"
         \/ /\ \A j \in 1..i-1 : FatCall(td[j])
            /\ \A l \in UsedIn(dat) : l.cluster \notin Reach(fat, x)

\* v begins a directory; x is in one that has nothing named n.
DirHead(dat, v) == v = Root \/ \E l \in UsedIn(dat) : AtIn(dat, l).dir /\ AtIn(dat, l).cluster = v
NoName(fat, dat, v, n) == \A l \in UsedIn(dat) : l.cluster \in Reach(fat, v) => AtIn(dat, l).name # n
InDir(fat, dat, x, n) ==
  \E v \in Entries : DirHead(dat, v) /\ x \in Reach(fat, v) /\ NoName(fat, dat, v, n)

\* Nothing links to w, and it neither begins nor holds anything in use.
Unclaimed(fat, dat, w) == /\ w \in Entries \ {Root} /\ \A c \in Entries : fat[c] # w
                          /\ \A l \in UsedIn(dat) : AtIn(dat, l).cluster # w /\ l.cluster # w

\* A change of the FAT about to be made: an end mark where no link is, a free
\* mark where nothing begins any more, a link to a cluster that is nobody's.
EndOK(fat, td, c) == c \in Entries => fat[c] \notin Entries /\ Calm(td)
ZeroOK(fat, dat, td, c) ==
  /\ ~Calm(td)
  /\ c \in Entries \ {Root} /\ \A d \in Entries : fat[d] # c
  /\ \A l \in UsedIn(dat) : l.cluster # c /\ (AtIn(dat, l).cluster = c => Paid(fat, dat, td, l))
LinkOn(fat, dat, td, i, c, w) ==
  /\ Calm(td) /\ Unclaimed(fat, dat, w) /\ fat[w] \notin Entries
  /\ \A j \in i+1..Len(td) : td[j].f # "modify_fat"
  /\ c \in Entries => c # w /\ fat[c] \notin Entries

ChangeOK(fat, dat, td, i, c, w) ==
  /\ w = EOC => EndOK(fat, td, c)
  /\ w = 0 => ZeroOK(fat, dat, td, c)
  /\ w \in Entries => LinkOn(fat, dat, td, i, c, w)

ModifyOK(fat, dat, td, i) ==
  LET c == td[i].args[1]  w == td[i].args[2]
  IN  /\ c \in Entries \cup {0} /\ w \in Links
      /\ w = 0 => i = 1
      /\ ChangeOK(fat, dat, td, i, c, w)
      /\ w \in Entries => \/ fat[w] # 0
                          \/ \E j \in 1..i-1 : Sets(fat, td[j], w, EOC)

WriteFatOK(fat, dat, td, i) ==
  td[i].args[1] = 1 =>
    /\ i = 1
    /\ \E c \in Entries, w \in Links : /\ td[i].args[2] = [fat EXCEPT ![c] = w]
                                       /\ ChangeOK(fat, dat, td, i, c, w)
                                       /\ w \in Entries => fat[w] # 0

\* A write to a cluster: it only takes entries away, or it adds one.
Thins(dat, c, img) ==
  \A s \in 1..Slots : \/ ~InUse(RowFrom(img)[s])
                      \/ RowFrom(img)[s] = AtIn(dat, [cluster |-> c, slot |-> s])
Adds(fat, dat, td, i, c, img) ==
  \E s \in 1..Slots, n \in Names, d \in BOOLEAN, new \in Entries :
    /\ ~InUse(AtIn(dat, [cluster |-> c, slot |-> s]))
    /\ img = [RowFrom(dat[c]) EXCEPT ![s] = Entry(n, d, new)]
    /\ fat[new] = 0 /\ Unclaimed(fat, dat, new)
    /\ fat[c] # 0 /\ InDir(fat, dat, c, n)
    /\ i + 1 <= Len(td) /\ td[i+1] = modify_fat(new, EOC)
    /\ Calm(td) /\ Rest(td, i+1)
    /\ \A j \in 1..i-1 : td[j].f = "write_data"

\* Below nothing depends on which directories there are.
Lone(td, i) ==
  \A j \in i+1..Len(td) : /\ td[j].f # "entry_in_new"
                          /\ td[j].f = "write_data" => td[j].args[1] \notin Entries

WriteOK(fat, dat, td, i) ==
  LET c == td[i].args[1]  img == td[i].args[2]
  IN  c \in Entries =>
      /\ img \in Rows \cup Pieces /\ TextIsText(RowFrom(img))
      /\ (c = Root /\ Kernel) => RowFrom(img)[1].name = "kernel"
      /\ \A j \in 1..i-1 : td[j].f = "write_data" => td[j].args[1] # c
      /\ \/ /\ Thins(dat, c, img)
            /\ Calm(td) => (\A l \in UsedIn(dat) : l.cluster # c) \/ Lone(td, i)
            /\ ~Calm(td) /\ i > 1 => td[i-1].f = "free_chain"
         \/ Adds(fat, dat, td, i, c, img)

\* A new entry is to be made: whatever has its name is being deleted.
CreateAtOK(fat, dat, td, i) ==
  LET p == td[i].args[1]
  IN  /\ p \in Paths /\ td[i].args[2] \in BOOLEAN /\ Rest(td, i)
      /\ Below(td, i, Front(p))
      /\ \A g \in [0..Len(p)-1 -> Entries] : IsWay(fat, dat, g, Front(p)) =>
           \A l \in UsedIn(dat) :
             l.cluster \in Reach(fat, g[Len(p)-1]) /\ AtIn(dat, l).name = Last(p) =>
               Covered(dat, td, i, Front(p), l)

\* x is, or will be linked to, in a directory that has nothing named n.
ToNew(fat, dat, td, i, n, x) ==
  \/ InDir(fat, dat, x, n)
  \/ \E j \in 1..i-1, y \in Entries : InDir(fat, dat, y, n) /\ Sets(fat, td[j], y, x)

\* A new entry waits for the cluster that its directory gets.
InNewOK(fat, dat, td, rt, i) ==
  LET p == td[i].args[1]
  IN  /\ p \in Paths /\ td[i].args[2] \in BOOLEAN /\ Calm(td) /\ Rest(td, i)
      /\ i = 1 => rt = 1 \/ (InDir(fat, dat, rt, Last(p)) /\ \A l \in UsedIn(dat) : l.cluster # rt)
      /\ i > 1 => \/ /\ i = 2 /\ td[1].f = "extend_file"
                     /\ td[1].args[1] \in Entries /\ DirHead(dat, td[1].args[1]) /\ NoName(fat, dat, td[1].args[1], Last(p))
                  \/ /\ td[i-1].f = "return"
                     /\ LET x == td[i-1].args[1] IN
                        /\ \A l \in UsedIn(dat) : l.cluster # x
                        /\ ToNew(fat, dat, td, i, Last(p), x)

\* A new entry's place is unused, and its name new.
PlaceOK(fat, dat, td, i) ==
  LET loc == td[i].args[1]  p == td[i].args[2]
  IN  /\ i = 1 /\ Calm(td) /\ Rest(td, 1) /\ p \in Paths /\ td[i].args[3] \in BOOLEAN /\ loc \in Places
      /\ InDir(fat, dat, loc.cluster, Last(p))
      /\ ~InUse(AtIn(dat, loc))

\* The i-th call still to be made, by its kind.
CallSound(fat, dat, td, rt, i) ==
  LET f == td[i].f  a == td[i].args IN
  /\ f = "write_fat" => WriteFatOK(fat, dat, td, i)
  /\ f = "modify_fat" => ModifyOK(fat, dat, td, i)
  /\ f = "write_data" => WriteOK(fat, dat, td, i)
  /\ f = "delete_inside" => InsideOK(fat, dat, td, i)
  /\ f = "free_chain" => FreeOK(fat, dat, td, i)
  /\ f = "delete_file" => i = 1 /\ a[1] \in AllPaths /\ Last(a[1]) # "kernel"
  /\ f = "create_file" => i = 1 /\ Rest(td, i) /\ a[1] \in Paths /\ a[2] \in BOOLEAN
  /\ f = "find_new" => CreateAtOK(fat, dat, td, i)
  /\ f = "new_entry" => PlaceOK(fat, dat, td, i)
  /\ f = "entry_in_new" => InNewOK(fat, dat, td, rt, i)
  /\ f = "extend_file" => /\ i = 1 /\ Calm(td) /\ a[1] \in Links \cup {1}
                        /\ 2 <= Len(td) /\ td[2].f \in {"entry_in_new", "grow"} /\ Rest(td, 2)
  /\ f = "return" => Calm(td) /\ a[1] \in Entries
  /\ f = "write_to_file" => Rest(td, i) /\ a[1] \in Paths /\ a[2] \in Texts
  /\ f = "grow" => Rest(td, i) /\ Calm(td) /\ a[1] \in Nat /\ a[2] \in Texts /\ a[3] \in Links \ {Root}
  /\ f = "fill" => Rest(td, i) /\ Calm(td) /\ a[1] \in (Links \cup {-1}) \ {Root} /\ a[2] \in Nat \ {0} /\ a[3] \in Texts
  /\ f = "look" => Rest(td, i)
  /\ f \in {"write_fat", "modify_fat", "write_data", "delete_inside", "free_chain", "delete_file", "create_file",
            "find_new", "new_entry", "entry_in_new", "extend_file", "return", "write_to_file", "grow",
            "fill", "look"}

AllSound(fat, dat, td, rt) == \A i \in 1..Len(td) : CallSound(fat, dat, td, rt, i)

Good(fat, dat, td, rt) ==
  /\ DiskSound(fat, dat)
  /\ Debts(fat, dat, td)
  /\ td \in Seq(Range(td))
  /\ AllSound(fat, dat, td, rt)
  /\ rt \in Entries \cup {0, 1}

-----------------------------------------------------------------------------
(* Induction and recursion *)

\* A set of numbers that is not empty has a smallest one.
LEMMA LeastOf ==
  ASSUME NEW S \in SUBSET Nat, S # {}
  PROVE  Min(S) \in S /\ \A y \in S : Min(S) <= y
<1>1. PICK x \in S : \A y \in S : ~(<<y, x>> \in OpToRel(<, Nat))
  BY WFMin, NatLessThanWellFounded
<1>2. ASSUME NEW y \in S PROVE x <= y
  <2>1. ~(y < x)
    BY <1>1 DEF OpToRel
  <2> QED BY <2>1
<1>3. \E z \in S : \A y \in S : z <= y
  BY <1>1, <1>2
<1> QED BY <1>3 DEF Min

\* Induction, over a set.
LEMMA AllNats ==
  ASSUME NEW S \in SUBSET Nat, 0 \in S, \A k \in S : k + 1 \in S
  PROVE  S = Nat
<1> SUFFICES ASSUME NEW n \in Nat, n \notin S PROVE FALSE
  OBVIOUS
<1>1. PICK x \in Nat \ S : \A y \in Nat \ S : x <= y
  <2>1. Nat \ S \in SUBSET Nat /\ Nat \ S # {}
    OBVIOUS
  <2> QED BY <2>1, LeastOf
<1>2. x - 1 \in Nat /\ x - 1 \notin Nat \ S
  BY <1>1
<1> QED BY <1>1, <1>2

\* A function given by its first value and by the next value of each.
Iterates(f, n, first, step) ==
  f[0] = first /\ \A k \in 1..n : f[k] = step[f[k-1]]

\* Two functions that go on in the same way agree.
LEMMA IteratesAgree ==
  ASSUME NEW first, NEW step, NEW m \in Nat, NEW n \in Nat, NEW f, NEW g,
         Iterates(f, m, first, step), Iterates(g, n, first, step), NEW p \in Nat, p <= m, p <= n
  PROVE  f[p] = g[p]
<1> DEFINE S == {k \in Nat : k <= m /\ k <= n => f[k] = g[k]}
<1>1. 0 \in S
  BY DEF Iterates
<1>2. ASSUME NEW k \in S PROVE k + 1 \in S
  <2> SUFFICES ASSUME k + 1 <= m, k + 1 <= n PROVE f[k+1] = g[k+1]
    OBVIOUS
  <2>1. k \in Nat /\ f[k] = g[k] /\ k + 1 \in 1..m /\ k + 1 \in 1..n /\ (k + 1) - 1 = k
    OBVIOUS
  <2>2. f[k+1] = step[f[k]] /\ g[k+1] = step[g[k]]
    BY <2>1 DEF Iterates
  <2> QED BY <2>1, <2>2
<1>3. S = Nat
  <2> HIDE DEF S
  <2>1. S \in SUBSET Nat
    BY DEF S
  <2> QED BY <1>1, <1>2, <2>1, AllNats
<1> QED BY <1>3

\* There is such a function up to every number.
LEMMA IteratesExist ==
  ASSUME NEW first, NEW step, NEW n \in Nat
  PROVE  \E f : Iterates(f, n, first, step)
<1> DEFINE S == {k \in Nat : \E f : Iterates(f, k, first, step)}
<1>1. 0 \in S
  <2>1. Iterates([i \in 0..0 |-> first], 0, first, step)
    BY DEF Iterates
  <2> QED BY <2>1
<1>2. ASSUME NEW k \in S PROVE k + 1 \in S
  <2>1. PICK f : Iterates(f, k, first, step)
    OBVIOUS
  <2>2. k \in Nat
    OBVIOUS
  <2> DEFINE g == [i \in 0..k+1 |-> IF i = k + 1 THEN step[f[k]] ELSE f[i]]
  <2>3. g[0] = first
    BY <2>1, <2>2 DEF Iterates
  <2>4. ASSUME NEW p \in 1..k+1 PROVE g[p] = step[g[p-1]]
    <3>1. p - 1 \in 0..k /\ g[p-1] = f[p-1]
      BY <2>2
    <3>2. CASE p = k + 1
      <4>1. p - 1 = k /\ g[p] = step[f[k]]
        BY <2>2, <3>2
      <4> QED BY <3>1, <4>1
    <3>3. CASE p # k + 1
      <4>1. p \in 1..k /\ g[p] = f[p]
        BY <2>2, <3>3
      <4> QED BY <2>1, <3>1, <4>1 DEF Iterates
    <3> QED BY <3>2, <3>3
  <2> HIDE DEF g
  <2>5. Iterates(g, k + 1, first, step)
    BY <2>3, <2>4 DEF Iterates
  <2> QED BY <2>2, <2>5
<1>3. S = Nat
  <2> HIDE DEF S
  <2>1. S \in SUBSET Nat
    BY DEF S
  <2> QED BY <1>1, <1>2, <2>1, AllNats
<1> QED BY <1>3

IsIteration(f, V, first, step) ==
  /\ f \in [Nat -> V] /\ f[0] = first
  /\ \A n \in Nat : f[n+1] = step[f[n]]

\* And one for all numbers.
LEMMA Iterated ==
  ASSUME NEW V, NEW first \in V, NEW step \in [V -> V]
  PROVE  \E f : IsIteration(f, V, first, step)
<1> DEFINE part(n) == CHOOSE g : Iterates(g, n, first, step)
           f == [n \in Nat |-> part(n)[n]]
<1>1. ASSUME NEW n \in Nat PROVE Iterates(part(n), n, first, step)
  BY IteratesExist
<1>2. f[0] = first
  <2>1. Iterates(part(0), 0, first, step)
    BY <1>1
  <2> QED BY <2>1 DEF Iterates
<1>3. ASSUME NEW p \in Nat PROVE f[p+1] = step[f[p]]
  <2> HIDE DEF part
  <2>1. Iterates(part(p), p, first, step) /\ Iterates(part(p+1), p + 1, first, step)
    BY <1>1
  <2>2. part(p)[p] = part(p+1)[p]
    BY <2>1, IteratesAgree
  <2>3. p + 1 \in 1..p + 1 /\ (p + 1) - 1 = p
    OBVIOUS
  <2>4. part(p+1)[p+1] = step[part(p+1)[p]]
    BY <2>1, <2>3 DEF Iterates
  <2> QED BY <2>2, <2>4
<1>4. f \in [Nat -> V]
  <2> DEFINE S == {n \in Nat : f[n] \in V}
  <2>0. f = [n \in Nat |-> f[n]]
    OBVIOUS
  <2> HIDE DEF f
  <2>1. 0 \in S
    BY <1>2
  <2>2. ASSUME NEW k \in S PROVE k + 1 \in S
    BY <1>3
  <2>3. S = Nat
    <3>1. S \in SUBSET Nat
      OBVIOUS
    <3> HIDE DEF S
    <3> QED BY <2>1, <2>2, <3>1, AllNats
  <2> QED BY <2>0, <2>3
<1> HIDE DEF f
<1> QED BY <1>2, <1>3, <1>4 DEF IsIteration

-----------------------------------------------------------------------------
(* Chains *)

Spans == [at : Int, most : Nat]
FromSpan(fat, f, w) ==
  IF InChain(w.at) /\ w.most > 0
    THEN <<w.at>> \o f[[at |-> EntryIn(fat, w.at), most |-> w.most - 1]]
    ELSE <<>>

\* What get_from_fat returns.
LEMMA EntryIsIn ==
  ASSUME NEW fat \in [Entries -> Links], NEW d
  PROVE  EntryIn(fat, d) \in Links \cup {-1} /\ EntryIn(fat, d) \in Int
<1>1. CASE d \in Entries
  <2>1. EntryIn(fat, d) = fat[d] /\ fat[d] \in Links
    BY <1>1 DEF EntryIn
  <2>2. Links \subseteq Int
    BY TypeFacts DEF Links
  <2> QED BY <2>1, <2>2
<1>2. CASE d \notin Entries
  BY <1>2 DEF EntryIn
<1> QED BY <1>1, <1>2

\* The recursive function of ChainIn is one.
LEMMA SpansExist ==
  ASSUME NEW fat \in [Entries -> Links]
  PROVE  \E f : f = [w \in Spans |-> FromSpan(fat, f, w)]
<1> DEFINE V == [Int -> Seq(Int)]
           put(g, d) == IF InChain(d) THEN <<d>> \o g[EntryIn(fat, d)] ELSE <<>>
           step == [g \in V |-> [d \in Int |-> put(g, d)]]
           first == [d \in Int |-> <<>>]
<1>1. first \in V
  OBVIOUS
<1>2. step \in [V -> V]
  <2>1. ASSUME NEW g \in V, NEW d \in Int PROVE put(g, d) \in Seq(Int)
    <3>0. EntryIn(fat, d) \in Int
      BY EntryIsIn
    <3>1. g[EntryIn(fat, d)] \in Seq(Int) /\ <<d>> \in Seq(Int)
      <4> HIDE DEF put, step, first
      <4> QED BY <3>0
    <3> DEFINE s == g[EntryIn(fat, d)]
    <3>2. s \in Seq(Int)
      BY <3>1
    <3> HIDE DEF s
    <3>3. <<d>> \o s \in Seq(Int)
      BY <3>1, <3>2
    <3> QED BY <3>3 DEF s
  <2> HIDE DEF put
  <2>2. ASSUME NEW g \in V PROVE [d \in Int |-> put(g, d)] \in V
    BY <2>1
  <2> HIDE DEF V
  <2> QED BY <2>2
<1>3. PICK G : IsIteration(G, V, first, step)
  <2> HIDE DEF V, step, first, put
  <2> QED BY <1>1, <1>2, Iterated
<1>3a. /\ G \in [Nat -> V] /\ G[0] = first
       /\ \A n \in Nat : G[n+1] = step[G[n]]
  <2> HIDE DEF V, step, first, put
  <2> QED BY <1>3 DEF IsIteration
<1> DEFINE f == [w \in Spans |-> G[w.most][w.at]]
<1>4. ASSUME NEW w \in Spans PROVE f[w] = FromSpan(fat, f, w)
  <2>1. w.at \in Int /\ w.most \in Nat
    BY DEF Spans
  <2>2. CASE w.most = 0
    <3>1. f[w] = <<>>
      BY <1>3a, <2>1, <2>2
    <3>2. ~(w.most > 0)
      BY <2>2
    <3> HIDE DEF f
    <3> QED BY <3>1, <3>2 DEF FromSpan
  <2>3. CASE w.most # 0
    <3>1. PICK n \in Nat : w.most = n + 1
      <4> HIDE DEF f, put, V, step, first
      <4>1. w.most - 1 \in Nat /\ w.most = (w.most - 1) + 1
        BY <2>1, <2>3
      <4> QED BY <4>1
    <3>2. w.most > 0 /\ w.most - 1 = n
      BY <3>1
    <3> DEFINE u == [at |-> EntryIn(fat, w.at), most |-> n]
    <3>3. u \in Spans
      BY EntryIsIn DEF Spans
    <3>4. f[u] = G[n][EntryIn(fat, w.at)]
      BY <3>3
    <3>5. G[n] \in V
      <4> HIDE DEF V, step, first, put, f
      <4> QED BY <1>3a
    <3>6. G[n+1][w.at] = put(G[n], w.at)
      <4>1. G[n+1] = step[G[n]]
        BY <1>3a
      <4> HIDE DEF put
      <4>2. step[G[n]][w.at] = put(G[n], w.at)
        BY <2>1, <3>5
      <4> HIDE DEF step
      <4> QED BY <4>1, <4>2
    <3>7. f[w] = put(G[n], w.at)
      <4> HIDE DEF put
      <4> QED BY <3>1, <3>6
    <3> HIDE DEF V, f, step
    <3> QED BY <3>2, <3>4, <3>7 DEF FromSpan
  <2> QED BY <2>2, <2>3
<1>5. f = [w \in Spans |-> f[w]]
  OBVIOUS
<1> HIDE DEF f
<1>6. f = [w \in Spans |-> FromSpan(fat, f, w)]
  BY <1>4, <1>5
<1> QED BY <1>6

\* The chains from each cluster on, with at most so many clusters.
IsSpan(fat, f) ==
  /\ \A w \in Spans : f[w] = FromSpan(fat, f, w)
  /\ \A c \in Int : ChainIn(fat, c) = f[[at |-> c, most |-> LastEntry]]

\* So that ChainIn is given by its recursion.
LEMMA SpanOf ==
  ASSUME NEW fat \in [Entries -> Links]
  PROVE  \E f : IsSpan(fat, f)
<1> DEFINE Is(f) == f = [w \in Spans |-> FromSpan(fat, f, w)]
           f == CHOOSE g : Is(g)
<1>1. PICK h : Is(h)
  BY SpansExist
<1>2. Is(f)
  <2> HIDE DEF Is
  <2> QED BY <1>1
<1>3. ASSUME NEW c \in Int PROVE ChainIn(fat, c) = f[[at |-> c, most |-> LastEntry]]
  BY DEF ChainIn, FromSpan, Spans
<1> HIDE DEF f
<1>4. \A w \in Spans : f[w] = FromSpan(fat, f, w)
  <2>1. f = [w \in Spans |-> FromSpan(fat, f, w)]
    BY <1>2
  <2> QED BY <2>1
<1> QED BY <1>3, <1>4 DEF IsSpan

-----------------------------------------------------------------------------
\* The clusters of a chain, one after the other.
Shape(fat, c, s) ==
  /\ s \in Seq(Entries) /\ Len(s) \in 1..LastEntry /\ s[1] = c
  /\ \A i \in 1..Len(s)-1 : fat[s[i]] = s[i+1]
  /\ fat[s[Len(s)]] \notin Entries

\* The walk from c on, also behind the end of its chain.
Walks(fat, c, g) ==
  /\ g \in [Nat -> Links \cup {-1}] /\ g[0] = c
  /\ \A n \in Nat : g[n+1] = EntryIn(fat, g[n])

\* There is a walk from every cluster.
LEMMA WalkExists ==
  ASSUME NEW fat \in [Entries -> Links], NEW c \in Entries
  PROVE  \E g : Walks(fat, c, g)
<1> DEFINE V == Links \cup {-1}
           step == [d \in V |-> EntryIn(fat, d)]
<1>1. c \in V /\ step \in [V -> V]
  BY EntryIsIn DEF Links
<1>2. PICK g : IsIteration(g, V, c, step)
  <2> HIDE DEF V, step
  <2> QED BY <1>1, Iterated
<1>3. g \in [Nat -> V] /\ g[0] = c
  BY <1>2 DEF IsIteration
<1>4. ASSUME NEW n \in Nat PROVE g[n+1] = EntryIn(fat, g[n])
  <2>1. g[n+1] = step[g[n]] /\ g[n] \in V
    BY <1>2, <1>3 DEF IsIteration
  <2> QED BY <2>1
<1> QED BY <1>3, <1>4 DEF Walks

\* Without circles a walk does not meet itself, so that it ends.
LEMMA WalkEnds ==
  ASSUME NEW fat \in [Entries -> Links], NoCircle(fat), NEW c \in Entries,
         NEW g, Walks(fat, c, g)
  PROVE  \E n \in 1..LastEntry : g[n] \notin Entries /\ \A m \in 0..n-1 : g[m] \in Entries
<1>1. /\ g \in [Nat -> Links \cup {-1}] /\ g[0] = c
      /\ \A n \in Nat : g[n] \in Entries => g[n+1] = fat[g[n]]
  BY DEF Walks, EntryIn
<1>2. LastEntry \in Nat /\ 2 <= LastEntry
  BY FatAssumption
<1>3. \E n \in 0..LastEntry-1 : g[n] \notin Entries
  <2> SUFFICES ASSUME \A n \in 0..LastEntry-1 : g[n] \in Entries PROVE FALSE
    OBVIOUS
  <2> DEFINE S == 0..LastEntry-1
             f == [n \in S |-> g[n]]
  <2>1. IsFiniteSet(S) /\ Cardinality(S) = LastEntry
    <3>1. 0 \in Int /\ LastEntry-1 \in Int /\ ~(0 > LastEntry-1) /\ (LastEntry-1)-0+1 = LastEntry
      BY <1>2
    <3> QED BY <3>1, FS_Interval
  <2>2. IsFiniteSet(Entries) /\ Cardinality(Entries) = LastEntry - 1
    <3>1. 2 \in Int /\ LastEntry \in Int /\ ~(2 > LastEntry) /\ LastEntry-2+1 = LastEntry-1
      BY <1>2
    <3> QED BY <3>1, FS_Interval DEF Entries
  <2>3. Cardinality(Entries) < Cardinality(S)
    BY <1>2, <2>1, <2>2
  <2>4. f \in [S -> Entries]
    OBVIOUS
  <2>5. PICK i, j \in S : i # j /\ f[i] = f[j]
    <3> HIDE DEF S, f
    <3> QED BY <2>1, <2>2, <2>3, <2>4, FS_PigeonHole
  <2>6. \E a, b \in S : a < b /\ g[a] = g[b]
    <3>1. i < j \/ j < i
      BY <2>5
    <3>2. g[i] = g[j]
      BY <2>5
    <3> QED BY <3>1, <3>2
  <2>7. PICK a, b \in S : a < b /\ g[a] = g[b]
    BY <2>6
  <2>7a. a \in Nat /\ b \in Nat /\ b <= LastEntry-1
    BY <1>2
  <2> DEFINE T == {g[n] : n \in a..b-1}
  <2>8. T \in SUBSET Entries /\ T # {}
    <3>1. a \in a..b-1
      BY <2>7
    <3>2. \A n \in a..b-1 : n \in S
      BY <2>7a, <1>2
    <3> QED BY <3>1, <3>2
  <2>9. ASSUME NEW d \in T PROVE fat[d] \in T
    <3>1. PICK n \in a..b-1 : d = g[n]
      OBVIOUS
    <3>2. n \in Nat /\ n \in S
      BY <2>7a, <1>2
    <3>3. fat[d] = g[n+1]
      BY <1>1, <3>1, <3>2
    <3>4. CASE n + 1 = b
      <4>1. fat[d] = g[a] /\ a \in a..b-1
        BY <2>7, <3>3, <3>4
      <4> QED BY <4>1
    <3>5. CASE n + 1 # b
      <4>1. n + 1 \in a..b-1
        BY <3>5
      <4> QED BY <3>3, <4>1
    <3> QED BY <3>4, <3>5
  <2> HIDE DEF T
  <2> QED BY <2>8, <2>9 DEF NoCircle
<1> DEFINE out == {n \in Nat : g[n] \notin Entries}
           L == Min(out)
<1>4. PICK e \in 0..LastEntry-1 : g[e] \notin Entries
  BY <1>3
<1>5. e \in Nat /\ e \in out
  BY <1>4, <1>2
<1>6. L \in out /\ \A y \in out : L <= y
  <2>1. out \in SUBSET Nat /\ out # {}
    BY <1>5
  <2> HIDE DEF out
  <2> QED BY <2>1, LeastOf
<1> HIDE DEF L
<1>7. L \in Nat /\ g[L] \notin Entries /\ L <= e
  BY <1>5, <1>6
<1>8. L # 0
  BY <1>1, <1>7
<1>9. ASSUME NEW m \in 0..L-1 PROVE g[m] \in Entries
  <2>1. m \in Nat /\ m < L
    BY <1>7
  <2> QED BY <1>6, <2>1
<1>10. L \in 1..LastEntry
  BY <1>7, <1>8, <1>2
<1> QED BY <1>7, <1>9, <1>10

\* The chain is the walk up to its end.
LEMMA ChainShape ==
  ASSUME NEW fat \in [Entries -> Links], NoCircle(fat), NEW c \in Entries
  PROVE  Shape(fat, c, ChainIn(fat, c))
<1>1. PICK g : Walks(fat, c, g)
  BY WalkExists
<1>2. PICK n \in 1..LastEntry : g[n] \notin Entries /\ \A m \in 0..n-1 : g[m] \in Entries
  BY <1>1, WalkEnds
<1>3. PICK f : IsSpan(fat, f)
  BY SpanOf
<1>4. /\ g \in [Nat -> Links \cup {-1}] /\ g[0] = c
      /\ \A k \in Nat : g[k+1] = EntryIn(fat, g[k])
  BY <1>1 DEF Walks
<1>5. LastEntry \in Nat /\ n \in Nat /\ n >= 1 /\ n <= LastEntry
  BY <1>2, FatAssumption
<1> DEFINE s(k) == [i \in 1..k |-> g[n-k+i-1]]
           S == {k \in Nat : k <= n => \A m \in Nat : m >= k => f[[at |-> g[n-k], most |-> m]] = s(k)}
<1>6. \A d \in Links \cup {-1} : d \notin Entries => ~InChain(d)
  BY TypeFacts DEF Links, InChain, Root, EOC
<1>7. \A d \in Entries : InChain(d)
  BY FatAssumption DEF InChain, Entries, Root, EOC
<1>8. \A k \in Nat : g[k] \in Int /\ g[k] \in Links \cup {-1}
  <2>1. \A d \in Links \cup {-1} : d \in Int
    BY TypeFacts DEF Links
  <2> HIDE DEF s, S
  <2> QED BY <1>4, <2>1
<1>9. 0 \in S
  <2> SUFFICES ASSUME NEW m \in Nat PROVE f[[at |-> g[n], most |-> m]] = s(0)
    BY <1>5
  <2>1. s(0) = <<>>
    OBVIOUS
  <2> DEFINE w == [at |-> g[n], most |-> m]
  <2>2. w \in Spans /\ w.at = g[n]
    BY <1>5, <1>8 DEF Spans
  <2>3. ~InChain(w.at)
    BY <1>2, <1>5, <1>6, <1>8, <2>2
  <2>4. f[w] = FromSpan(fat, f, w)
    BY <1>3, <2>2 DEF IsSpan
  <2>5. f[w] = <<>>
    <3> HIDE DEF w
    <3> QED BY <2>3, <2>4 DEF FromSpan
  <2> HIDE DEF s
  <2> QED BY <2>1, <2>5
<1>10. ASSUME NEW k \in S PROVE k + 1 \in S
  <2>0. k \in Nat
    OBVIOUS
  <2>0a. PICK q \in Nat : q = k + 1
    BY <2>0
  <2> SUFFICES ASSUME q <= n, NEW m \in Nat, m >= q
               PROVE  f[[at |-> g[n-q], most |-> m]] = s(q)
    BY <2>0, <2>0a
  <2>1. m - 1 \in Nat /\ m - 1 >= k /\ k <= n /\ n-q \in Nat /\ (n-q)+1 = n-k /\ n-k \in Nat /\ n-q \in 0..n-1
    BY <2>0, <2>0a, <1>5
  <2> DEFINE a == g[n-q]
             w == [at |-> a, most |-> m]
             u == [at |-> g[n-k], most |-> m-1]
  <2>2. f[u] = s(k)
    BY <2>1
  <2>3. a \in Entries /\ EntryIn(fat, a) = g[n-k]
    BY <1>2, <1>4, <2>1
  <2>4. w \in Spans /\ w.at = a /\ w.most = m
    BY <1>8, <2>1 DEF Spans
  <2>5. f[w] = FromSpan(fat, f, w)
    BY <1>3, <2>4 DEF IsSpan
  <2>6. f[w] = <<a>> \o f[u]
    <3>1. InChain(a) /\ m > 0
      BY <1>7, <2>0, <2>0a, <2>3
    <3> HIDE DEF a, w
    <3> QED BY <2>3, <2>4, <2>5, <3>1 DEF FromSpan
  <2>7. <<a>> \o s(k) = s(q)
    <3>1. s(k) \in Seq(Int) /\ Len(s(k)) = k
      <4>1. ASSUME NEW i \in 1..k PROVE g[n-k+i-1] \in Int
        <5>1. n-k+i-1 \in Nat
          BY <2>0, <2>0a, <2>1
        <5> QED BY <5>1, <1>8
      <4> QED BY <4>1, <2>0
    <3>2. s(q) \in Seq(Int) /\ Len(s(q)) = q
      <4>1. ASSUME NEW i \in 1..q PROVE g[n-q+i-1] \in Int
        <5>1. n-q+i-1 \in Nat
          BY <2>0, <2>0a, <2>1
        <5> QED BY <5>1, <1>8
      <4> QED BY <4>1, <2>0
    <3>3. <<a>> \in Seq(Int) /\ Len(<<a>>) = 1 /\ <<a>>[1] = a
      BY <1>8, <2>1
    <3>4. ASSUME NEW i \in 1..q
          PROVE  s(q)[i] = IF i <= 1 THEN <<a>>[i] ELSE s(k)[i-1]
      <4>1. CASE i = 1
        <5>1. n-q+i-1 = n-q
          BY <4>1, <2>0, <2>0a, <1>5
        <5> QED BY <4>1, <5>1, <2>0
      <4>2. CASE i # 1
        <5>1. i-1 \in 1..k /\ n-q+i-1 = n-k+(i-1)-1
          BY <4>2, <2>0, <2>0a, <1>5
        <5> QED BY <4>2, <5>1, <2>0
      <4> QED BY <4>1, <4>2
    <3> HIDE DEF s, a
    <3> DEFINE t == <<a>> \o s(k)
    <3>5. /\ t \in Seq(Int) /\ Len(t) = 1 + k
          /\ \A i \in 1..1+k : t[i] = IF i <= 1 THEN <<a>>[i] ELSE s(k)[i-1]
      <4> HIDE DEF t
      <4>1. /\ t \in Seq(Int) /\ Len(t) = Len(<<a>>) + Len(s(k))
            /\ \A i \in 1..Len(<<a>>) + Len(s(k)) : t[i] = IF i <= Len(<<a>>) THEN <<a>>[i] ELSE s(k)[i-Len(<<a>>)]
        BY <3>1, <3>3, ConcatProperties DEF t
      <4> QED BY <4>1, <3>1, <3>3
    <3> HIDE DEF t
    <3>6. Len(t) = Len(s(q)) /\ \A i \in 1..Len(t) : t[i] = s(q)[i]
      <4> DEFINE one == <<a>>
      <4>1. 1 + k = q /\ Len(t) = q /\ Len(s(q)) = q
        BY <3>2, <3>5, <2>0, <2>0a
      <4>2. /\ \A i \in 1..q : t[i] = IF i <= 1 THEN one[i] ELSE s(k)[i-1]
            /\ \A i \in 1..q : s(q)[i] = IF i <= 1 THEN one[i] ELSE s(k)[i-1]
        BY <3>4, <3>5, <4>1
      <4> HIDE DEF one
      <4>3. \A i \in 1..q : t[i] = s(q)[i]
        BY <4>2
      <4> QED BY <4>1, <4>3
    <3>7. t = s(q)
      BY <3>2, <3>5, <3>6, SeqEqual
    <3> QED BY <3>7 DEF t
  <2> HIDE DEF s
  <2> QED BY <2>2, <2>6, <2>7
<1>11. S = Nat
  <2> HIDE DEF S
  <2>1. S \in SUBSET Nat
    BY DEF S
  <2> QED BY <1>9, <1>10, <2>1, AllNats
<1>12. ChainIn(fat, c) = s(n)
  <2>1. ChainIn(fat, c) = f[[at |-> c, most |-> LastEntry]]
    <3>1. c \in Int
      BY TypeFacts
    <3> QED BY <1>3, <3>1 DEF IsSpan
  <2>2. f[[at |-> g[n-n], most |-> LastEntry]] = s(n)
    <3>1. n \in S /\ LastEntry >= n
      BY <1>5, <1>11
    <3> HIDE DEF s
    <3> QED BY <3>1, <1>5
  <2>3. g[n-n] = c
    BY <1>4, <1>5
  <2> HIDE DEF s
  <2> QED BY <2>1, <2>2, <2>3
<1> DEFINE ch == s(n)
<1>13. ASSUME NEW i \in 1..n PROVE ch[i] = g[i-1] /\ ch[i] \in Entries
  <2>1. n-n+i-1 = i-1 /\ i-1 \in 0..n-1
    BY <1>5
  <2> QED BY <2>1, <1>2
<1>14. ch \in Seq(Entries) /\ Len(ch) = n
  <2>1. ch = [i \in 1..n |-> ch[i]]
    OBVIOUS
  <2> HIDE DEF ch
  <2> QED BY <2>1, <1>13, <1>5
<1> HIDE DEF ch
<1>15. ASSUME NEW i \in 1..n-1 PROVE fat[ch[i]] = ch[i+1]
  <2>1. i \in 1..n /\ i+1 \in 1..n /\ (i+1)-1 = i /\ i-1 \in Nat /\ (i-1)+1 = i
    BY <1>5
  <2>2. g[(i-1)+1] = EntryIn(fat, g[i-1])
    BY <2>1, <1>4
  <2> QED BY <1>13, <2>1, <2>2 DEF EntryIn
<1>16. fat[ch[n]] \notin Entries
  <2>1. n \in 1..n /\ n-1 \in Nat /\ (n-1)+1 = n
    BY <1>5
  <2>2. g[(n-1)+1] = EntryIn(fat, g[n-1])
    BY <2>1, <1>4
  <2> QED BY <1>13, <2>1, <2>2, <1>2 DEF EntryIn
<1>17. ch[1] = c
  <2>1. 1 \in 1..n /\ 1-1 = 0
    BY <1>5
  <2> QED BY <1>13, <2>1, <1>4
<1>18. ChainIn(fat, c) = ch
  BY <1>12 DEF ch
<1> QED BY <1>14, <1>15, <1>16, <1>17, <1>18, <1>5 DEF Shape

-----------------------------------------------------------------------------
(* What a chain reaches: the least set that holds its first cluster and is *)
(* closed under the FAT's links.                                           *)

Chained(fat) == fat \in [Entries -> Links] /\ NoCircle(fat)
Closed(fat, T) == \A d \in T : fat[d] \in Entries => fat[d] \in T

\* A chain's clusters are what it reaches.
LEMMA ReachElems ==
  ASSUME NEW fat, Chained(fat), NEW c \in Entries, NEW d
  PROVE  d \in Reach(fat, c) <=> \E i \in 1..Len(ChainIn(fat, c)) : d = ChainIn(fat, c)[i]
<1> DEFINE s == ChainIn(fat, c)
<1>1. Shape(fat, c, s)
  BY ChainShape DEF Chained
<1>2. s \in Seq(Entries) /\ DOMAIN s = 1..Len(s)
  <2> HIDE DEF s
  <2> QED BY <1>1 DEF Shape
<1>3. Reach(fat, c) = {s[x] : x \in DOMAIN s}
  BY DEF Reach, Range
<1> HIDE DEF s
<1> QED BY <1>2, <1>3 DEF s

\* What a chain reaches is closed under the links.
LEMMA ReachClosed ==
  ASSUME NEW fat, Chained(fat), NEW c \in Entries
  PROVE  /\ Reach(fat, c) \in SUBSET Entries /\ c \in Reach(fat, c)
         /\ Closed(fat, Reach(fat, c))
<1> DEFINE s == ChainIn(fat, c)
<1>1. Shape(fat, c, s)
  BY ChainShape DEF Chained
<1>2. \A d : d \in Reach(fat, c) <=> \E i \in 1..Len(s) : d = s[i]
  BY ReachElems
<1> HIDE DEF s
<1>3. /\ s \in Seq(Entries) /\ Len(s) \in 1..LastEntry /\ s[1] = c
      /\ \A i \in 1..Len(s)-1 : fat[s[i]] = s[i+1]
      /\ fat[s[Len(s)]] \notin Entries
  BY <1>1 DEF Shape
<1>4. Reach(fat, c) \in SUBSET Entries
  BY <1>2, <1>3
<1>5. c \in Reach(fat, c)
  <2>1. 1 \in 1..Len(s)
    BY <1>3
  <2> QED BY <2>1, <1>2, <1>3
<1>6. ASSUME NEW d \in Reach(fat, c), fat[d] \in Entries PROVE fat[d] \in Reach(fat, c)
  <2>1. PICK i \in 1..Len(s) : d = s[i]
    BY <1>2
  <2>2. i # Len(s)
    BY <1>3, <1>6, <2>1
  <2>3. i \in 1..Len(s)-1 /\ i+1 \in 1..Len(s)
    BY <1>3, <2>2
  <2>4. fat[d] = s[i+1]
    BY <1>3, <2>1, <2>3
  <2> QED BY <2>3, <2>4, <1>2
<1> QED BY <1>4, <1>5, <1>6 DEF Closed

\* It is the least set that is.
LEMMA ReachLeast ==
  ASSUME NEW fat, Chained(fat), NEW c \in Entries, NEW T, c \in T, Closed(fat, T)
  PROVE  Reach(fat, c) \subseteq T
<1> DEFINE s == ChainIn(fat, c)
<1>1. Shape(fat, c, s)
  BY ChainShape DEF Chained
<1>2. \A d : d \in Reach(fat, c) <=> \E i \in 1..Len(s) : d = s[i]
  BY ReachElems
<1> HIDE DEF s
<1>3. /\ s \in Seq(Entries) /\ Len(s) \in Nat /\ Len(s) >= 1 /\ s[1] = c
      /\ \A i \in 1..Len(s)-1 : fat[s[i]] = s[i+1]
  BY <1>1 DEF Shape
<1> DEFINE S == {k \in Nat : k + 1 <= Len(s) => s[k+1] \in T}
<1>4. 0 \in S
  BY <1>3
<1>5. ASSUME NEW k \in S PROVE k + 1 \in S
  <2>1. PICK m \in Nat : m = k + 1
    OBVIOUS
  <2> SUFFICES ASSUME m + 1 <= Len(s) PROVE s[m+1] \in T
    BY <2>1
  <2>2. k \in Nat /\ m \in 1..Len(s)-1 /\ m + 1 \in 1..Len(s) /\ m <= Len(s)
    BY <2>1, <1>3
  <2>3. s[m] \in T /\ fat[s[m]] = s[m+1] /\ s[m+1] \in Entries
    BY <2>1, <2>2, <1>3
  <2> HIDE DEF S
  <2> QED BY <2>3 DEF Closed
<1>6. S = Nat
  <2> HIDE DEF S
  <2>1. S \in SUBSET Nat
    BY DEF S
  <2> QED BY <1>4, <1>5, <2>1, AllNats
<1> SUFFICES ASSUME NEW d \in Reach(fat, c) PROVE d \in T
  OBVIOUS
<1>7. PICK i \in 1..Len(s) : d = s[i]
  BY <1>2
<1>8. PICK k \in Nat : i = k + 1
  <2>1. i - 1 \in Nat /\ i = (i - 1) + 1
    BY <1>3
  <2> QED BY <2>1
<1>9. k \in S /\ k + 1 <= Len(s)
  <2> HIDE DEF S
  <2>1. i <= Len(s)
    BY <1>3
  <2> QED BY <1>6, <1>8, <2>1
<1> QED BY <1>7, <1>8, <1>9

\* What is no cluster begins an empty chain.
LEMMA ReachNone ==
  ASSUME NEW fat, Chained(fat), NEW c \in Links \cup {-1, 1}, c \notin Entries
  PROVE  ChainIn(fat, c) = <<>> /\ Reach(fat, c) = {}
<1>1. PICK f : IsSpan(fat, f)
  BY SpanOf DEF Chained
<1>2. c \in Int /\ ~InChain(c) /\ LastEntry \in Nat
  BY FatAssumption DEF Links, InChain, Root, EOC
<1> DEFINE w == [at |-> c, most |-> LastEntry]
<1>3. ChainIn(fat, c) = f[w] /\ f[w] = FromSpan(fat, f, w) /\ w.at = c
  BY <1>1, <1>2 DEF IsSpan, Spans
<1>4. ChainIn(fat, c) = <<>>
  <2> HIDE DEF w
  <2> QED BY <1>2, <1>3 DEF FromSpan
<1>5. Reach(fat, c) = Range(<<>>)
  BY <1>4 DEF Reach
<1> QED BY <1>4, <1>5 DEF Range

\* The last cluster of a chain links to none.
LEMMA ReachLast ==
  ASSUME NEW fat, Chained(fat), NEW c \in Entries
  PROVE  /\ Last(ChainIn(fat, c)) \in Reach(fat, c)
         /\ fat[Last(ChainIn(fat, c))] \notin Entries
<1> DEFINE s == ChainIn(fat, c)
<1>1. Shape(fat, c, s)
  BY ChainShape DEF Chained
<1>2. \A d : d \in Reach(fat, c) <=> \E i \in 1..Len(s) : d = s[i]
  BY ReachElems
<1> HIDE DEF s
<1>3. Last(s) = s[Len(s)] /\ Len(s) \in 1..Len(s)
  BY <1>1 DEF Shape, Last
<1> QED BY <1>1, <1>2, <1>3 DEF s, Shape

\* Every cluster of a chain but the first has one before it.
LEMMA ReachPred ==
  ASSUME NEW fat, Chained(fat), NEW c \in Entries, NEW d \in Reach(fat, c), d # c
  PROVE  \E e \in Reach(fat, c) : fat[e] = d
<1> DEFINE T == {c} \cup {x \in Reach(fat, c) : \E e \in Reach(fat, c) : fat[e] = x}
<1>1. Reach(fat, c) \in SUBSET Entries /\ c \in Reach(fat, c) /\ Closed(fat, Reach(fat, c))
  BY ReachClosed
<1>2. Closed(fat, T)
  <2> SUFFICES ASSUME NEW x \in T, fat[x] \in Entries PROVE fat[x] \in T
    BY DEF Closed
  <2>1. x \in Reach(fat, c)
    BY <1>1
  <2>2. fat[x] \in Reach(fat, c)
    BY <1>1, <2>1 DEF Closed
  <2> QED BY <2>1, <2>2
<1>3. Reach(fat, c) \subseteq T
  <2> HIDE DEF T
  <2>1. c \in T
    BY DEF T
  <2> QED BY <1>2, <2>1, ReachLeast
<1> QED BY <1>3

\* From a cluster of a chain on the rest of it is reached.
LEMMA ReachWithin ==
  ASSUME NEW fat, Chained(fat), NEW c \in Entries, NEW d \in Reach(fat, c)
  PROVE  d \in Entries /\ Reach(fat, d) \subseteq Reach(fat, c)
<1>1. Reach(fat, c) \in SUBSET Entries /\ Closed(fat, Reach(fat, c))
  BY ReachClosed
<1>2. d \in Entries
  BY <1>1
<1> QED BY <1>1, <1>2, ReachLeast

\* Of two chains that meet the one lies in the other.
LEMMA ReachMeets ==
  ASSUME NEW fat, Chained(fat),
         \A a, b \in Entries : fat[a] = fat[b] /\ fat[a] \in Entries => a = b,
         NEW v \in Entries, \A a \in Entries : fat[a] # v,
         NEW u \in Entries, NEW x, x \in Reach(fat, u), x \in Reach(fat, v)
  PROVE  u \in Reach(fat, v) /\ Reach(fat, u) \subseteq Reach(fat, v)
<1>1. /\ Reach(fat, u) \in SUBSET Entries /\ u \in Reach(fat, u) /\ Closed(fat, Reach(fat, u))
      /\ Reach(fat, v) \in SUBSET Entries /\ v \in Reach(fat, v) /\ Closed(fat, Reach(fat, v))
  BY ReachClosed
<1>2. u \in Reach(fat, v)
  <2> SUFFICES ASSUME u \notin Reach(fat, v) PROVE FALSE
    OBVIOUS
  <2> DEFINE T == Reach(fat, u) \ Reach(fat, v)
  <2>1. Closed(fat, T)
    <3> SUFFICES ASSUME NEW d \in T, fat[d] \in Entries, fat[d] \in Reach(fat, v) PROVE FALSE
      BY <1>1 DEF Closed
    <3>1. d \in Entries /\ fat[d] # v
      BY <1>1
    <3>2. PICK e \in Reach(fat, v) : fat[e] = fat[d]
      BY <3>1, ReachPred
    <3>3. e \in Entries /\ e = d
      BY <1>1, <3>1, <3>2
    <3> QED BY <3>3
  <2>2. u \in T
    BY <1>1
  <2>3. Reach(fat, u) \subseteq T
    <3> HIDE DEF T
    <3> QED BY <2>1, <2>2, ReachLeast
  <2> QED BY <2>3
<1>3. Reach(fat, u) \subseteq Reach(fat, v)
  BY <1>2, ReachWithin
<1> QED BY <1>2, <1>3

\* With more links a chain reaches no less.
LEMMA ReachMore ==
  ASSUME NEW fat, Chained(fat), NEW fat2, Chained(fat2), NEW c \in Entries,
         \A d \in Entries : fat[d] \in Entries => fat2[d] = fat[d]
  PROVE  Reach(fat, c) \subseteq Reach(fat2, c)
<1>1. Reach(fat2, c) \in SUBSET Entries /\ c \in Reach(fat2, c) /\ Closed(fat2, Reach(fat2, c))
  BY ReachClosed
<1>2. Closed(fat, Reach(fat2, c))
  BY <1>1 DEF Closed
<1> QED BY <1>1, <1>2, ReachLeast

-----------------------------------------------------------------------------
(* How the writes to the FAT change the chains *)

\* What the chains need of a sound FAT.
LEMMA FatIsChained ==
  ASSUME NEW fat, FatSound(fat)
  PROVE  /\ Chained(fat) /\ fat \in [Entries -> Links] /\ NoCircle(fat)
         /\ \A c, d \in Entries : fat[c] = fat[d] /\ fat[c] \in Entries => c = d
         /\ \A c \in Entries : fat[c] \in Entries => fat[c] # Root /\ fat[fat[c]] # 0
         /\ fat[Root] # 0
BY DEF FatSound, Chained

\* The marks of the FAT are no clusters.
LEMMA RootFacts == Root \in Entries /\ 0 \notin Entries /\ EOC \notin Entries /\ EOC # 0 /\ 0 \in Links /\ EOC \in Links
  BY FatAssumption DEF Root, Entries, EOC, Links

\* fat2 is fat with the entry of c set to w.
Puts(fat, fat2, c, w) == fat2 = [fat EXCEPT ![c] = w]

\* An end mark where no link was changes no chain.
LEMMA EndSame ==
  ASSUME NEW fat, FatSound(fat), NEW c \in Entries, fat[c] \notin Entries,
         NEW fat2, Puts(fat, fat2, c, EOC)
  PROVE  /\ FatSound(fat2)
         /\ \A v \in Entries : Reach(fat2, v) = Reach(fat, v)
         /\ \A d \in Entries : fat2[d] \in Entries <=> fat[d] \in Entries
         /\ \A d \in Entries : d # c => fat2[d] = fat[d]
         /\ fat2[c] = EOC
<1> USE RootFacts, FatIsChained
<1>0. fat2 = [fat EXCEPT ![c] = EOC]
  BY DEF Puts
<1>1. fat2 \in [Entries -> Links] /\ NoCircle(fat2)
  <2>1. fat2 \in [Entries -> Links]
    BY <1>0
  <2>2. fat \in [Entries -> Links] /\ NoCircle(fat) /\ EOC \in {0, EOC}
    OBVIOUS
  <2> QED BY ONLY <2>1, <2>2, <1>0, CutKeeps
<1>2. /\ \A d \in Entries : d # c => fat2[d] = fat[d]
      /\ fat2[c] = EOC
  BY <1>0
<1>3. \A d \in Entries : fat2[d] \in Entries <=> fat[d] \in Entries
  BY <1>2
<1>4. FatSound(fat2)
  <2>1. \A a, b \in Entries : fat2[a] = fat2[b] /\ fat2[a] \in Entries => a = b
    BY <1>2
  <2>2. \A a \in Entries : fat2[a] \in Entries => fat2[a] # Root /\ fat2[fat2[a]] # 0
    BY <1>2
  <2>3. fat2[Root] # 0
    BY <1>2
  <2> QED BY <1>1, <2>1, <2>2, <2>3 DEF FatSound
<1>5. ASSUME NEW v \in Entries PROVE Reach(fat2, v) = Reach(fat, v)
  <2>1. Chained(fat) /\ Chained(fat2)
    BY <1>4
  <2>2. Reach(fat, v) \subseteq Reach(fat2, v)
    <3>1. \A d \in Entries : fat[d] \in Entries => fat2[d] = fat[d]
      BY <1>2
    <3> QED BY ONLY <2>1, <3>1, v \in Entries, ReachMore
  <2>3. Reach(fat2, v) \subseteq Reach(fat, v)
    <3>1. \A d \in Entries : fat2[d] \in Entries => fat[d] = fat2[d]
      BY <1>2
    <3> QED BY ONLY <2>1, <3>1, v \in Entries, ReachMore
  <2> QED BY <2>2, <2>3
<1> QED BY <1>2, <1>3, <1>4, <1>5

\* A chain that loses its first cluster.
LEMMA FreeLess ==
  ASSUME NEW fat, FatSound(fat), NEW c \in Entries \ {Root}, \A d \in Entries : fat[d] # c,
         NEW fat2, Puts(fat, fat2, c, 0)
  PROVE  /\ FatSound(fat2)
         /\ \A v \in Entries : Reach(fat2, v) \subseteq Reach(fat, v)
         /\ \A v \in Entries : v # c => Reach(fat2, v) = Reach(fat, v)
         /\ \A d \in Entries : d # c => fat2[d] = fat[d]
         /\ fat2[c] = 0
<1> USE RootFacts, FatIsChained
<1>0. fat2 = [fat EXCEPT ![c] = 0]
  BY DEF Puts
<1>1. fat2 \in [Entries -> Links] /\ NoCircle(fat2)
  <2>1. fat2 \in [Entries -> Links]
    BY <1>0
  <2>2. fat \in [Entries -> Links] /\ NoCircle(fat) /\ 0 \in {0, EOC}
    OBVIOUS
  <2> QED BY ONLY <2>1, <2>2, <1>0, CutKeeps
<1>2. /\ \A d \in Entries : d # c => fat2[d] = fat[d]
      /\ fat2[c] = 0
  BY <1>0
<1>4. FatSound(fat2)
  <2>1. \A a, b \in Entries : fat2[a] = fat2[b] /\ fat2[a] \in Entries => a = b
    BY <1>2
  <2>2. \A a \in Entries : fat2[a] \in Entries => fat2[a] # Root /\ fat2[fat2[a]] # 0
    BY <1>2
  <2>3. fat2[Root] # 0
    BY <1>2
  <2> QED BY <1>1, <2>1, <2>2, <2>3 DEF FatSound
<1>5. Chained(fat) /\ Chained(fat2)
  BY <1>4
<1>6. ASSUME NEW v \in Entries PROVE Reach(fat2, v) \subseteq Reach(fat, v)
  <2>1. \A d \in Entries : fat2[d] \in Entries => fat[d] = fat2[d]
    BY <1>2
  <2> QED BY ONLY <1>5, <2>1, v \in Entries, ReachMore
<1>7. ASSUME NEW v \in Entries, v # c PROVE Reach(fat2, v) = Reach(fat, v)
  <2>1. Reach(fat2, v) \in SUBSET Entries /\ v \in Reach(fat2, v) /\ Closed(fat2, Reach(fat2, v))
    BY <1>5, ReachClosed
  <2>2. c \notin Reach(fat2, v)
    <3> SUFFICES ASSUME c \in Reach(fat2, v) PROVE FALSE
      OBVIOUS
    <3>1. PICK e \in Reach(fat2, v) : fat2[e] = c
      <4>1. c \in Reach(fat2, v) /\ c # v
        BY <1>7
      <4> QED BY ONLY <1>5, <4>1, v \in Entries, ReachPred
    <3>2. e \in Entries
      BY <2>1
    <3> QED BY <1>2, <3>1, <3>2
  <2>3. Closed(fat, Reach(fat2, v))
    <3> SUFFICES ASSUME NEW d \in Reach(fat2, v), fat[d] \in Entries PROVE fat[d] \in Reach(fat2, v)
      BY DEF Closed
    <3>1. d \in Entries /\ fat2[d] = fat[d]
      BY <1>2, <2>1, <2>2
    <3> QED BY <2>1, <3>1 DEF Closed
  <2>4. Reach(fat, v) \subseteq Reach(fat2, v)
    BY <1>5, <2>1, <2>3, ReachLeast
  <2> QED BY <1>6, <2>4
<1> QED BY <1>2, <1>4, <1>6, <1>7

\* A chain that gets a cluster behind its last.
LEMMA LinkAdds ==
  ASSUME NEW fat, FatSound(fat), NEW c \in Entries, fat[c] \notin Entries,
         NEW w \in Entries \ {Root}, w # c, fat[w] \notin Entries, fat[w] # 0,
         \A d \in Entries : fat[d] # w,
         NEW fat2, Puts(fat, fat2, c, w)
  PROVE  /\ FatSound(fat2)
         /\ \A v \in Entries : /\ Reach(fat, v) \subseteq Reach(fat2, v)
                               /\ Reach(fat2, v) \subseteq Reach(fat, v) \cup {w}
                               /\ c \in Reach(fat, v) => w \in Reach(fat2, v)
                               /\ c \notin Reach(fat, v) => Reach(fat2, v) = Reach(fat, v)
         /\ \A d \in Entries : d # c => fat2[d] = fat[d]
         /\ fat2[c] = w
<1> USE RootFacts, FatIsChained
<1>0. fat2 = [fat EXCEPT ![c] = w]
  BY DEF Puts
<1>1. fat2 \in [Entries -> Links] /\ NoCircle(fat2)
  <2>1. fat2 \in [Entries -> Links]
    BY <1>0 DEF Links
  <2>2. fat \in [Entries -> Links] /\ NoCircle(fat) /\ w \in Entries /\ c # w
    OBVIOUS
  <2>3. NoCircle([fat EXCEPT ![c] = w])
    BY ONLY <2>2, LinkKeeps, fat[w] \notin Entries
  <2> QED BY <1>0, <2>1, <2>3
<1>2. /\ \A d \in Entries : d # c => fat2[d] = fat[d]
      /\ fat2[c] = w
  BY <1>0
<1>4. FatSound(fat2)
  <2>1. \A a, b \in Entries : fat2[a] = fat2[b] /\ fat2[a] \in Entries => a = b
    BY <1>2
  <2>2. \A a \in Entries : fat2[a] \in Entries => fat2[a] # Root /\ fat2[fat2[a]] # 0
    BY <1>2
  <2>3. fat2[Root] # 0
    BY <1>2
  <2> QED BY <1>1, <2>1, <2>2, <2>3 DEF FatSound
<1>5. Chained(fat) /\ Chained(fat2)
  BY <1>4
<1>6. ASSUME NEW v \in Entries PROVE Reach(fat, v) \subseteq Reach(fat2, v)
  <2>1. \A d \in Entries : fat[d] \in Entries => fat2[d] = fat[d]
    BY <1>2
  <2> QED BY ONLY <1>5, <2>1, v \in Entries, ReachMore
<1>7. ASSUME NEW v \in Entries PROVE Reach(fat2, v) \subseteq Reach(fat, v) \cup {w}
  <2>1. Reach(fat, v) \in SUBSET Entries /\ v \in Reach(fat, v) /\ Closed(fat, Reach(fat, v))
    BY <1>5, ReachClosed
  <2>2. Closed(fat2, Reach(fat, v) \cup {w})
    BY <1>2, <2>1 DEF Closed
  <2> QED BY <1>5, <2>1, <2>2, ReachLeast
<1>8. ASSUME NEW v \in Entries, c \in Reach(fat, v) PROVE w \in Reach(fat2, v)
  <2>1. c \in Reach(fat2, v) /\ Closed(fat2, Reach(fat2, v))
    BY <1>5, <1>6, <1>8, ReachClosed
  <2> QED BY <1>2, <2>1 DEF Closed
<1>9. ASSUME NEW v \in Entries, c \notin Reach(fat, v) PROVE Reach(fat2, v) = Reach(fat, v)
  <2>1. Reach(fat, v) \in SUBSET Entries /\ v \in Reach(fat, v) /\ Closed(fat, Reach(fat, v))
    BY <1>5, ReachClosed
  <2>2. Closed(fat2, Reach(fat, v))
    BY <1>2, <1>9, <2>1 DEF Closed
  <2>3. Reach(fat2, v) \subseteq Reach(fat, v)
    BY <1>5, <2>1, <2>2, ReachLeast
  <2> QED BY <1>6, <2>3
<1> QED BY <1>2, <1>4, <1>6, <1>7, <1>8, <1>9

-----------------------------------------------------------------------------
(* What is found in a directory *)

\* Multiplication is monotonic.
LEMMA MulMore ==
  ASSUME NEW a \in Nat, NEW b \in Nat, NEW c \in Nat, a + 1 <= b
  PROVE  c * a + c <= c * b
<1>1. PICK d \in Nat : b = a + 1 + d
  <2>1. b - (a + 1) \in Nat /\ b = a + 1 + (b - (a + 1))
    OBVIOUS
  <2> QED BY <2>1
<1>2. c * b = c * a + c + c * d
  BY <1>1
<1>3. c * d \in Nat /\ c * a \in Nat
  OBVIOUS
<1> QED BY <1>2, <1>3

\* Division with remainder.
LEMMA DivMod ==
  ASSUME NEW a \in Nat, NEW b \in Nat \ {0}
  PROVE  /\ a \div b \in Nat /\ a % b \in 0..b-1
         /\ a = b * (a \div b) + (a % b)
OBVIOUS

\* Quotient and remainder are unique.
LEMMA DivModIs ==
  ASSUME NEW b \in Nat \ {0}, NEW q \in Nat, NEW r \in 0..b-1, NEW a, a = b * q + r
  PROVE  a \div b = q /\ a % b = r
<1>1. b * q \in Nat /\ r \in Nat /\ a \in Nat
  OBVIOUS
<1>2. PICK q1 \in Nat : q1 = a \div b
  BY <1>1, DivMod
<1>3. PICK r1 \in 0..b-1 : r1 = a % b
  BY <1>1, DivMod
<1>4. a = b * q1 + r1 /\ b * q1 \in Nat
  BY <1>1, <1>2, <1>3, DivMod
<1>5. ~(q + 1 <= q1)
  <2> SUFFICES ASSUME q + 1 <= q1 PROVE FALSE
    OBVIOUS
  <2>1. b * q + b <= b * q1
    BY MulMore
  <2> QED BY <2>1, <1>1, <1>4
<1>6. ~(q1 + 1 <= q)
  <2> SUFFICES ASSUME q1 + 1 <= q PROVE FALSE
    OBVIOUS
  <2>1. b * q1 + b <= b * q
    BY MulMore
  <2> QED BY <2>1, <1>1, <1>4
<1>7. q1 = q
  BY <1>5, <1>6
<1> QED BY <1>1, <1>2, <1>3, <1>4, <1>7

\* directory_parse meets the places of the chain's clusters, and no others.
LEMMA Placed ==
  ASSUME NEW fat, Chained(fat), NEW c \in Entries, NEW ch, ch = ChainIn(fat, c)
  PROVE  /\ \A n \in Positions(ch) : /\ Place(ch, n) \in Places
                                     /\ Place(ch, n).cluster \in Reach(fat, c)
         /\ \A l \in Places : l.cluster \in Reach(fat, c) =>
              \E n \in Positions(ch) : Place(ch, n) = l
         /\ Positions(ch) \in SUBSET (Nat \ {0})
<1>1. Shape(fat, c, ch)
  BY ChainShape DEF Chained
<1>2. \A d : d \in Reach(fat, c) <=> \E i \in 1..Len(ch) : d = ch[i]
  BY ReachElems
<1>3. ch \in Seq(Entries) /\ Len(ch) \in Nat /\ Slots \in Nat \ {0} /\ Len(ch) * Slots \in Nat
  BY <1>1, FatAssumption DEF Shape
<1>4. ASSUME NEW n \in Positions(ch)
      PROVE  Place(ch, n) \in Places /\ Place(ch, n).cluster \in Reach(fat, c)
  <2>1. PICK m \in Nat : m = n - 1
    BY <1>3 DEF Positions
  <2>2. PICK q \in Nat : q = m \div Slots
    BY <1>3, DivMod
  <2>3. PICK r \in 0..Slots-1 : r = m % Slots
    BY <1>3, DivMod
  <2>4. m = Slots * q + r /\ Slots * q \in Nat
    BY <1>3, <2>2, <2>3, DivMod
  <2>5. q + 1 <= Len(ch)
    <3> SUFFICES ASSUME Len(ch) + 1 <= q + 1 PROVE FALSE
      BY <1>3
    <3>1. CASE Len(ch) = q
      BY <3>1, <2>1, <2>4, <1>3 DEF Positions
    <3>2. CASE Len(ch) # q
      <4>1. Slots * Len(ch) + Slots <= Slots * q
        BY <3>2, <1>3, MulMore
      <4>2. n <= Slots * Len(ch)
        BY <1>3 DEF Positions
      <4>3. PICK x \in Nat : x = Slots * Len(ch)
        BY <1>3
      <4>4. PICK y \in Nat : y = Slots * q
        BY <2>4
      <4>5. x + Slots <= y /\ n <= x /\ n - 1 = y + r
        BY <4>1, <4>2, <4>3, <4>4, <2>1, <2>4
      <4>6. n \in Nat /\ r \in Nat /\ Slots \in Nat
        BY <1>3 DEF Positions
      <4> QED BY ONLY <4>5, <4>6, x \in Nat, y \in Nat
    <3> QED BY <3>1, <3>2
  <2>6. Place(ch, n) = [cluster |-> ch[q+1], slot |-> r+1]
    BY <2>1, <2>2, <2>3 DEF Place
  <2>7. q + 1 \in 1..Len(ch) /\ r + 1 \in 1..Slots
    BY <2>5, <1>3
  <2> QED BY <2>6, <2>7, <1>2, <1>3 DEF Places
<1>5. ASSUME NEW l \in Places, l.cluster \in Reach(fat, c)
      PROVE  \E n \in Positions(ch) : Place(ch, n) = l
  <2>1. PICK i \in 1..Len(ch) : l.cluster = ch[i]
    BY <1>2, <1>5
  <2>2. PICK q \in Nat : i = q + 1
    <3>1. i - 1 \in Nat /\ i = (i - 1) + 1
      BY <1>3
    <3> QED BY <3>1
  <2>3. PICK r \in 0..Slots-1 : l.slot = r + 1
    <3>1. l.slot \in 1..Slots
      BY DEF Places
    <3>2. l.slot - 1 \in 0..Slots-1 /\ l.slot = (l.slot - 1) + 1
      BY <3>1, <1>3
    <3> QED BY <3>2
  <2>4. PICK m \in Nat : m = Slots * q + r
    BY <1>3
  <2>5. m \div Slots = q /\ m % Slots = r
    BY <1>3, <2>4, DivModIs
  <2>6. Slots * q + Slots <= Slots * Len(ch)
    <3>1. q + 1 <= Len(ch)
      BY <2>2, <1>3
    <3> QED BY <3>1, <1>3, MulMore
  <2>7. m + 1 \in Positions(ch)
    <3>1. m + 1 <= Slots * Len(ch) /\ Slots * Len(ch) = Len(ch) * Slots
      BY <2>4, <2>6, <1>3
    <3> QED BY <3>1, <1>3 DEF Positions
  <2>8. Place(ch, m + 1) = [cluster |-> l.cluster, slot |-> l.slot]
    <3>1. (m + 1) - 1 = m
      OBVIOUS
    <3> QED BY <3>1, <2>1, <2>2, <2>3, <2>5 DEF Place
  <2>9. l = [cluster |-> l.cluster, slot |-> l.slot]
    BY DEF Places
  <2> QED BY <2>7, <2>8, <2>9
<1>6. Positions(ch) \in SUBSET (Nat \ {0})
  BY <1>3 DEF Positions
<1> QED BY <1>4, <1>5, <1>6

\* The entry at a place.
LEMMA AtIs ==
  \A l : At(l) = AtIn(data, l)
BY DEF At, AtIn, RowOf, RowFrom

\* A bounded set of numbers that is not empty has a largest one.
LEMMA LargestOf ==
  ASSUME NEW S \in SUBSET Nat, S # {}, NEW n \in Nat, \A y \in S : y <= n
  PROVE  Max(S) \in S /\ \A y \in S : y <= Max(S)
<1> DEFINE T == {n - y : y \in S}
<1>1. T \in SUBSET Nat /\ T # {}
  <2>1. \A y \in S : y \in Nat /\ n - y \in Nat
    OBVIOUS
  <2> QED BY <2>1
<1>2. Min(T) \in T /\ \A y \in T : Min(T) <= y
  <2> HIDE DEF T
  <2> QED BY <1>1, LeastOf
<1>3. PICK x \in S : Min(T) = n - x
  BY <1>2
<1>4. ASSUME NEW y \in S PROVE y <= x
  <2>1. n - x <= n - y
    BY <1>2, <1>3
  <2> QED BY <2>1
<1>5. \E z \in S : \A y \in S : y <= z
  BY <1>4
<1> QED BY <1>5 DEF Max

\* The last directory of the name, if there is one.
LEMMA Entering ==
  ASSUME Chained(fats[1]), NEW v \in Entries, NEW name
  PROVE  \/ /\ StepInto(v, name) = -1
            /\ \A l \in Places : l.cluster \in Reach(fats[1], v) => ~(AtIn(data, l).name = name /\ AtIn(data, l).dir)
         \/ \E l \in Places : /\ l.cluster \in Reach(fats[1], v)
                              /\ AtIn(data, l).name = name /\ AtIn(data, l).dir
                              /\ StepInto(v, name) = AtIn(data, l).cluster
<1> DEFINE ch == Chain(v)
           hits == {n \in Positions(ch) : At(Place(ch, n)).name = name /\ At(Place(ch, n)).dir}
<1>1. StepInto(v, name) = IF hits = {} THEN -1 ELSE At(Place(ch, Max(hits))).cluster
  BY DEF StepInto
<1>2. ch = ChainIn(fats[1], v)
  BY DEF Chain
<1> HIDE DEF ch
<1>3. /\ \A n \in Positions(ch) : /\ Place(ch, n) \in Places
                                  /\ Place(ch, n).cluster \in Reach(fats[1], v)
      /\ \A l \in Places : l.cluster \in Reach(fats[1], v) =>
              \E n \in Positions(ch) : Place(ch, n) = l
      /\ Positions(ch) \in SUBSET (Nat \ {0})
  BY <1>2, Placed
<1>4. CASE hits = {}
  <2>1. \A n \in Positions(ch) : ~(AtIn(data, Place(ch, n)).name = name /\ AtIn(data, Place(ch, n)).dir)
    BY <1>4, AtIs
  <2>2. StepInto(v, name) = -1
    BY <1>1, <1>4
  <2> HIDE DEF hits
  <2> QED BY <1>3, <2>1, <2>2
<1>5. CASE hits # {}
  <2>1. Max(hits) \in hits
    <3>1. Len(ch) * Slots \in Nat
      <4>1. Shape(fats[1], v, ch)
        BY <1>2, ChainShape DEF Chained
      <4> QED BY <4>1, FatAssumption DEF Shape
    <3>2. hits \in SUBSET Nat
      BY <1>3
    <3>3. \A y \in hits : y <= Len(ch) * Slots
      BY <3>1 DEF Positions
    <3> HIDE DEF hits
    <3> QED BY <3>1, <3>2, <3>3, <1>5, LargestOf
  <2> DEFINE l == Place(ch, Max(hits))
  <2>2. l \in Places /\ l.cluster \in Reach(fats[1], v)
    BY <2>1, <1>3
  <2>3. AtIn(data, l).name = name /\ AtIn(data, l).dir
    BY <2>1, AtIs
  <2>4. StepInto(v, name) = AtIn(data, l).cluster
    BY <1>1, <1>5, AtIs
  <2> HIDE DEF l
  <2> QED BY <2>2, <2>3, <2>4
<1> QED BY <1>4, <1>5

-----------------------------------------------------------------------------
(* Following a path *)

FoldStep(h, dirs, s) ==
  IF s = {} THEN Root ELSE StepInto(h[s \ {Max(s)}], dirs[Max(s)])

\* The fold of file_path_destination is a function.
LEMMA FoldExists ==
  ASSUME NEW n \in Nat, NEW dirs
  PROVE  \E h : h = [s \in SUBSET (1..n) |-> FoldStep(h, dirs, s)]
<1> DEFINE S == {k \in Nat : \E h : h = [s \in SUBSET (1..k) |-> FoldStep(h, dirs, s)]}
<1>1. 0 \in S
  <2> DEFINE h == [s \in SUBSET (1..0) |-> Root]
  <2>1. h = [s \in SUBSET (1..0) |-> FoldStep(h, dirs, s)]
    BY DEF FoldStep
  <2> QED BY <2>1
<1>2. ASSUME NEW k \in S PROVE k + 1 \in S
  <2>0. k \in Nat
    OBVIOUS
  <2>1. PICK h : h = [s \in SUBSET (1..k) |-> FoldStep(h, dirs, s)]
    OBVIOUS
  <2> DEFINE g == [s \in SUBSET (1..k+1) |->
                     IF k + 1 \in s THEN StepInto(h[s \ {k + 1}], dirs[k + 1]) ELSE h[s]]
  <2>2. ASSUME NEW s \in SUBSET (1..k+1) PROVE g[s] = FoldStep(g, dirs, s)
    <3>1. CASE k + 1 \in s
      <4>1. Max(s) \in s /\ \A y \in s : y <= Max(s)
        <5>1. s \in SUBSET Nat /\ s # {} /\ k + 1 \in Nat /\ \A y \in s : y <= k + 1
          BY <3>1
        <5> QED BY <5>1, LargestOf
      <4>2. Max(s) = k + 1
        <5>1. Max(s) \in 1..k+1 /\ k + 1 <= Max(s)
          BY <4>1, <3>1
        <5> QED BY <5>1, <2>0
      <4>3. s \ {k + 1} \in SUBSET (1..k+1) /\ k + 1 \notin s \ {k + 1}
        OBVIOUS
      <4>4. g[s \ {k + 1}] = h[s \ {k + 1}]
        BY <4>3
      <4>5. s # {}
        BY <3>1
      <4> HIDE DEF g
      <4>6. FoldStep(g, dirs, s) = StepInto(h[s \ {k + 1}], dirs[k + 1])
        BY <4>2, <4>4, <4>5 DEF FoldStep
      <4> QED BY <3>1, <4>6 DEF g
    <3>2. CASE k + 1 \notin s
      <4>1. s \in SUBSET (1..k)
        BY <3>2
      <4>2. g[s] = h[s] /\ h[s] = FoldStep(h, dirs, s)
        BY <4>1, <3>2, <2>1
      <4>3. s \ {Max(s)} \in SUBSET (1..k+1) /\ k + 1 \notin s \ {Max(s)}
        BY <3>2
      <4>4. g[s \ {Max(s)}] = h[s \ {Max(s)}]
        BY <4>3
      <4> HIDE DEF g
      <4> QED BY <4>2, <4>4 DEF FoldStep
    <3> QED BY <3>1, <3>2
  <2>3. g = [s \in SUBSET (1..k+1) |-> FoldStep(g, dirs, s)]
    <3> DEFINE st(s) == FoldStep(g, dirs, s)
    <3>1. \A s \in SUBSET (1..k+1) : g[s] = st(s)
      BY <2>2
    <3>2. g = [s \in SUBSET (1..k+1) |-> g[s]]
      OBVIOUS
    <3> HIDE DEF g, st
    <3>3. g = [s \in SUBSET (1..k+1) |-> st(s)]
      BY <3>1, <3>2
    <3> QED BY <3>3 DEF st
  <2>4. k \in Nat /\ k + 1 \in Nat
    OBVIOUS
  <2> HIDE DEF g
  <2> QED BY <2>3, <2>4
<1> HIDE DEF S
<1>3. S \in SUBSET Nat
  BY DEF S
<1>4. n \in S
  BY <1>1, <1>2, <1>3, AllNats
<1> QED BY <1>4 DEF S

\* The clusters that file_path_destination comes to.
LeadsTo(h, n, dirs) ==
  /\ h[0] = Root
  /\ \A k \in 0..n-1 : h[k+1] = StepInto(h[k], dirs[k+1])
  /\ file_path_destination(dirs) = h[n]

\* file_path_destination goes from cluster to cluster.
LEMMA Stations ==
  ASSUME NEW n \in Nat, NEW dirs, DOMAIN dirs = 1..n
  PROVE  \E h : LeadsTo(h, n, dirs)
<1> DEFINE iter == CHOOSE h : h = [s \in SUBSET (1..n) |-> FoldStep(h, dirs, s)]
<1>1. iter = [s \in SUBSET (1..n) |-> FoldStep(iter, dirs, s)]
  BY FoldExists
<1>2. file_path_destination(dirs) = iter[1..n]
  BY DEF file_path_destination, FoldLeft, MapThenFoldSet, FoldStep
<1> HIDE DEF iter
<1> DEFINE g == [k \in 0..n |-> iter[1..k]]
<1>3. g[0] = Root
  <2>1. 1..0 = {} /\ {} \in SUBSET (1..n)
    OBVIOUS
  <2>2. iter[{}] = Root
    BY <1>1, <2>1 DEF FoldStep
  <2> QED BY <2>1, <2>2
<1>4. ASSUME NEW k \in 0..n-1 PROVE g[k+1] = StepInto(g[k], dirs[k+1])
  <2>1. 1..k+1 \in SUBSET (1..n) /\ 1..k+1 # {}
    <3>1. k \in Nat /\ k + 1 <= n
      OBVIOUS
    <3>2. ASSUME NEW y \in 1..k+1 PROVE y \in 1..n
      BY <3>1
    <3>3. 1 \in 1..k+1
      BY <3>1
    <3> QED BY <3>2, <3>3
  <2>2. Max(1..k+1) \in 1..k+1 /\ \A y \in 1..k+1 : y <= Max(1..k+1)
    <3>1. 1..k+1 \in SUBSET Nat /\ k + 1 \in Nat /\ \A y \in 1..k+1 : y <= k + 1
      OBVIOUS
    <3> QED BY <3>1, <2>1, LargestOf
  <2>3. Max(1..k+1) = k + 1
    BY <2>2
  <2>4. (1..k+1) \ {k + 1} = 1..k
    OBVIOUS
  <2>5. iter[1..k+1] = FoldStep(iter, dirs, 1..k+1)
    BY <1>1, <2>1
  <2>6. iter[1..k+1] = StepInto(iter[1..k], dirs[k+1])
    BY <2>1, <2>3, <2>4, <2>5 DEF FoldStep
  <2>7. k \in 0..n /\ k + 1 \in 0..n
    OBVIOUS
  <2> QED BY <2>6, <2>7
<1>5. file_path_destination(dirs) = g[n]
  BY <1>2
<1> HIDE DEF g
<1>6. LeadsTo(g, n, dirs)
  BY <1>3, <1>4, <1>5 DEF LeadsTo
<1> QED BY <1>6

-----------------------------------------------------------------------------
(* Facts of a sound disk *)

\* The parts of DiskSound.
LEMMA SoundFacts ==
  ASSUME NEW fat, NEW dat, DiskSound(fat, dat)
  PROVE  /\ Chained(fat) /\ FatSound(fat) /\ RowsSound(dat) /\ HeadsSound(fat, dat) /\ NamesSound(fat, dat)
BY FatIsChained DEF DiskSound

\* The fields of an entry on a sound disk.
LEMMA RowShape ==
  ASSUME NEW dat, RowsSound(dat), NEW l \in Places
  PROVE  /\ AtIn(dat, l) \in [name : Names \cup Unused \cup {"kernel", "text"}, dir : BOOLEAN, cluster : Links]
         /\ AtIn(dat, l).name = "text" => AtIn(dat, l).dir = FALSE
<1>1. l.cluster \in Entries /\ l.slot \in 1..Slots
  BY DEF Places
<1>2. dat[l.cluster] \in Rows \cup Pieces /\ TextIsText(RowFrom(dat[l.cluster]))
  BY <1>1 DEF RowsSound
<1>3. RowFrom(dat[l.cluster]) \in Rows
  <2>1. CASE dat[l.cluster] \in Pieces
    <3>1. TextEntry \in [name : Names \cup Unused \cup {"kernel", "text"}, dir : BOOLEAN, cluster : Links]
      BY RootFacts DEF TextEntry, Entry
    <3> QED BY <2>1, <3>1 DEF RowFrom, Rows
  <2>2. CASE dat[l.cluster] \notin Pieces
    BY <1>2, <2>2 DEF RowFrom
  <2> QED BY <2>1, <2>2
<1> QED BY <1>1, <1>2, <1>3 DEF AtIn, Rows, TextIsText

\* The names in use, apart from the marks.
LEMMA KnownFacts == "text" \notin Known /\ "0x00" \notin Known /\ "0xE5" \notin Known
                    /\ "kernel" \notin Names /\ "kernel" \in Known
  BY FatAssumption DEF Known

\* The heads of files and directories.
LEMMA HeadFacts ==
  ASSUME NEW fat, NEW dat, HeadsSound(fat, dat)
  PROVE  /\ \A l \in UsedIn(dat) : /\ l \in Places /\ AtIn(dat, l).name \in Known
                                   /\ AtIn(dat, l).cluster \in Entries \ {Root}
                                   /\ \A c \in Entries : fat[c] # AtIn(dat, l).cluster
                                   /\ fat[l.cluster] # 0
         /\ \A l, m \in UsedIn(dat) : AtIn(dat, l).cluster = AtIn(dat, m).cluster => l = m
BY DEF HeadsSound, UsedIn, InUse

\* A step along a path leads to a directory or nowhere.
LEMMA EntersOrNot ==
  ASSUME DiskSound(fats[1], data), NEW v \in Entries, NEW name \in Known \cup {"text"}
  PROVE  \/ StepInto(v, name) = -1 /\ \A x : ~Leads(fats[1], data, v, name, x)
         \/ StepInto(v, name) \in Entries /\ Leads(fats[1], data, v, name, StepInto(v, name))
<1>1. Chained(fats[1]) /\ RowsSound(data) /\ HeadsSound(fats[1], data)
  BY SoundFacts
<1>2. CASE /\ StepInto(v, name) = -1
           /\ \A l \in Places : l.cluster \in Reach(fats[1], v) => ~(AtIn(data, l).name = name /\ AtIn(data, l).dir)
  BY <1>2 DEF Leads, UsedIn
<1>3. CASE \E l \in Places : /\ l.cluster \in Reach(fats[1], v)
                             /\ AtIn(data, l).name = name /\ AtIn(data, l).dir
                             /\ StepInto(v, name) = AtIn(data, l).cluster
  <2>1. PICK l \in Places : /\ l.cluster \in Reach(fats[1], v)
                            /\ AtIn(data, l).name = name /\ AtIn(data, l).dir
                            /\ StepInto(v, name) = AtIn(data, l).cluster
    BY <1>3
  <2>2. name \in Known
    BY <1>1, <2>1, RowShape
  <2>3. l \in UsedIn(data)
    BY <2>1, <2>2 DEF UsedIn, InUse
  <2>4. AtIn(data, l).cluster \in Entries
    BY <1>1, <2>3, HeadFacts
  <2> QED BY <2>1, <2>3, <2>4 DEF Leads
<1> QED BY <1>1, <1>2, <1>3, Entering

\* Names are unique in a directory: they lead to one place.
LEMMA LeadsToOne ==
  ASSUME NEW fat, NEW dat, NamesSound(fat, dat), NEW v \in Entries, NEW n, NEW x, NEW y,
         Leads(fat, dat, v, n, x), Leads(fat, dat, v, n, y)
  PROVE  x = y
<1>1. PICK l \in UsedIn(dat) : l.cluster \in Reach(fat, v) /\ AtIn(dat, l).name = n /\ AtIn(dat, l).cluster = x
  BY DEF Leads
<1>2. PICK m \in UsedIn(dat) : m.cluster \in Reach(fat, v) /\ AtIn(dat, m).name = n /\ AtIn(dat, m).cluster = y
  BY DEF Leads
<1>3. l = m
  BY <1>1, <1>2 DEF NamesSound
<1> QED BY <1>1, <1>2, <1>3

\* A path that has led nowhere leads nowhere.
LEMMA NowhereFromNowhere ==
  ASSUME Chained(fats[1]), NEW name
  PROVE  StepInto(-1, name) = -1
<1>1. Chain(-1) = <<>>
  <2>1. -1 \in Links \cup {-1, 1} /\ -1 \notin Entries
    BY TypeFacts
  <2> QED BY <2>1, ReachNone DEF Chain
<1>2. Positions(<<>>) = {}
  BY FatAssumption DEF Positions
<1> DEFINE hits == {n \in Positions(Chain(-1)) : At(Place(Chain(-1), n)).name = name /\ At(Place(Chain(-1), n)).dir}
<1>3. hits = {}
  BY <1>1, <1>2
<1>4. StepInto(-1, name) = IF hits = {} THEN -1 ELSE At(Place(Chain(-1), Max(hits))).cluster
  BY DEF StepInto
<1> HIDE DEF hits
<1> QED BY <1>3, <1>4

-----------------------------------------------------------------------------
(* Paths *)

NamesOf == Known \cup {"text"}

\* A way's clusters are directories: the root or heads.
LEMMA WayHeads ==
  ASSUME NEW fat, NEW dat, DiskSound(fat, dat), NEW w, Len(w) \in Nat, NEW g, IsWay(fat, dat, g, w),
         NEW k \in 0..Len(w)
  PROVE  /\ g[k] \in Entries /\ DirHead(dat, g[k]) /\ \A c \in Entries : fat[c] # g[k]
         /\ k = 0 => g[k] = Root
         /\ k > 0 => /\ k - 1 \in 0..Len(w) /\ k \in 1..Len(w)
                     /\ \E l \in UsedIn(dat) : /\ l.cluster \in Reach(fat, g[k-1]) /\ AtIn(dat, l).name = w[k]
                                               /\ AtIn(dat, l).dir /\ AtIn(dat, l).cluster = g[k]
<1>1. g \in [0..Len(w) -> Entries] /\ g[0] = Root
  BY DEF IsWay
<1>2. CASE k = 0
  <2>1. \A c \in Entries : fat[c] # Root
    BY SoundFacts, RootFacts DEF FatSound
  <2> QED BY <1>1, <1>2, <2>1 DEF DirHead
<1>3. CASE k > 0
  <2>1. k \in 1..Len(w) /\ k - 1 \in 0..Len(w)
    BY <1>3
  <2>2. Leads(fat, dat, g[k-1], w[k], g[k])
    BY <2>1 DEF IsWay
  <2>3. PICK l \in UsedIn(dat) : /\ l.cluster \in Reach(fat, g[k-1]) /\ AtIn(dat, l).name = w[k]
                                 /\ AtIn(dat, l).dir /\ AtIn(dat, l).cluster = g[k]
    BY <2>2 DEF Leads
  <2>4. \A c \in Entries : fat[c] # g[k]
    BY <2>3, SoundFacts, HeadFacts
  <2> QED BY <1>1, <1>3, <2>1, <2>3, <2>4 DEF DirHead
<1> QED BY <1>2, <1>3

\* Two ways that come to the same cluster are the same way.
LEMMA WaysMeet ==
  ASSUME NEW fat, NEW dat, DiskSound(fat, dat), NEW w, Len(w) \in Nat, NEW g, IsWay(fat, dat, g, w),
         NEW u, Len(u) \in Nat, NEW f, IsWay(fat, dat, f, u),
         NEW a \in 0..Len(w), NEW b \in 0..Len(u), g[a] = f[b]
  PROVE  a = b /\ \A i \in 1..a : w[i] = u[i]
<1> DEFINE S == {k \in Nat : k <= Len(w) => \A m \in 0..Len(u) : g[k] = f[m] => k = m /\ \A i \in 1..k : w[i] = u[i]}
<1>1. Chained(fat) /\ FatSound(fat) /\ HeadsSound(fat, dat)
  BY SoundFacts
<1>2. 0 \in S
  <2> SUFFICES ASSUME NEW m \in 0..Len(u), g[0] = f[m] PROVE m = 0
    OBVIOUS
  <2> SUFFICES ASSUME m > 0 PROVE FALSE
    OBVIOUS
  <2>1. g[0] = Root
    BY DEF IsWay
  <2>2. PICK l \in UsedIn(dat) : AtIn(dat, l).cluster = f[m]
    BY WayHeads
  <2> QED BY <1>1, <2>1, <2>2, HeadFacts
<1>3. ASSUME NEW k \in S PROVE k + 1 \in S
  <2>0. PICK n \in Nat : n = k + 1
    OBVIOUS
  <2> SUFFICES ASSUME n <= Len(w), NEW m \in 0..Len(u), g[n] = f[m]
               PROVE  n = m /\ \A i \in 1..n : w[i] = u[i]
    BY <2>0
  <2>1. k \in Nat /\ n \in 0..Len(w) /\ n > 0 /\ n - 1 = k /\ k <= Len(w) /\ k \in 0..Len(w)
    BY <2>0
  <2>2. PICK l \in UsedIn(dat) : /\ l.cluster \in Reach(fat, g[k]) /\ AtIn(dat, l).name = w[n]
                                 /\ AtIn(dat, l).cluster = g[n]
    <3> HIDE DEF S
    <3>1. \E l \in UsedIn(dat) : /\ l.cluster \in Reach(fat, g[n-1]) /\ AtIn(dat, l).name = w[n]
                                 /\ AtIn(dat, l).dir /\ AtIn(dat, l).cluster = g[n]
      <4>1. n \in 0..Len(w) /\ n > 0
        BY <2>1
      <4>2. DiskSound(fat, dat) /\ Len(w) \in Nat /\ IsWay(fat, dat, g, w)
        OBVIOUS
      <4> QED BY ONLY <4>1, <4>2, WayHeads
    <3>2. n - 1 = k
      BY <2>1
    <3>3. g[n-1] = g[k]
      BY ONLY <3>2
    <3> QED BY ONLY <3>1, <3>3
  <2>3. m > 0
    <3> SUFFICES ASSUME m = 0 PROVE FALSE
      OBVIOUS
    <3>1. f[m] = Root
      BY WayHeads
    <3> QED BY <1>1, <2>2, <3>1, HeadFacts
  <2>4. m - 1 \in 0..Len(u) /\ m \in Nat
    BY <2>3
  <2>5. PICK j \in UsedIn(dat) : /\ j.cluster \in Reach(fat, f[m-1]) /\ AtIn(dat, j).name = u[m]
                                 /\ AtIn(dat, j).cluster = f[m]
    <3> HIDE DEF S
    <3>1. \E j \in UsedIn(dat) : /\ j.cluster \in Reach(fat, f[m-1]) /\ AtIn(dat, j).name = u[m]
                                 /\ AtIn(dat, j).dir /\ AtIn(dat, j).cluster = f[m]
      BY <2>3, WayHeads
    <3> QED BY <3>1
  <2>6. l = j
    BY <1>1, <2>2, <2>5, HeadFacts
  <2>7. g[k] = f[m-1]
    <3>1. g[k] \in Entries /\ f[m-1] \in Entries /\ \A c \in Entries : fat[c] # g[k] /\ fat[c] # f[m-1]
      BY <2>1, <2>4, WayHeads
    <3>2. l.cluster \in Reach(fat, g[k]) /\ l.cluster \in Reach(fat, f[m-1])
      BY <2>2, <2>5, <2>6
    <3>3. g[k] \in Reach(fat, f[m-1])
      BY <1>1, <3>1, <3>2, ReachMeets, FatIsChained
    <3> SUFFICES ASSUME g[k] # f[m-1] PROVE FALSE
      OBVIOUS
    <3>4. PICK e \in Reach(fat, f[m-1]) : fat[e] = g[k]
      BY <1>1, <3>1, <3>3, ReachPred
    <3>5. e \in Entries
      BY <1>1, <3>1, ReachClosed
    <3> QED BY <3>1, <3>4, <3>5
  <2>8. k = m - 1 /\ \A i \in 1..k : w[i] = u[i]
    BY <2>1, <2>4, <2>7
  <2>9. n = m /\ w[n] = u[n]
    BY <2>0, <2>2, <2>4, <2>5, <2>6, <2>8
  <2>10. \A i \in 1..n : i \in 1..k \/ i = n
    BY <2>0
  <2> HIDE DEF S
  <2> QED BY <2>8, <2>9, <2>10
<1>4. S = Nat
  <2> HIDE DEF S
  <2>1. S \in SUBSET Nat
    BY DEF S
  <2> QED BY <1>2, <1>3, <2>1, AllNats
<1>5. a \in S /\ a <= Len(w)
  BY <1>4
<1> QED BY <1>5

\* file_path_destination follows the way there is, or else finds none.
LEMMA Destination ==
  ASSUME DiskSound(fats[1], data), NEW w, w \in Seq(NamesOf)
  PROVE  /\ \A g : IsWay(fats[1], data, g, w) => file_path_destination(w) = g[Len(w)]
         /\ file_path_destination(w) = -1 \/ \E g : IsWay(fats[1], data, g, w)
<1> DEFINE n == Len(w)
<1>1. n \in Nat /\ DOMAIN w = 1..n /\ \A k \in 1..n : w[k] \in NamesOf
  OBVIOUS
<1>2. PICK h : LeadsTo(h, n, w)
  BY <1>1, Stations
<1>3. /\ h[0] = Root
      /\ \A k \in 0..n-1 : h[k+1] = StepInto(h[k], w[k+1])
      /\ file_path_destination(w) = h[n]
  BY <1>2 DEF LeadsTo
<1>4. Chained(fats[1]) /\ NamesSound(fats[1], data)
  BY SoundFacts
<1> HIDE DEF n
<1>5. ASSUME NEW g, IsWay(fats[1], data, g, w) PROVE h[n] = g[n]
  <2>1. /\ g \in [0..n -> Entries] /\ g[0] = Root
        /\ \A k \in 1..n : Leads(fats[1], data, g[k-1], w[k], g[k])
    BY <1>5 DEF IsWay, n
  <2> DEFINE S == {k \in Nat : k <= n => h[k] = g[k]}
  <2>2. 0 \in S
    BY <1>3, <2>1
  <2>3. ASSUME NEW k \in S PROVE k + 1 \in S
    <3>0. PICK m \in Nat : m = k + 1
      OBVIOUS
    <3> SUFFICES ASSUME m <= n PROVE h[m] = g[m]
      BY <3>0
    <3>1. k \in Nat /\ k \in 0..n-1 /\ k \in 0..n /\ m \in 1..n /\ m - 1 = k /\ h[k] = g[k]
      BY <3>0, <1>1
    <3>2. h[m] = StepInto(g[k], w[m]) /\ g[k] \in Entries /\ w[m] \in NamesOf
      BY <1>1, <1>3, <2>1, <3>0, <3>1
    <3>3. Leads(fats[1], data, g[k], w[m], g[m])
      BY <2>1, <3>1
    <3>4. Leads(fats[1], data, g[k], w[m], StepInto(g[k], w[m]))
      BY <3>2, <3>3, EntersOrNot DEF NamesOf
    <3>5. StepInto(g[k], w[m]) = g[m]
      BY <1>4, <3>2, <3>3, <3>4, LeadsToOne
    <3> QED BY <3>2, <3>5
  <2>4. S = Nat
    <3> HIDE DEF S
    <3>1. S \in SUBSET Nat
      BY DEF S
    <3> QED BY <2>2, <2>3, <3>1, AllNats
  <2>5. n \in S
    BY <1>1, <2>4
  <2> QED BY <2>5
<1>6. ASSUME h[n] # -1 PROVE \E g : IsWay(fats[1], data, g, w)
  <2> DEFINE S == {k \in Nat : k <= n => h[n-k] # -1}
  <2>1. 0 \in S
    BY <1>1, <1>6
  <2>2. ASSUME NEW k \in S PROVE k + 1 \in S
    <3>0. PICK m \in Nat : m = k + 1
      OBVIOUS
    <3> SUFFICES ASSUME m <= n, h[n-m] = -1 PROVE FALSE
      BY <3>0
    <3>1. k \in Nat /\ h[n-k] # -1 /\ n - m \in 0..n-1 /\ (n - m) + 1 = n - k
      BY <3>0, <1>1
    <3>2. h[n-k] = StepInto(-1, w[n-k])
      BY <1>3, <3>1
    <3> QED BY <1>4, <3>1, <3>2, NowhereFromNowhere
  <2>3. S = Nat
    <3> HIDE DEF S
    <3>1. S \in SUBSET Nat
      BY DEF S
    <3> QED BY <2>1, <2>2, <3>1, AllNats
  <2>4. ASSUME NEW k \in 0..n PROVE h[k] # -1
    <3>1. PICK m \in Nat : m = n - k
      BY <1>1
    <3>2. m \in S
      <4> HIDE DEF S
      <4> QED BY <2>3
    <3>3. m <= n /\ n - m = k
      <4> HIDE DEF S
      <4> QED BY <3>1, <1>1
    <3> QED BY <3>2, <3>3
  <2> HIDE DEF S
  <2> DEFINE T == {k \in Nat : k <= n => h[k] \in Entries}
  <2>5. 0 \in T
    BY <1>3, RootFacts
  <2>6. ASSUME NEW k \in T PROVE k + 1 \in T
    <3>0. PICK m \in Nat : m = k + 1
      OBVIOUS
    <3> SUFFICES ASSUME m <= n PROVE h[m] \in Entries
      BY <3>0
    <3>1. k \in Nat /\ k \in 0..n-1 /\ m \in 1..n /\ m \in 0..n /\ h[k] \in Entries
      BY <3>0, <1>1
    <3>2. h[m] = StepInto(h[k], w[m]) /\ w[m] \in NamesOf
      BY <1>1, <1>3, <3>0, <3>1
    <3> QED BY <2>4, <3>1, <3>2, EntersOrNot DEF NamesOf
  <2>7. T = Nat
    <3> HIDE DEF T
    <3>1. T \in SUBSET Nat
      BY DEF T
    <3> QED BY <2>5, <2>6, <3>1, AllNats
  <2> DEFINE g == [k \in 0..n |-> h[k]]
  <2>8. g \in [0..n -> Entries]
    <3>1. \A k \in 0..n : k \in T /\ k <= n
      BY <1>1, <2>7
    <3> QED BY <3>1
  <2>9. g[0] = Root
    BY <1>1, <1>3
  <2>10. ASSUME NEW k \in 1..n PROVE Leads(fats[1], data, g[k-1], w[k], g[k])
    <3>1. PICK i \in 0..n-1 : i = k - 1
      BY <1>1
    <3>2. i \in 0..n /\ k \in 0..n /\ i + 1 = k /\ g[i] = h[i] /\ g[k] = h[k] /\ g[i] \in Entries
      BY <1>1, <2>8, <3>1
    <3>3. h[k] = StepInto(h[i], w[k]) /\ h[k] # -1 /\ w[k] \in NamesOf
      BY <1>1, <1>3, <2>4, <3>1, <3>2
    <3> HIDE DEF g
    <3>4. Leads(fats[1], data, h[i], w[k], h[k])
      BY <3>2, <3>3, EntersOrNot DEF NamesOf
    <3> QED BY <3>1, <3>2, <3>4
  <2> HIDE DEF g
  <2>11. IsWay(fats[1], data, g, w)
    BY <2>8, <2>9, <2>10 DEF IsWay, n
  <2> QED BY <2>11
<1>7. file_path_destination(w) = h[n]
  BY <1>3
<1>8. \A g : IsWay(fats[1], data, g, w) => file_path_destination(w) = g[Len(w)]
  BY <1>5, <1>7 DEF n
<1> QED BY <1>6, <1>7, <1>8

-----------------------------------------------------------------------------
(* Finding a name *)

\* A path without its last name.
LEMMA FrontIs ==
  ASSUME NEW S, NEW p \in Seq(S), p # <<>>
  PROVE  /\ Len(p) \in Nat \ {0} /\ Front(p) \in Seq(S) /\ Len(Front(p)) = Len(p) - 1
         /\ \A i \in 1..Len(p)-1 : Front(p)[i] = p[i]
         /\ Last(p) = p[Len(p)] /\ Last(p) \in S
<1>1. Len(p) \in Nat \ {0}
  BY EmptySeq
<1>2. 1 \in 1..Len(p)+1 /\ Len(p)-1 \in 1-1..Len(p)
  BY <1>1
<1>3. /\ SubSeq(p, 1, Len(p)-1) \in Seq(S)
      /\ Len(SubSeq(p, 1, Len(p)-1)) = Len(p)-1
      /\ \A i \in 1..Len(p)-1 : SubSeq(p, 1, Len(p)-1)[i] = p[i]
  <2>1. PICK n \in Nat : n + 1 = Len(p)
    BY <1>1, <1>2
  <2>2. n = Len(p) - 1 /\ \A i \in 1..n : p[i] \in S
    BY <2>1
  <2>3. /\ SubSeq(p, 1, n) \in Seq(S) /\ Len(SubSeq(p, 1, n)) = n
        /\ \A i \in 1..n : SubSeq(p, 1, n)[i] = p[i]
    BY ONLY <2>2, n \in Nat, SubSeqProperties
  <2> QED BY ONLY <2>2, <2>3
<1> QED BY <1>1, <1>3 DEF Front, Last

\* A path with one name more.
LEMMA AppendIs ==
  ASSUME NEW S, NEW p \in Seq(S), NEW x \in S
  PROVE  /\ Append(p, x) \in Seq(S) /\ Append(p, x) # <<>> /\ Len(Append(p, x)) = Len(p) + 1
         /\ \A i \in 1..Len(p) : Append(p, x)[i] = p[i]
         /\ Append(p, x)[Len(p)+1] = x
         /\ Front(Append(p, x)) = p /\ Last(Append(p, x)) = x
<1> DEFINE q == Append(p, x)
<1>1. /\ q \in Seq(S) /\ q # <<>> /\ Len(q) = Len(p) + 1 /\ Len(p) \in Nat
      /\ \A i \in 1..Len(p) : q[i] = p[i]
      /\ q[Len(p)+1] = x
  BY AppendProperties
<1> HIDE DEF q
<1>2. /\ Front(q) \in Seq(S) /\ Len(Front(q)) = Len(q) - 1
      /\ \A i \in 1..Len(q)-1 : Front(q)[i] = q[i]
      /\ Last(q) = q[Len(q)]
  BY <1>1, FrontIs
<1>3. Front(q) = p
  <2>1. Len(Front(q)) = Len(p) /\ \A i \in 1..Len(Front(q)) : Front(q)[i] = p[i]
    BY <1>1, <1>2
  <2> QED BY <1>2, <2>1, SeqEqual
<1> QED BY <1>1, <1>2, <1>3 DEF q

\* NotFound is no place.
LEMMA NowherePlaces == NotFound \notin Places
<1>1. ASSUME NotFound \in Places PROVE FALSE
  <2>1. NotFound.cluster \in Entries
    BY <1>1 DEF Places
  <2> QED BY <2>1, TypeFacts DEF NotFound
<1> QED BY <1>1

\* The first of the positions is one of them.
LEMMA FirstHit ==
  ASSUME Chained(fats[1]), NEW c \in Entries, NEW H, H \in SUBSET Positions(Chain(c)), H # {}
  PROVE  Min(H) \in H /\ Place(Chain(c), Min(H)) \in Places /\ Place(Chain(c), Min(H)).cluster \in Reach(fats[1], c)
<1>1. /\ \A n \in Positions(Chain(c)) : /\ Place(Chain(c), n) \in Places
                                  /\ Place(Chain(c), n).cluster \in Reach(fats[1], c)
      /\ Positions(Chain(c)) \in SUBSET (Nat \ {0})
  BY Placed DEF Chain
<1>2. H \in SUBSET Nat
  BY <1>1
<1>3. Min(H) \in H
  BY <1>2, LeastOf
<1> QED BY <1>1, <1>3

NamedAt(c, n) == FirstPlace(c, LAMBDA e : e.name = n)
UnusedAt(c) == FirstPlace(c, LAMBDA e : e.name \in Unused)

\* The first place of a name in a directory.
LEMMA NamedPlace ==
  ASSUME Chained(fats[1]), NEW c \in Entries, NEW name, NEW loc, loc = NamedAt(c, name)
  PROVE  \/ /\ loc = NotFound
            /\ \A l \in Places : l.cluster \in Reach(fats[1], c) => AtIn(data, l).name # name
         \/ loc \in Places /\ loc.cluster \in Reach(fats[1], c) /\ AtIn(data, loc).name = name
<1> DEFINE H == {n \in Positions(Chain(c)) : At(Place(Chain(c), n)).name = name}
<1>1. loc = IF H = {} THEN NotFound ELSE Place(Chain(c), Min(H))
  BY DEF FirstPlace, NamedAt, UnusedAt
<1>2. \A l \in Places : l.cluster \in Reach(fats[1], c) => \E n \in Positions(Chain(c)) : Place(Chain(c), n) = l
  BY Placed DEF Chain
<1>3. CASE H = {}
  <2>1. \A n \in Positions(Chain(c)) : At(Place(Chain(c), n)).name # name
    BY <1>3
  <2> HIDE DEF H
  <2> QED BY <1>1, <1>2, <1>3, <2>1, AtIs
<1>4. CASE H # {}
  <2>1. Min(H) \in H /\ Place(Chain(c), Min(H)) \in Places /\ Place(Chain(c), Min(H)).cluster \in Reach(fats[1], c)
    <3>1. H \in SUBSET Positions(Chain(c))
      OBVIOUS
    <3> HIDE DEF H
    <3> QED BY <1>4, <3>1, FirstHit
  <2>2. At(Place(Chain(c), Min(H))).name = name
    BY <2>1
  <2> HIDE DEF H
  <2> QED BY <1>1, <1>4, <2>1, <2>2, AtIs
<1> QED BY <1>3, <1>4

\* The first unused place in a directory.
LEMMA UnusedPlace ==
  ASSUME Chained(fats[1]), NEW c \in Entries, NEW loc, loc = UnusedAt(c),
         loc # NotFound
  PROVE  loc \in Places /\ loc.cluster \in Reach(fats[1], c) /\ AtIn(data, loc).name \in Unused
<1> DEFINE H == {n \in Positions(Chain(c)) : At(Place(Chain(c), n)).name \in Unused}
<1>1. loc = IF H = {} THEN NotFound ELSE Place(Chain(c), Min(H))
  BY DEF FirstPlace, NamedAt, UnusedAt
<1>4. H # {}
  BY <1>1
<1>5. Min(H) \in H /\ Place(Chain(c), Min(H)) \in Places /\ Place(Chain(c), Min(H)).cluster \in Reach(fats[1], c)
  <2>1. H \in SUBSET Positions(Chain(c))
    OBVIOUS
  <2> HIDE DEF H
  <2> QED BY <1>4, <2>1, FirstHit
<1>6. At(Place(Chain(c), Min(H))).name \in Unused
  BY <1>5
<1> HIDE DEF H
<1> QED BY <1>1, <1>4, <1>5, <1>6, AtIs

\* The place that get_file_location finds is in the directory at the end of
\* the way; if it finds none, there is no entry of that name.
LEMMA Finding ==
  ASSUME DiskSound(fats[1], data), NEW p \in Seq(NamesOf), p # <<>>
  PROVE  /\ Find(p) = NotFound =>
              \A g : IsWay(fats[1], data, g, Front(p)) =>
                \A l \in Places : l.cluster \in Reach(fats[1], g[Len(p)-1]) => AtIn(data, l).name # Last(p)
         /\ Find(p) # NotFound =>
              /\ Find(p) \in Places /\ AtIn(data, Find(p)).name = Last(p)
              /\ \E g : IsWay(fats[1], data, g, Front(p)) /\ Find(p).cluster \in Reach(fats[1], g[Len(p)-1])
<1>1. Len(p) \in Nat \ {0} /\ Front(p) \in Seq(NamesOf) /\ Len(Front(p)) = Len(p) - 1
  BY FrontIs
<1> DEFINE c == file_path_destination(Front(p))
<1>2. Find(p) = IF c = -1 THEN NotFound ELSE NamedAt(c, Last(p))
  BY DEF Find, NamedAt
<1>3. /\ \A g : IsWay(fats[1], data, g, Front(p)) => c = g[Len(p)-1]
      /\ c = -1 \/ \E g : IsWay(fats[1], data, g, Front(p))
  BY <1>1, Destination
<1> HIDE DEF c
<1>4. \A g : IsWay(fats[1], data, g, Front(p)) => g[Len(p)-1] \in Entries
  BY <1>1 DEF IsWay
<1>5. CASE c = -1
  <2>1. \A g : ~IsWay(fats[1], data, g, Front(p))
    BY <1>3, <1>4, <1>5, TypeFacts
  <2> QED BY <1>2, <1>5, <2>1
<1>6. CASE c # -1
  <2>1. PICK g : IsWay(fats[1], data, g, Front(p))
    BY <1>3, <1>6
  <2>2. c = g[Len(p)-1] /\ c \in Entries
    BY <1>3, <1>4, <2>1
  <2>3. Chained(fats[1])
    BY SoundFacts
  <2>4. PICK loc : loc = NamedAt(c, Last(p))
    OBVIOUS
  <2>5. \/ /\ loc = NotFound
           /\ \A l \in Places : l.cluster \in Reach(fats[1], c) => AtIn(data, l).name # Last(p)
        \/ loc \in Places /\ loc.cluster \in Reach(fats[1], c) /\ AtIn(data, loc).name = Last(p)
    BY <2>2, <2>3, <2>4, NamedPlace
  <2>6. Find(p) = loc
    BY <1>2, <1>6, <2>4
  <2>7. CASE loc = NotFound
    <3>1. \A l \in Places : l.cluster \in Reach(fats[1], c) => AtIn(data, l).name # Last(p)
      BY <2>5, <2>7, NowherePlaces
    <3> QED BY <1>3, <2>6, <2>7, <3>1
  <2>8. CASE loc # NotFound
    <3>1. loc \in Places /\ loc.cluster \in Reach(fats[1], c) /\ AtIn(data, loc).name = Last(p)
      BY <2>5, <2>8
    <3> QED BY <2>1, <2>2, <2>6, <2>8, <3>1
  <2> QED BY <2>7, <2>8
<1> QED BY <1>5, <1>6

-----------------------------------------------------------------------------
(* On a sound disk no cluster belongs to two files or directories *)

\* Two chains that begin with no link before them are the same or apart.
LEMMA HeadsMeet ==
  ASSUME NEW fat, FatSound(fat), NEW v \in Entries, \A c \in Entries : fat[c] # v,
         NEW u \in Entries, \A c \in Entries : fat[c] # u,
         NEW x, x \in Reach(fat, u), x \in Reach(fat, v)
  PROVE  u = v
<1>1. u \in Reach(fat, v)
  BY FatIsChained, ReachMeets
<1> SUFFICES ASSUME u # v PROVE FALSE
  OBVIOUS
<1>2. PICK e \in Reach(fat, v) : fat[e] = u
  BY <1>1, FatIsChained, ReachPred
<1>3. e \in Entries
  BY FatIsChained, ReachClosed
<1> QED BY <1>2, <1>3

\* A path is a sequence of names.
LEMMA PathIsSeq ==
  ASSUME NEW p \in Paths
  PROVE  p \in Seq(Names) /\ p \in Seq(NamesOf) /\ p # <<>> /\ Last(p) \in Names
<1>1. PICK n \in 1..Depth : p \in [1..n -> Names]
  BY DEF Paths
<1>2. n \in Nat /\ n >= 1
  BY FatAssumption
<1>3. p \in Seq(Names) /\ Len(p) = n
  BY <1>1, <1>2
<1>4. p # <<>>
  BY <1>2, <1>3, EmptySeq
<1>5. Last(p) \in Names
  BY <1>3, <1>4, FrontIs
<1>6. p \in Seq(NamesOf)
  BY <1>3 DEF NamesOf, Known
<1> QED BY <1>3, <1>4, <1>5, <1>6

\* The empty path leads to the root.
LEMMA RootWay ==
  ASSUME NEW fat, NEW dat
  PROVE  IsWay(fat, dat, [k \in 0..0 |-> Root], <<>>)
BY RootFacts DEF IsWay

\* An owner's entry.
LEMMA OwnerFound ==
  ASSUME DiskSound(fats[1], data), NEW p \in Owners, p # <<>>
  PROVE  /\ p \in Seq(NamesOf) /\ p # <<>> /\ Len(p) \in Nat \ {0}
         /\ Find(p) \in UsedIn(data) /\ AtIn(data, Find(p)).name = p[Len(p)]
         /\ \E g : IsWay(fats[1], data, g, Front(p)) /\ Find(p).cluster \in Reach(fats[1], g[Len(p)-1])
<1>1. CASE p \in Live
  <2>1. p \in Paths /\ Find(p) # NotFound
    BY <1>1 DEF Live
  <2>2. p \in Seq(NamesOf) /\ p # <<>> /\ Last(p) \in Names
    BY <2>1, PathIsSeq
  <2>3. Len(p) \in Nat \ {0} /\ Last(p) = p[Len(p)]
    BY <2>2, FrontIs
  <2>4. /\ Find(p) \in Places /\ AtIn(data, Find(p)).name = Last(p)
        /\ \E g : IsWay(fats[1], data, g, Front(p)) /\ Find(p).cluster \in Reach(fats[1], g[Len(p)-1])
    BY <2>1, <2>2, Finding
  <2> QED BY <2>2, <2>3, <2>4 DEF UsedIn, InUse, Known
<1>2. CASE Kernel /\ p = <<"kernel">>
  <2>1. p \in Seq(NamesOf) /\ Len(p) = 1 /\ p[1] = "kernel"
    BY <1>2, KnownFacts DEF NamesOf
  <2>2. Last(p) = "kernel" /\ Len(Front(p)) = 0 /\ Front(p) \in Seq(NamesOf)
    BY <2>1, FrontIs
  <2>3. Front(p) = <<>>
    BY <2>2, EmptySeq
  <2> DEFINE r == [cluster |-> Root, slot |-> 1]
             g0 == [k \in 0..0 |-> Root]
  <2>4. AtIn(data, r).name = "kernel" /\ r \in Places /\ r.cluster = Root
    BY <1>2, SoundFacts, RootFacts, FatAssumption DEF NamesSound, Places
  <2>5. IsWay(fats[1], data, g0, Front(p)) /\ g0[0] = Root
    BY <2>3, RootWay
  <2>6. Root \in Reach(fats[1], Root)
    BY SoundFacts, RootFacts, ReachClosed
  <2> HIDE DEF r, g0
  <2>7. Find(p) # NotFound
    <3> SUFFICES ASSUME Find(p) = NotFound PROVE FALSE
      OBVIOUS
    <3>1. \A l \in Places : l.cluster \in Reach(fats[1], g0[Len(p)-1]) => AtIn(data, l).name # Last(p)
      BY <2>1, <2>5, Finding
    <3>2. Len(p)-1 = 0
      BY <2>1
    <3> QED BY <2>2, <2>4, <2>5, <2>6, <3>1, <3>2
  <2>8. /\ Find(p) \in Places /\ AtIn(data, Find(p)).name = Last(p)
        /\ \E g : IsWay(fats[1], data, g, Front(p)) /\ Find(p).cluster \in Reach(fats[1], g[Len(p)-1])
    BY <2>1, <2>7, Finding
  <2>9. Find(p) \in UsedIn(data)
    BY <2>2, <2>8 DEF UsedIn, InUse, Known
  <2> QED BY <2>1, <2>2, <2>8, <2>9
<1> QED BY <1>1, <1>2 DEF Owners

HeadOf(p) == IF p = <<>> THEN Root ELSE AtIn(data, Find(p)).cluster

\* Two owners of a cluster are the same.
LEMMA OwnersApart ==
  ASSUME DiskSound(fats[1], data), NEW p \in Owners, NEW q \in Owners,
         NEW x, x \in Reach(fats[1], HeadOf(p)), x \in Reach(fats[1], HeadOf(q))
  PROVE  p = q
<1>1. Chained(fats[1]) /\ FatSound(fats[1]) /\ HeadsSound(fats[1], data)
  BY SoundFacts
<1>2. \A c \in Entries : fats[1][c] # Root
  BY <1>1, RootFacts DEF FatSound
<1>3. \A o \in Owners : o # <<>> =>
         /\ HeadOf(o) = AtIn(data, Find(o)).cluster /\ Find(o) \in UsedIn(data)
         /\ HeadOf(o) \in Entries \ {Root} /\ \A c \in Entries : fats[1][c] # HeadOf(o)
  BY <1>1, OwnerFound, HeadFacts DEF HeadOf
<1>4. \A o \in Owners : HeadOf(o) \in Entries /\ \A c \in Entries : fats[1][c] # HeadOf(o)
  BY <1>2, <1>3, RootFacts DEF HeadOf
<1>5. HeadOf(p) = HeadOf(q)
  BY <1>1, <1>4, HeadsMeet
<1>6. CASE p = <<>> \/ q = <<>>
  BY <1>3, <1>5, <1>6 DEF HeadOf
<1>7. CASE p # <<>> /\ q # <<>>
  <2>1. Find(p) = Find(q) /\ Find(p) \in UsedIn(data)
    BY <1>1, <1>3, <1>5, <1>7, HeadFacts
  <2>2. /\ p \in Seq(NamesOf) /\ Len(p) \in Nat \ {0} /\ AtIn(data, Find(p)).name = p[Len(p)] /\ p # <<>>
    BY <1>7, OwnerFound
  <2>3. /\ q \in Seq(NamesOf) /\ Len(q) \in Nat \ {0} /\ AtIn(data, Find(q)).name = q[Len(q)] /\ q # <<>>
    BY <1>7, OwnerFound
  <2>4. PICK g : IsWay(fats[1], data, g, Front(p)) /\ Find(p).cluster \in Reach(fats[1], g[Len(p)-1])
    BY <1>7, OwnerFound
  <2>5. PICK f : IsWay(fats[1], data, f, Front(q)) /\ Find(q).cluster \in Reach(fats[1], f[Len(q)-1])
    BY <1>7, OwnerFound
  <2>6. PICK a \in Nat : a = Len(p) - 1
    BY <2>2
  <2>7. PICK b \in Nat : b = Len(q) - 1
    BY <2>3
  <2>8. /\ Len(Front(p)) = a /\ \A i \in 1..a : Front(p)[i] = p[i]
        /\ Len(Front(q)) = b /\ \A i \in 1..b : Front(q)[i] = q[i]
    BY <2>2, <2>3, <2>6, <2>7, FrontIs
  <2>9. a \in 0..Len(Front(p)) /\ b \in 0..Len(Front(q)) /\ Len(Front(p)) \in Nat /\ Len(Front(q)) \in Nat
    BY <2>8
  <2>10. /\ g[a] \in Entries /\ \A c \in Entries : fats[1][c] # g[a]
         /\ f[b] \in Entries /\ \A c \in Entries : fats[1][c] # f[b]
    BY <2>4, <2>5, <2>9, WayHeads
  <2>11. g[a] = f[b]
    BY <1>1, <2>1, <2>4, <2>5, <2>6, <2>7, <2>10, HeadsMeet
  <2>12. a = b /\ \A i \in 1..a : Front(p)[i] = Front(q)[i]
    BY <2>4, <2>5, <2>9, <2>11, WaysMeet
  <2>13. Len(p) = Len(q) /\ \A i \in 1..Len(p) : p[i] = q[i]
    <3>1. Len(p) = a + 1 /\ Len(q) = a + 1
      BY <2>2, <2>3, <2>6, <2>7, <2>12
    <3>2. p[a+1] = q[a+1]
      BY <2>1, <2>2, <2>3, <3>1
    <3>3. \A i \in 1..a+1 : i \in 1..a \/ i = a + 1
      OBVIOUS
    <3> QED BY <2>8, <2>12, <3>1, <3>2, <3>3
  <2> QED BY <2>2, <2>3, <2>13, SeqEqual
<1> QED BY <1>6, <1>7

\* So NotShared follows from a sound disk.
LEMMA SoundNotShared ==
  ASSUME DiskSound(fats[1], data)
  PROVE  NotShared
<1>1. \A p : ClustersOf(p) = Reach(fats[1], HeadOf(p))
  BY AtIs DEF ClustersOf, HeadOf, Reach, Chain
<1> DEFINE claims == {<<p, ClustersOf(p)>> : p \in Owners}
<1>2. ASSUME NEW a \in claims, NEW b \in claims, a # b PROVE a[2] \cap b[2] = {}
  <2>1. PICK p \in Owners : a = <<p, ClustersOf(p)>>
    OBVIOUS
  <2>2. PICK q \in Owners : b = <<q, ClustersOf(q)>>
    OBVIOUS
  <2>3. p # q
    BY <1>2, <2>1, <2>2
  <2>4. \A x : ~(x \in Reach(fats[1], HeadOf(p)) /\ x \in Reach(fats[1], HeadOf(q)))
    BY <2>3, OwnersApart
  <2>5. a[2] = Reach(fats[1], HeadOf(p)) /\ b[2] = Reach(fats[1], HeadOf(q))
    BY <1>1, <2>1, <2>2
  <2> HIDE DEF claims
  <2> QED BY <2>4, <2>5
<1> HIDE DEF claims
<1> QED BY <1>2 DEF NotShared, claims

-----------------------------------------------------------------------------
(* The calls that wait *)

\* td2 is td with the calls cs in place of the first.
Restacked(td2, td, cs) ==
  /\ Len(td) \in Nat \ {0} /\ Len(cs) \in Nat /\ Len(td2) \in Nat
  /\ Len(td2) + 1 = Len(cs) + Len(td)
  /\ \A i \in 1..Len(cs) : td2[i] = cs[i]
  /\ \A i \in 1..Len(td)-1 : td2[i + Len(cs)] = td[i+1]

\* The call i of td is the call m of td2.
Lower(td2, td, cs, i, m) ==
  /\ Len(td) \in Nat /\ Len(td2) \in Nat /\ Len(cs) \in Nat
  /\ i \in 2..Len(td) /\ m \in 1..Len(td2) /\ td2[m] = td[i]
  /\ i + 1 <= Len(td) => m + 1 <= Len(td2) /\ td2[m+1] = td[i+1]
  /\ i + 2 <= Len(td) => m + 2 <= Len(td2) /\ td2[m+2] = td[i+2]
  /\ \A j \in 1..m-1 : (j \in 1..Len(cs) /\ td2[j] = cs[j]) \/ \E k \in 2..i-1 : td2[j] = td[k]
  /\ \A j \in 1..Len(cs) : j \in 1..m-1 /\ td2[j] = cs[j]
  /\ \A k \in 2..i-1 : \E j \in 1..m-1 : td2[j] = td[k]
  /\ \A j \in m+1..Len(td2) : \E k \in i+1..Len(td) : td2[j] = td[k]
  /\ \A j \in m+2..Len(td2) : \E k \in i+2..Len(td) : td2[j] = td[k]
  /\ \A k \in i+1..Len(td) : \E j \in m+1..Len(td2) : td2[j] = td[k]
  /\ \/ i > 2 /\ m > 1 /\ i-1 \in 2..Len(td) /\ td2[m-1] = td[i-1]
     \/ i = 2 /\ m > 1 /\ Len(cs) \in 1..Len(cs) /\ m - 1 = Len(cs) /\ td2[m-1] = cs[Len(cs)]
     \/ i = 2 /\ m = 1 /\ Len(cs) = 0

\* The difference of two numbers.
LEMMA Less ==
  ASSUME NEW a \in Nat, NEW b \in Nat, b <= a
  PROVE  \E k \in Nat : k + b = a
<1>1. a - b \in Nat /\ (a - b) + b = a
  OBVIOUS
<1> QED BY <1>1

\* What the running call goes on as takes its place.
LEMMA RestackedIs ==
  ASSUME NEW s, s \in Seq(Range(s)), s # <<>>, NEW cs, cs \in Seq(Range(cs)),
         NEW t, t = cs \o Tail(s)
  PROVE  Restacked(t, s, cs) /\ t \in Seq(Range(t))
<1>1. /\ Len(s) \in Nat \ {0} /\ Len(cs) \in Nat
      /\ Tail(s) \in Seq(Range(s)) /\ Len(Tail(s)) = Len(s) - 1
      /\ \A i \in 1..Len(s)-1 : Tail(s)[i] = s[i+1]
  OBVIOUS
<1>2. Follows(t, s, cs)
  BY Stacked
<1>3. cs \in Seq(Range(cs) \cup Range(s)) /\ Tail(s) \in Seq(Range(cs) \cup Range(s))
  BY <1>1
<1>4. Len(t) = Len(cs) + Len(Tail(s))
  BY <1>3
<1>5. \A i \in 1..Len(t) : t[i] = IF i <= Len(cs) THEN cs[i] ELSE Tail(s)[i - Len(cs)]
  BY <1>3, <1>4
<1>6. ASSUME NEW i \in 1..Len(s)-1 PROVE t[i + Len(cs)] = s[i+1]
  <2>1. PICK m \in Nat : m = i + Len(cs)
    BY <1>1
  <2>2. m \in 1..Len(t) /\ ~(m <= Len(cs)) /\ m - Len(cs) = i
    BY <1>1, <1>4, <2>1
  <2>3. t[m] = Tail(s)[i]
    BY <1>5, <2>2
  <2> QED BY <1>1, <2>1, <2>3
<1>7. \A i \in 1..Len(cs) : t[i] = cs[i]
  BY <1>1, <1>4, <1>5
<1> QED BY <1>1, <1>2, <1>4, <1>6, <1>7 DEF Restacked, Follows

\* Where a call that waits goes.
LEMMA LowerAt ==
  ASSUME NEW td2, NEW td, NEW cs, Restacked(td2, td, cs), NEW i \in 2..Len(td),
         NEW m \in Nat, i + Len(cs) = m + 1
  PROVE  Lower(td2, td, cs, i, m) /\ m \in 1..Len(td2)
<1>0. /\ Len(td) \in Nat \ {0} /\ Len(cs) \in Nat /\ Len(td2) \in Nat /\ Len(td2) + 1 = Len(cs) + Len(td)
  BY DEF Restacked
<1>1. i \in Nat /\ i + Len(cs) = m + 1
  BY <1>0
<1>2. i \in 2..Len(td)
  OBVIOUS
<1>16. ~(m <= Len(cs)) /\ m \in 1..Len(td2)
  BY <1>0
<1>3. ASSUME NEW k \in 2..Len(td), NEW j \in Nat, j + 1 = k + Len(cs)
      PROVE  j \in 1..Len(td2) /\ td2[j] = td[k]
  <2>1. PICK k1 \in Nat : k1 + 1 = k
    <3>1. k - 1 \in Nat
      OBVIOUS
    <3> QED BY <3>1
  <2>2. k1 \in 1..Len(td)-1 /\ j = k1 + Len(cs)
    BY <1>0, <1>3, <2>1
  <2> QED BY <2>1, <2>2, <1>0, <1>3 DEF Restacked
<1>4. td2[m] = td[i]
  BY <1>3, <1>2, <1>1
<1>5. i + 1 <= Len(td) => m + 1 <= Len(td2) /\ td2[m+1] = td[i+1]
  <2> SUFFICES ASSUME i + 1 <= Len(td) PROVE m + 1 <= Len(td2) /\ td2[m+1] = td[i+1]
    OBVIOUS
  <2>1. i + 1 \in 2..Len(td) /\ m + 1 \in Nat /\ (m + 1) + 1 = (i + 1) + Len(cs)
    BY <1>0, <1>1, <1>2
  <2> QED BY <2>1, <1>3, <1>0
<1>6. i + 2 <= Len(td) => m + 2 <= Len(td2) /\ td2[m+2] = td[i+2]
  <2> SUFFICES ASSUME i + 2 <= Len(td) PROVE m + 2 <= Len(td2) /\ td2[m+2] = td[i+2]
    OBVIOUS
  <2>1. i + 2 \in 2..Len(td) /\ m + 2 \in Nat /\ (m + 2) + 1 = (i + 2) + Len(cs)
    BY <1>0, <1>1, <1>2
  <2> QED BY <2>1, <1>3, <1>0
<1>7. \A j \in 1..Len(cs) : j \in 1..m-1 /\ td2[j] = cs[j]
  <2>1. \A j \in 1..Len(cs) : td2[j] = cs[j]
    BY DEF Restacked
  <2> QED BY <2>1, <1>16, <1>0
<1>8. ASSUME NEW j \in 1..Len(td2), j > Len(cs)
      PROVE  \E k \in 2..Len(td) : td2[j] = td[k] /\ k + Len(cs) = j + 1
  <2>1. PICK k \in Nat : k + Len(cs) = j + 1
    <3>1. j + 1 \in Nat /\ Len(cs) <= j + 1 /\ Len(cs) \in Nat
      BY <1>0, <1>8
    <3> QED BY <3>1, Less
  <2>2. k \in 2..Len(td)
    BY <1>0, <1>8, <2>1
  <2> QED BY <2>1, <2>2, <1>3
<1>9. ASSUME NEW j \in 1..m-1
      PROVE  (j \in 1..Len(cs) /\ td2[j] = cs[j]) \/ \E k \in 2..i-1 : td2[j] = td[k]
  <2>1. CASE j <= Len(cs)
    BY <2>1, <1>0, <1>7
  <2>2. CASE j > Len(cs)
    <3>1. PICK k \in 2..Len(td) : td2[j] = td[k] /\ k + Len(cs) = j + 1
      BY <2>2, <1>8, <1>0
    <3>2. k \in 2..i-1
      BY <3>1, <1>1, <1>0
    <3> QED BY <3>1, <3>2
  <2> QED BY <2>1, <2>2, <1>0
<1>10. ASSUME NEW k \in 2..i-1 PROVE \E j \in 1..m-1 : td2[j] = td[k]
  <2>1. PICK j \in Nat : j + 1 = k + Len(cs)
    <3>1. k + Len(cs) - 1 \in Nat
      BY <1>0
    <3> QED BY <3>1, <1>0
  <2>2. k \in 2..Len(td) /\ j \in 1..m-1
    BY <2>1, <1>0, <1>1, <1>2
  <2> QED BY <2>1, <2>2, <1>3
<1>11. ASSUME NEW j \in m+1..Len(td2) PROVE \E k \in i+1..Len(td) : td2[j] = td[k]
  <2>1. j \in 1..Len(td2) /\ j > Len(cs)
    BY <1>0, <1>16
  <2>2. PICK k \in 2..Len(td) : td2[j] = td[k] /\ k + Len(cs) = j + 1
    BY <2>1, <1>8
  <2>3. k \in i+1..Len(td)
    BY <2>2, <1>1, <1>0
  <2> QED BY <2>2, <2>3
<1>12. ASSUME NEW j \in m+2..Len(td2) PROVE \E k \in i+2..Len(td) : td2[j] = td[k]
  <2>1. j \in 1..Len(td2) /\ j > Len(cs)
    BY <1>0, <1>16
  <2>2. PICK k \in 2..Len(td) : td2[j] = td[k] /\ k + Len(cs) = j + 1
    BY <2>1, <1>8
  <2>3. k \in i+2..Len(td)
    BY <2>2, <1>1, <1>0
  <2> QED BY <2>2, <2>3
<1>15. ASSUME NEW k \in i+1..Len(td) PROVE \E j \in m+1..Len(td2) : td2[j] = td[k]
  <2>1. PICK j \in Nat : j + 1 = k + Len(cs)
    <3>1. k + Len(cs) - 1 \in Nat
      BY <1>0
    <3> QED BY <3>1, <1>0
  <2>2. k \in 2..Len(td)
    BY <1>0, <1>1, <1>2
  <2>3. j \in 1..Len(td2) /\ td2[j] = td[k]
    BY <2>1, <2>2, <1>3
  <2>4. j \in m+1..Len(td2)
    BY <2>1, <2>3, <1>0, <1>1
  <2> QED BY <2>3, <2>4
<1>13. \/ i > 2 /\ m > 1 /\ i-1 \in 2..Len(td) /\ td2[m-1] = td[i-1]
       \/ i = 2 /\ m > 1 /\ Len(cs) \in 1..Len(cs) /\ m - 1 = Len(cs) /\ td2[m-1] = cs[Len(cs)]
       \/ i = 2 /\ m = 1 /\ Len(cs) = 0
  <2>1. CASE i > 2
    <3>1. i - 1 \in 2..Len(td) /\ m - 1 \in Nat /\ (m - 1) + 1 = (i - 1) + Len(cs) /\ m > 1
      BY <2>1, <1>0, <1>1, <1>2
    <3> QED BY <2>1, <3>1, <1>3
  <2>2. CASE i = 2 /\ Len(cs) > 0
    <3>1. m > 1 /\ m - 1 = Len(cs) /\ Len(cs) \in 1..Len(cs)
      BY <2>2, <1>0, <1>1
    <3> QED BY <2>2, <3>1, <1>7
  <2>3. CASE i = 2 /\ Len(cs) = 0
    BY <2>3, <1>0, <1>1
  <2> QED BY <2>1, <2>2, <2>3, <1>0, <1>2
<1>17. /\ \A j \in 1..m-1 : (j \in 1..Len(cs) /\ td2[j] = cs[j]) \/ \E k \in 2..i-1 : td2[j] = td[k]
       /\ \A k \in 2..i-1 : \E j \in 1..m-1 : td2[j] = td[k]
  BY ONLY <1>9, <1>10
<1>18. /\ \A j \in m+1..Len(td2) : \E k \in i+1..Len(td) : td2[j] = td[k]
       /\ \A j \in m+2..Len(td2) : \E k \in i+2..Len(td) : td2[j] = td[k]
       /\ \A k \in i+1..Len(td) : \E j \in m+1..Len(td2) : td2[j] = td[k]
  BY ONLY <1>11, <1>12, <1>15
<1>19. /\ Len(td) \in Nat /\ Len(td2) \in Nat /\ Len(cs) \in Nat
       /\ i \in 2..Len(td) /\ m \in 1..Len(td2)
  BY <1>0, <1>2
<1>14. Lower(td2, td, cs, i, m)
  BY ONLY <1>4, <1>5, <1>6, <1>7, <1>13, <1>17, <1>18, <1>19 DEF Lower
<1> QED BY <1>14, <1>16

\* Each call of td2 is one of cs or a call that has waited.
LEMMA LowerIs ==
  ASSUME NEW td2, NEW td, NEW cs, Restacked(td2, td, cs), NEW m \in 1..Len(td2)
  PROVE  \/ m \in 1..Len(cs) /\ td2[m] = cs[m]
         \/ \E i \in 2..Len(td) : Lower(td2, td, cs, i, m)
<1>0. /\ Len(td) \in Nat \ {0} /\ Len(cs) \in Nat /\ Len(td2) \in Nat /\ Len(td2) + 1 = Len(cs) + Len(td)
  BY DEF Restacked
<1>1. CASE m <= Len(cs)
  BY <1>0, <1>1 DEF Restacked
<1>2. CASE ~(m <= Len(cs))
  <2>1. PICK i \in Nat : i + Len(cs) = m + 1
    <3>1. m + 1 - Len(cs) \in Nat
      BY <1>2, <1>0
    <3> QED BY <3>1, <1>0
  <2>2. i \in 2..Len(td) /\ m \in Nat
    BY <1>2, <1>0, <2>1
  <2> QED BY <2>1, <2>2, LowerAt
<1> QED BY <1>0, <1>1, <1>2

-----------------------------------------------------------------------------
(* The calls that wait stay sound *)

\* Entries in use are only taken away.
Fewer(dat, dat2) == /\ UsedIn(dat2) \subseteq UsedIn(dat)
                    /\ \A l \in UsedIn(dat2) : AtIn(dat2, l) = AtIn(dat, l)

\* Links are only taken away, and what was in use stays in use.
Ends(fat, fat2) == \A d \in Entries : /\ fat2[d] \in Entries => fat2[d] = fat[d]
                                      /\ fat[d] # 0 => fat2[d] # 0

\* What waits below a call keeps waiting below it.
LEMMA LowerParts ==
  ASSUME NEW td2, NEW td, NEW cs, NEW i, NEW m, Lower(td2, td, cs, i, m)
  PROVE  /\ Rest(td, i) => Rest(td2, m)
         /\ Lone(td, i) => Lone(td2, m)
<1>1. \A j \in m+1..Len(td2) : \E k \in i+1..Len(td) : td2[j] = td[k]
  BY DEF Lower
<1> QED BY <1>1 DEF Rest, Lone

\* A command that deletes nothing goes on deleting nothing.
LEMMA CalmKept ==
  ASSUME NEW td2, NEW td, NEW cs, Restacked(td2, td, cs), Calm(td), Calm(cs)
  PROVE  Calm(td2)
<1>1. ASSUME NEW m \in 1..Len(td2) PROVE td2[m].f \notin {"delete_file", "delete_inside", "free_chain", "create_file", "find_new"}
  <2>1. CASE m \in 1..Len(cs) /\ td2[m] = cs[m]
    BY <2>1 DEF Calm
  <2>2. CASE \E i \in 2..Len(td) : Lower(td2, td, cs, i, m)
    <3>1. PICK i \in 2..Len(td) : Lower(td2, td, cs, i, m)
      BY <2>2
    <3>2. i \in 1..Len(td) /\ td2[m] = td[i]
      BY <3>1 DEF Lower
    <3> QED BY <3>2 DEF Calm
  <2> QED BY <2>1, <2>2, LowerIs
<1> QED BY <1>1 DEF Calm

\* Calls that ask for nothing but the rest below them.
LEMMA LowerPlain ==
  ASSUME NEW td2, NEW td, NEW cs, NEW i, NEW m, Lower(td2, td, cs, i, m),
         NEW fat, NEW dat, NEW rt, NEW fat2, NEW dat2, NEW rt2,
         CallSound(fat, dat, td, rt, i),
         td[i].f \in {"write_fat", "write_to_file", "look", "grow", "fill", "return"},
         td[i].f \in {"grow", "fill", "return"} => Calm(td2)
  PROVE  CallSound(fat2, dat2, td2, rt2, m)
<1>1. td2[m] = td[i] /\ i \in 2..Len(td) /\ i # 1
  BY DEF Lower
<1>2. Rest(td, i) => Rest(td2, m)
  BY LowerParts
<1>3. td[i].f = "write_fat" => td2[m].args[1] # 1
  BY <1>1 DEF CallSound, WriteFatOK
<1> QED BY <1>1, <1>2, <1>3 DEF CallSound, WriteFatOK

\* What still takes part in the FAT's change stays in the list.
LEMMA LowerSets ==
  ASSUME NEW td2, NEW td, NEW cs, NEW i, NEW m, Lower(td2, td, cs, i, m),
         NEW fat, NEW dat, NEW rt, AllSound(fat, dat, td, rt),
         NEW j \in 1..i-1, NEW c, NEW w, Sets(fat, td[j], c, w)
  PROVE  \/ Sets(fat, td[1], c, w)
         \/ /\ td[j].f = "modify_fat" /\ td[j].args[1] = c /\ td[j].args[2] = w
            /\ \E k \in 1..m-1 : td2[k] = td[j]
<1>1. CASE j = 1
  BY <1>1
<1>2. CASE j # 1
  <2>1. j \in 2..i-1 /\ j \in 1..Len(td)
    BY <1>2 DEF Lower
  <2>2. PICK k \in 1..m-1 : td2[k] = td[j]
    BY <2>1 DEF Lower
  <2>3. td[j].f = "write_fat" => td[j].args[1] # 1
    BY <2>1, <1>2 DEF AllSound, CallSound, WriteFatOK
  <2> QED BY <2>2, <2>3 DEF Sets
<1> QED BY <1>1, <1>2

\* A modify_fat that waits stays sound.
LEMMA LowerModify ==
  ASSUME NEW td2, NEW td, NEW cs, NEW i, NEW m, Lower(td2, td, cs, i, m),
         NEW fat, NEW dat, NEW rt, NEW fat2, NEW dat2, NEW rt2,
         AllSound(fat, dat, td, rt),
         td[i].f = "modify_fat",
         Calm(td) => /\ Calm(td2) /\ Ends(fat, fat2) /\ Fewer(dat, dat2)
                     /\ \A w \in Entries : Sets(fat, td[1], w, EOC) =>
                           fat2[w] # 0 \/ \E j \in 1..Len(cs) : Sets(fat2, cs[j], w, EOC)
  PROVE  CallSound(fat2, dat2, td2, rt2, m)
<1> DEFINE c == td[i].args[1]
           w == td[i].args[2]
<1>1. td2[m] = td[i] /\ i \in 2..Len(td) /\ i # 1 /\ i \in 1..Len(td)
  BY DEF Lower
<1>2. ModifyOK(fat, dat, td, i)
  BY <1>1 DEF AllSound, CallSound
<1>3. /\ c \in Entries \cup {0} /\ w \in Links /\ w # 0 /\ ChangeOK(fat, dat, td, i, c, w)
      /\ w \in Entries => fat[w] # 0 \/ \E j \in 1..i-1 : Sets(fat, td[j], w, EOC)
  BY <1>1, <1>2 DEF ModifyOK
<1> HIDE DEF c, w
<1>4. ASSUME w = EOC PROVE EndOK(fat2, td2, c)
  <2>1. EndOK(fat, td, c)
    BY <1>3, <1>4 DEF ChangeOK
  <2> QED BY <2>1 DEF EndOK, Ends
<1>5. ASSUME w \in Entries PROVE LinkOn(fat2, dat2, td2, m, c, w)
  <2>1. LinkOn(fat, dat, td, i, c, w)
    BY <1>3, <1>5 DEF ChangeOK
  <2>2. Calm(td) /\ Calm(td2) /\ Ends(fat, fat2) /\ Fewer(dat, dat2)
    BY <2>1 DEF LinkOn
  <2>3. Unclaimed(fat2, dat2, w)
    BY <2>1, <2>2, <1>5 DEF LinkOn, Unclaimed, Ends, Fewer
  <2>4. \A j \in m+1..Len(td2) : td2[j].f # "modify_fat"
    <3>1. \A j \in m+1..Len(td2) : \E k \in i+1..Len(td) : td2[j] = td[k]
      BY DEF Lower
    <3> QED BY <3>1, <2>1 DEF LinkOn
  <2>5. fat2[w] \notin Entries /\ (c \in Entries => c # w /\ fat2[c] \notin Entries)
    BY <2>1, <2>2, <1>5 DEF LinkOn, Ends
  <2> QED BY <2>2, <2>3, <2>4, <2>5 DEF LinkOn
<1>6. ASSUME w \in Entries PROVE fat2[w] # 0 \/ \E j \in 1..m-1 : Sets(fat2, td2[j], w, EOC)
  <2>1. LinkOn(fat, dat, td, i, c, w)
    BY <1>3, <1>6 DEF ChangeOK
  <2>2. Calm(td) /\ Ends(fat, fat2)
    BY <2>1 DEF LinkOn
  <2>3. CASE fat[w] # 0
    BY <2>2, <2>3, <1>6 DEF Ends
  <2>4. ASSUME NEW j \in 1..i-1, Sets(fat, td[j], w, EOC) PROVE fat2[w] # 0 \/ \E k \in 1..m-1 : Sets(fat2, td2[k], w, EOC)
    <3>1. CASE Sets(fat, td[1], w, EOC)
      <4>1. CASE fat2[w] # 0
        BY <4>1
      <4>2. CASE \E k \in 1..Len(cs) : Sets(fat2, cs[k], w, EOC)
        <5>1. PICK k \in 1..Len(cs) : Sets(fat2, cs[k], w, EOC)
          BY <4>2
        <5>2. k \in 1..m-1 /\ td2[k] = cs[k]
          BY <5>1 DEF Lower
        <5> QED BY <5>1, <5>2
      <4> QED BY <3>1, <4>1, <4>2, <2>2, <1>6
    <3>2. CASE ~Sets(fat, td[1], w, EOC)
      <4>1. /\ td[j].f = "modify_fat" /\ td[j].args[1] = w /\ td[j].args[2] = EOC
            /\ \E k \in 1..m-1 : td2[k] = td[j]
        BY <2>4, <3>2, LowerSets
      <4>2. PICK k \in 1..m-1 : td2[k] = td[j]
        BY <4>1
      <4>3. Sets(fat2, td2[k], w, EOC)
        BY <4>1, <4>2 DEF Sets
      <4> QED BY <4>3
    <3> QED BY <3>1, <3>2
  <2> QED BY <1>3, <1>6, <2>3, <2>4
<1>7. ModifyOK(fat2, dat2, td2, m)
  <2>1. ChangeOK(fat2, dat2, td2, m, c, w)
    BY <1>3, <1>4, <1>5 DEF ChangeOK
  <2>2. c = td2[m].args[1] /\ w = td2[m].args[2]
    BY <1>1 DEF c, w
  <2> QED BY <1>3, <1>6, <2>1, <2>2 DEF ModifyOK
<1> QED BY <1>1, <1>7 DEF CallSound

\* So does a write to a cluster when nothing is deleted.
LEMMA LowerWrite ==
  ASSUME NEW td2, NEW td, NEW cs, NEW i, NEW m, Lower(td2, td, cs, i, m),
         NEW fat, NEW dat, NEW rt, NEW fat2, NEW dat2, NEW rt2,
         AllSound(fat, dat, td, rt),
         td[i].f = "write_data", Calm(td), Calm(td2), Fewer(dat, dat2),
         \A j \in 1..Len(cs) : cs[j].f # "write_data",
         \A d \in Entries : (td[1].f = "write_data" /\ td[1].args[1] = d) \/ dat2[d] = dat[d],
         td[1].f = "write_data" => /\ Len(cs) = 0 /\ fat2 = fat
                                   /\ Lone(td, 1) \/ \A x, n : InDir(fat, dat, x, n) => InDir(fat2, dat2, x, n)
  PROVE  CallSound(fat2, dat2, td2, rt2, m)
<1> DEFINE c == td[i].args[1]
           img == td[i].args[2]
<1>1. td2[m] = td[i] /\ i \in 2..Len(td) /\ i # 1 /\ i \in 1..Len(td)
  BY DEF Lower
<1>2. WriteOK(fat, dat, td, i)
  BY <1>1 DEF AllSound, CallSound
<1> SUFFICES ASSUME c \in Entries PROVE WriteOK(fat2, dat2, td2, m)
  BY <1>1 DEF CallSound, WriteOK
<1>3. /\ img \in Rows \cup Pieces /\ TextIsText(RowFrom(img))
      /\ (c = Root /\ Kernel) => RowFrom(img)[1].name = "kernel"
      /\ \A j \in 1..i-1 : td[j].f = "write_data" => td[j].args[1] # c
      /\ \/ /\ Thins(dat, c, img)
            /\ (\A l \in UsedIn(dat) : l.cluster # c) \/ Lone(td, i)
         \/ Adds(fat, dat, td, i, c, img)
  BY <1>2 DEF WriteOK
<1>4. c = td2[m].args[1] /\ img = td2[m].args[2]
  BY <1>1
<1> HIDE DEF c, img
<1>5. \A j \in 1..m-1 : td2[j].f = "write_data" => td2[j].args[1] # c
  <2>1. \A j \in 1..m-1 : (j \in 1..Len(cs) /\ td2[j] = cs[j]) \/ \E k \in 2..i-1 : td2[j] = td[k]
    BY DEF Lower
  <2>2. \A k \in 2..i-1 : k \in 1..i-1
    BY <1>1
  <2> QED BY <2>1, <2>2, <1>3
<1>6. dat2[c] = dat[c] /\ \A s : AtIn(dat2, [cluster |-> c, slot |-> s]) = AtIn(dat, [cluster |-> c, slot |-> s])
  <2>1. 1 \in 1..i-1
    BY <1>1
  <2>2. dat2[c] = dat[c]
    BY <2>1, <1>3
  <2> QED BY <2>2 DEF AtIn
<1>7. ASSUME Thins(dat, c, img) /\ ((\A l \in UsedIn(dat) : l.cluster # c) \/ Lone(td, i))
      PROVE  Thins(dat2, c, img) /\ ((\A l \in UsedIn(dat2) : l.cluster # c) \/ Lone(td2, m))
  <2>1. Thins(dat2, c, img)
    BY <1>6, <1>7 DEF Thins
  <2> QED BY <2>1, <1>7, LowerParts DEF Fewer
<1>8. ASSUME Adds(fat, dat, td, i, c, img)
      PROVE  Adds(fat2, dat2, td2, m, c, img)
  <2>1. PICK s \in 1..Slots, n \in Names, d \in BOOLEAN, new \in Entries :
          /\ ~InUse(AtIn(dat, [cluster |-> c, slot |-> s]))
          /\ img = [RowFrom(dat[c]) EXCEPT ![s] = Entry(n, d, new)]
          /\ fat[new] = 0 /\ Unclaimed(fat, dat, new)
          /\ fat[c] # 0 /\ InDir(fat, dat, c, n)
          /\ i + 1 <= Len(td) /\ td[i+1] = modify_fat(new, EOC)
          /\ Calm(td) /\ Rest(td, i+1)
          /\ \A j \in 1..i-1 : td[j].f = "write_data"
    BY <1>8 DEF Adds
  <2>2. td[1].f = "write_data" /\ ~Lone(td, 1)
    <3>1. 1 \in 1..i-1 /\ i \in 1+1..Len(td)
      BY <1>1
    <3> QED BY <3>1, <2>1, <1>1 DEF Lone, c
  <2>3. Len(cs) = 0 /\ fat2 = fat /\ InDir(fat2, dat2, c, n)
    BY <2>1, <2>2
  <2>4. ~InUse(AtIn(dat2, [cluster |-> c, slot |-> s])) /\ img = [RowFrom(dat2[c]) EXCEPT ![s] = Entry(n, d, new)]
    BY <2>1, <1>6
  <2>5. fat2[new] = 0 /\ Unclaimed(fat2, dat2, new) /\ fat2[c] # 0
    BY <2>1, <2>3 DEF Unclaimed, Fewer
  <2>6. m + 1 <= Len(td2) /\ td2[m+1] = modify_fat(new, EOC)
    BY <2>1 DEF Lower
  <2>7. Rest(td2, m+1)
    <3>1. \A j \in (m+1)+1..Len(td2) : td2[j].f \in {"write_to_file", "look"}
      <4>1. SUFFICES ASSUME NEW j \in (m+1)+1..Len(td2) PROVE td2[j].f \in {"write_to_file", "look"}
        OBVIOUS
      <4>2. i \in Nat /\ m \in Nat
        <5>1. i \in 2..Len(td) /\ Len(td) \in Nat /\ m \in 1..Len(td2) /\ Len(td2) \in Nat
          BY <1>1 DEF Lower
        <5> QED BY ONLY <5>1
      <4>3. j \in m+2..Len(td2) /\ \A k : k \in i+2..Len(td) => k \in (i+1)+1..Len(td)
        BY <4>2
      <4>4. PICK k \in i+2..Len(td) : td2[j] = td[k]
        BY <4>3 DEF Lower
      <4> QED BY <4>3, <4>4, <2>1 DEF Rest
    <3> QED BY <3>1 DEF Rest
  <2>8. \A j \in 1..m-1 : td2[j].f = "write_data"
    <3>1. \A j \in 1..m-1 : (j \in 1..Len(cs) /\ td2[j] = cs[j]) \/ \E k \in 2..i-1 : td2[j] = td[k]
      BY DEF Lower
    <3>2. \A k \in 2..i-1 : k \in 1..i-1
      BY <1>1
    <3> QED BY <3>1, <3>2, <2>1, <2>3
  <2> QED BY <2>3, <2>4, <2>5, <2>6, <2>7, <2>8 DEF Adds
<1> QED BY <1>3, <1>4, <1>5, <1>7, <1>8 DEF WriteOK

\* So does the entry that waits for its new cluster.
LEMMA LowerInNew ==
  ASSUME NEW td2, NEW td, NEW cs, NEW i, NEW m, Lower(td2, td, cs, i, m),
         NEW fat, NEW dat, NEW rt, NEW fat2, NEW dat2, NEW rt2,
         AllSound(fat, dat, td, rt),
         td[i].f = "entry_in_new", Calm(td2), Fewer(dat, dat2), td[1].f # "extend_file",
         td[1].f = "return" => Len(cs) = 0 /\ rt2 = td[1].args[1],
         Lone(td, 1) \/ \A x, n : InDir(fat, dat, x, n) => InDir(fat2, dat2, x, n),
         \A x \in Entries, y \in Entries : \A n : InDir(fat, dat, y, n) /\ Sets(fat, td[1], y, x) =>
            \/ InDir(fat2, dat2, x, n)
            \/ InDir(fat2, dat2, y, n) /\ \E j \in 1..Len(cs) : Sets(fat2, cs[j], y, x)
  PROVE  CallSound(fat2, dat2, td2, rt2, m)
<1> DEFINE p == td[i].args[1]
<1>1. td2[m] = td[i] /\ i \in 2..Len(td) /\ i # 1 /\ i \in 1..Len(td) /\ i > 1 /\ i-1 \in 1..i-1 /\ i-1 \in 1..Len(td)
      /\ Len(td) \in Nat /\ i \in Nat
  BY DEF Lower
<1>2. InNewOK(fat, dat, td, rt, i)
  BY <1>1 DEF AllSound, CallSound
<1>3. p \in Paths /\ td[i].args[2] \in BOOLEAN /\ Calm(td) /\ Rest(td, i)
  BY <1>2 DEF InNewOK
<1>4. ~(td[1].f = "extend_file")
  OBVIOUS
<1>5. PICK x \in Entries : /\ td[i-1].f = "return" /\ x = td[i-1].args[1]
                           /\ \A l \in UsedIn(dat) : l.cluster # x
                           /\ ToNew(fat, dat, td, i, Last(p), x)
  <2>1. /\ td[i-1].f = "return"
        /\ \A l \in UsedIn(dat) : l.cluster # td[i-1].args[1]
        /\ ToNew(fat, dat, td, i, Last(p), td[i-1].args[1])
    BY <1>1, <1>2, <1>4 DEF InNewOK
  <2>2. td[i-1].args[1] \in Entries
    BY <2>1, <1>1 DEF AllSound, CallSound
  <2> QED BY <2>1, <2>2
<1> HIDE DEF p
<1>6. \A y, n : InDir(fat, dat, y, n) => InDir(fat2, dat2, y, n)
  <2>1. ~Lone(td, 1)
    <3>1. i \in 1+1..Len(td) /\ td[i].f = "entry_in_new"
      BY <1>1
    <3> QED BY ONLY <3>1 DEF Lone
  <2> QED BY <2>1
<1>7. \A l \in UsedIn(dat2) : l.cluster # x
  BY <1>5 DEF Fewer
<1>8. ToNew(fat2, dat2, td2, m, Last(p), x)
  <2>1. CASE InDir(fat, dat, x, Last(p))
    BY <2>1, <1>6 DEF ToNew
  <2>2. ASSUME NEW j \in 1..i-1, NEW y \in Entries, InDir(fat, dat, y, Last(p)), Sets(fat, td[j], y, x)
        PROVE  ToNew(fat2, dat2, td2, m, Last(p), x)
    <3>1. CASE Sets(fat, td[1], y, x)
      <4>1. CASE InDir(fat2, dat2, x, Last(p))
        BY <4>1 DEF ToNew
      <4>2. CASE \E k \in 1..Len(cs) : Sets(fat2, cs[k], y, x)
        <5>1. PICK k \in 1..Len(cs) : Sets(fat2, cs[k], y, x)
          BY <4>2
        <5>2. k \in 1..m-1 /\ td2[k] = cs[k]
          BY <5>1 DEF Lower
        <5> QED BY <5>1, <5>2, <2>2, <1>6 DEF ToNew
      <4> QED BY <3>1, <4>1, <4>2, <2>2
    <3>2. CASE ~Sets(fat, td[1], y, x)
      <4>0. j \in 1..i-1 /\ Lower(td2, td, cs, i, m) /\ AllSound(fat, dat, td, rt)
        OBVIOUS
      <4>1. /\ td[j].f = "modify_fat" /\ td[j].args[1] = y /\ td[j].args[2] = x
            /\ \E k \in 1..m-1 : td2[k] = td[j]
        BY ONLY <4>0, <2>2, <3>2, LowerSets
      <4>2. PICK k \in 1..m-1 : td2[k] = td[j]
        BY <4>1
      <4>3. Sets(fat2, td2[k], y, x)
        BY <4>1, <4>2 DEF Sets
      <4> QED BY <4>3, <2>2, <1>6 DEF ToNew
    <3> QED BY <3>1, <3>2
  <2> QED BY <2>1, <2>2, <1>5 DEF ToNew
<1>9. CASE m > 1
  <2>1. i > 2 /\ td2[m-1] = td[i-1]
    <3>1. ~(i = 2 /\ Len(cs) \in 1..Len(cs))
      <4> SUFFICES ASSUME i = 2, Len(cs) \in 1..Len(cs) PROVE FALSE
        OBVIOUS
      <4>1. td[1].f = "return"
        BY <1>5
      <4> QED BY <4>1
    <3> QED BY <3>1, <1>9 DEF Lower
  <2>2. td2[m-1].f = "return" /\ td2[m-1].args[1] = x
    BY <2>1, <1>5
  <2>3. Rest(td2, m)
    BY <1>3, LowerParts
  <2>4. InNewOK(fat2, dat2, td2, rt2, m)
    BY <1>1, <1>3, <1>7, <1>8, <1>9, <2>2, <2>3 DEF InNewOK, p
  <2> QED BY <1>1, <2>4 DEF CallSound
<1>10. CASE m = 1
  <2>1. i = 2
    BY <1>10 DEF Lower
  <2>2. rt2 = x
    BY <2>1, <1>5
  <2>3. Rest(td2, m)
    BY <1>3, LowerParts
  <2>4. InDir(fat2, dat2, rt2, Last(p))
    <3>1. \A j \in 1..m-1 : FALSE
      BY <1>10
    <3> QED BY <1>8, <2>2, <3>1 DEF ToNew
  <2>5. InNewOK(fat2, dat2, td2, rt2, m)
    BY <1>1, <1>3, <1>7, <1>10, <2>2, <2>3, <2>4 DEF InNewOK, p
  <2> QED BY <1>1, <2>5 DEF CallSound
<1> QED
  <2>1. m > 1 \/ m = 1
    BY DEF Lower
  <2> QED BY <2>1, <1>9, <1>10

-----------------------------------------------------------------------------
(* The calls that wait while something is deleted *)

\* Links are only taken away.
Cuts(fat, fat2) == /\ \A d \in Entries : fat2[d] \in Entries => fat2[d] = fat[d]
                   /\ \A v \in Links : Reach(fat2, v) \subseteq Reach(fat, v)

\* Nothing that the first call does, and none of the calls that take its
\* place, disturbs a way that the first call is not about.
KeepsWays(fat, dat, td, fat2, dat2, cs) ==
  \A w, g : (/\ Len(w) \in Nat /\ IsWay(fat, dat, g, w)
             /\ td[1].f \in {"delete_file", "delete_inside"} => Len(td[1].args[1]) > Len(w)
             /\ \A k \in 0..Len(w) : ~Takes(fat, dat, td[1], g[k]))
            => /\ IsWay(fat2, dat2, g, w)
               /\ \A k \in 0..Len(w) : /\ Reach(fat2, g[k]) = Reach(fat, g[k])
                                       /\ \A j \in 1..Len(cs) : ~Takes(fat2, dat2, cs[j], g[k])

\* What is to be deleted in a directory is taken away by a call of cs.
HandsOn(fat, dat, td, dat2, cs) ==
  /\ \A l \in UsedIn(dat2) : ~Removes(td[1], l)
  /\ \A w, g : \A l \in UsedIn(dat2) :
        /\ td[1].f = "delete_file" /\ w \in Seq(NamesOf) /\ IsWay(fat, dat, g, w)
        /\ l.cluster \in Reach(fat, g[Len(w)]) /\ td[1].args[1] = Append(w, AtIn(dat, l).name)
        => Len(cs) \in 1..Len(cs) /\ Removes(cs[Len(cs)], l)

\* With fewer entries and links there are no more ways.
LEMMA WayBack ==
  ASSUME NEW fat, NEW fat2, Cuts(fat, fat2), NEW dat, NEW dat2, Fewer(dat, dat2),
         NEW w, Len(w) \in Nat, NEW g, IsWay(fat2, dat2, g, w)
  PROVE  IsWay(fat, dat, g, w)
<1>1. ASSUME NEW k \in 1..Len(w) PROVE Leads(fat, dat, g[k-1], w[k], g[k])
  <2>1. Leads(fat2, dat2, g[k-1], w[k], g[k])
    BY <1>1 DEF IsWay
  <2>2. PICK l \in UsedIn(dat2) : /\ l.cluster \in Reach(fat2, g[k-1])
                                  /\ AtIn(dat2, l).name = w[k] /\ AtIn(dat2, l).dir /\ AtIn(dat2, l).cluster = g[k]
    BY <2>1 DEF Leads
  <2>3. g[k-1] \in Links
    <3>1. k - 1 \in 0..Len(w)
      OBVIOUS
    <3> QED BY <3>1 DEF IsWay, Links
  <2>4. l \in UsedIn(dat) /\ AtIn(dat2, l) = AtIn(dat, l)
    BY <2>2 DEF Fewer
  <2>5. l.cluster \in Reach(fat, g[k-1])
    BY <2>2, <2>3 DEF Cuts
  <2> QED BY <2>2, <2>4, <2>5 DEF Leads
<1> QED BY <1>1 DEF IsWay

\* A write to a cluster that waits while something is deleted.
LEMMA LowerWriteOn ==
  ASSUME NEW td2, NEW td, NEW cs, NEW i, NEW m, Lower(td2, td, cs, i, m),
         NEW fat, NEW dat, NEW rt, NEW fat2, NEW dat2, NEW rt2,
         AllSound(fat, dat, td, rt),
         td[i].f = "write_data", ~Calm(td), Fewer(dat, dat2),
         \A j \in 1..Len(cs) : cs[j].f = "write_data" => cs[j].args[1] # td[i].args[1],
         \A d \in Entries : (td[1].f = "write_data" /\ td[1].args[1] = d) \/ dat2[d] = dat[d],
         td[1].f = "free_chain" => Len(cs) = 0 \/ cs[Len(cs)].f = "free_chain"
  PROVE  CallSound(fat2, dat2, td2, rt2, m)
<1> DEFINE c == td[i].args[1]
           img == td[i].args[2]
<1>1. td2[m] = td[i] /\ i \in 2..Len(td) /\ i # 1 /\ i \in 1..Len(td) /\ i > 1 /\ i \in Nat /\ Len(td) \in Nat
  BY DEF Lower
<1>2. WriteOK(fat, dat, td, i)
  BY <1>1 DEF AllSound, CallSound
<1> SUFFICES ASSUME c \in Entries PROVE WriteOK(fat2, dat2, td2, m)
  BY <1>1 DEF CallSound, WriteOK
<1>3. /\ img \in Rows \cup Pieces /\ TextIsText(RowFrom(img))
      /\ (c = Root /\ Kernel) => RowFrom(img)[1].name = "kernel"
      /\ \A j \in 1..i-1 : td[j].f = "write_data" => td[j].args[1] # c
      /\ Thins(dat, c, img) /\ td[i-1].f = "free_chain"
  <2>1. ~Adds(fat, dat, td, i, c, img)
    BY DEF Adds
  <2> QED BY <1>1, <1>2, <2>1 DEF WriteOK
<1>4. c = td2[m].args[1] /\ img = td2[m].args[2]
  BY <1>1
<1>5. \A j \in 1..m-1 : td2[j].f = "write_data" => td2[j].args[1] # c
  <2>1. \A j \in 1..m-1 : (j \in 1..Len(cs) /\ td2[j] = cs[j]) \/ \E k \in 2..i-1 : td2[j] = td[k]
    BY DEF Lower
  <2>2. \A k \in 2..i-1 : k \in 1..i-1
    BY <1>1
  <2> QED BY <2>1, <2>2, <1>3
<1> HIDE DEF c, img
<1>6. Thins(dat2, c, img)
  <2>1. 1 \in 1..i-1
    BY <1>1
  <2>2. dat2[c] = dat[c]
    BY <2>1, <1>3
  <2>3. \A s : AtIn(dat2, [cluster |-> c, slot |-> s]) = AtIn(dat, [cluster |-> c, slot |-> s])
    BY <2>2 DEF AtIn
  <2> QED BY <2>3, <1>3 DEF Thins
<1>7. ASSUME Calm(td2) PROVE Lone(td2, m)
  <2>1. ASSUME NEW j \in m+1..Len(td2)
        PROVE  /\ td2[j].f # "entry_in_new"
               /\ td2[j].f = "write_data" => td2[j].args[1] \notin Entries
    <3>1. PICK k \in i+1..Len(td) : td2[j] = td[k]
      BY DEF Lower
    <3>2. k \in 1..Len(td) /\ k > 1 /\ k # 1 /\ (k-1 = i \/ k-1 \in i+1..Len(td))
      BY <1>1
    <3>3. td[k].f # "entry_in_new"
      BY <3>2 DEF AllSound, CallSound, InNewOK
    <3>4. ASSUME td[k].f = "write_data", td[k].args[1] \in Entries PROVE FALSE
      <4>1. WriteOK(fat, dat, td, k)
        BY <3>2, <3>4 DEF AllSound, CallSound
      <4>2. ~Adds(fat, dat, td, k, td[k].args[1], td[k].args[2])
        BY DEF Adds
      <4>3. td[k-1].f = "free_chain"
        BY <4>1, <4>2, <3>2, <3>4 DEF WriteOK
      <4>4. k-1 \in i+1..Len(td)
        BY <4>3, <3>2
      <4>5. PICK h \in m+1..Len(td2) : td2[h] = td[k-1]
        BY <4>4 DEF Lower
      <4>6. h \in 1..Len(td2)
        BY <4>5 DEF Lower
      <4> QED BY <4>3, <4>5, <4>6, <1>7 DEF Calm
    <3> QED BY <3>1, <3>3, <3>4
  <2> QED BY <2>1 DEF Lone
<1>8. ASSUME m > 1 PROVE td2[m-1].f = "free_chain"
  <2>1. CASE i > 2 /\ td2[m-1] = td[i-1]
    BY <2>1, <1>3
  <2>2. CASE i = 2 /\ Len(cs) \in 1..Len(cs) /\ td2[m-1] = cs[Len(cs)]
    <3>1. td[1].f = "free_chain" /\ Len(cs) # 0
      <4>1. Len(cs) \in Nat
        BY DEF Lower
      <4> QED BY <4>1, <2>2, <1>3
    <3> QED BY <3>1, <2>2
  <2> QED BY <2>1, <2>2, <1>8 DEF Lower
<1> QED BY <1>3, <1>4, <1>5, <1>6, <1>7, <1>8 DEF WriteOK

\* A chain that waits to be freed.
LEMMA LowerFree ==
  ASSUME NEW td2, NEW td, NEW cs, NEW i, NEW m, Lower(td2, td, cs, i, m),
         NEW fat, NEW dat, NEW rt, NEW fat2, NEW dat2, NEW rt2,
         AllSound(fat, dat, td, rt),
         td[i].f = "free_chain", Fewer(dat, dat2), Cuts(fat, fat2),
         \A y \in Entries : Sets(fat, td[1], y, 0) =>
            fat2[y] = 0 \/ \E j \in 1..Len(cs) : Sets(fat2, cs[j], y, 0),
         FatCall(td[1]) => \A j \in 1..Len(cs) : FatCall(cs[j]),
         td[1].f = "delete_inside" =>
            \/ Len(cs) \in 1..Len(cs) /\ cs[Len(cs)].f = "delete_inside"
            \/ Len(cs) = 0 /\ \A l \in UsedIn(dat2) : l.cluster \notin Reach(fat2, td[2].args[1])
  PROVE  CallSound(fat2, dat2, td2, rt2, m)
<1> DEFINE x == td[i].args[1]
<1>1. td2[m] = td[i] /\ i \in 2..Len(td) /\ i # 1 /\ i \in 1..Len(td) /\ i > 1 /\ i \in Nat /\ Len(td) \in Nat /\ Len(cs) \in Nat
      /\ m \in Nat
  BY DEF Lower
<1>2. FreeOK(fat, dat, td, i)
  BY <1>1 DEF AllSound, CallSound
<1>3. /\ i + 1 <= Len(td) /\ td[i+1].f = "write_data"
      /\ x \in Links /\ x # Root
      /\ \A l \in UsedIn(dat) : AtIn(dat, l).cluster = x => Removes(td[i+1], l)
      /\ \A y \in Entries : fat[y] = x /\ x \in Entries =>
           \E j \in 1..i-1 : Sets(fat, td[j], y, 0)
      /\ \/ td[i-1].f = "delete_inside"
         \/ /\ \A j \in 1..i-1 : FatCall(td[j])
            /\ \A l \in UsedIn(dat) : l.cluster \notin Reach(fat, x)
  BY <1>2 DEF FreeOK
<1>4. x = td2[m].args[1] /\ m + 1 <= Len(td2) /\ td2[m+1] = td[i+1]
  BY <1>1, <1>3 DEF Lower
<1> HIDE DEF x
<1>5. \A l \in UsedIn(dat2) : AtIn(dat2, l).cluster = x => Removes(td2[m+1], l)
  BY <1>3, <1>4 DEF Fewer
<1>6. ASSUME NEW y \in Entries, fat2[y] = x, x \in Entries PROVE \E j \in 1..m-1 : Sets(fat2, td2[j], y, 0)
  <2>1. fat[y] = x
    BY <1>6 DEF Cuts
  <2>2. PICK j \in 1..i-1 : Sets(fat, td[j], y, 0)
    BY <2>1, <1>3, <1>6
  <2>3. Sets(fat, td[1], y, 0)
    <3>1. CASE ~Sets(fat, td[1], y, 0)
      <4>0. Lower(td2, td, cs, i, m) /\ AllSound(fat, dat, td, rt)
        OBVIOUS
      <4>1. td[j].f = "modify_fat" /\ td[j].args[2] = 0
        BY ONLY <4>0, <2>2, <3>1, LowerSets
      <4>2. j \in 1..Len(td)
        BY <1>1
      <4>3. j = 1
        BY <4>1, <4>2 DEF AllSound, CallSound, ModifyOK
      <4> QED BY <4>3, <2>2
    <3> QED BY <3>1
  <2>4. fat2[y] # 0
    BY <1>6, RootFacts
  <2>5. PICK k \in 1..Len(cs) : Sets(fat2, cs[k], y, 0)
    BY <2>3, <2>4
  <2>6. k \in 1..m-1 /\ td2[k] = cs[k]
    BY <2>5 DEF Lower
  <2> QED BY <2>5, <2>6
<1>7. \A l \in UsedIn(dat2) : l.cluster \in Reach(fat2, x) => l \in UsedIn(dat) /\ l.cluster \in Reach(fat, x)
  BY <1>3 DEF Fewer, Cuts
<1>8. ASSUME td[i-1].f = "delete_inside"
      PROVE  \/ m > 1 /\ td2[m-1].f = "delete_inside"
             \/ m = 1 /\ \A l \in UsedIn(dat2) : l.cluster \notin Reach(fat2, x)
  <2>1. CASE i > 2 /\ m > 1 /\ td2[m-1] = td[i-1]
    BY <2>1, <1>8
  <2>2. CASE i = 2 /\ m > 1 /\ Len(cs) \in 1..Len(cs) /\ td2[m-1] = cs[Len(cs)]
    <3>1. td[1].f = "delete_inside" /\ Len(cs) # 0
      BY <2>2, <1>8, <1>1
    <3> QED BY <3>1, <2>2
  <2>3. CASE i = 2 /\ m = 1 /\ Len(cs) = 0
    <3>1. td[1].f = "delete_inside" /\ Len(cs) \notin 1..Len(cs)
      BY <2>3, <1>8, <1>1
    <3> QED BY <3>1, <2>3 DEF x
  <2> QED BY <2>1, <2>2, <2>3 DEF Lower
<1>9. ASSUME \A j \in 1..i-1 : FatCall(td[j])
      PROVE  \A j \in 1..m-1 : FatCall(td2[j])
  <2>1. FatCall(td[1])
    <3>1. 1 \in 1..i-1
      BY <1>1
    <3> QED BY <3>1, <1>9
  <2>2. \A j \in 1..m-1 : (j \in 1..Len(cs) /\ td2[j] = cs[j]) \/ \E k \in 2..i-1 : td2[j] = td[k]
    BY DEF Lower
  <2>3. \A k \in 2..i-1 : k \in 1..i-1
    BY <1>1
  <2> QED BY <2>1, <2>2, <2>3, <1>9
<1>10. \/ m > 1 /\ td2[m-1].f = "delete_inside"
       \/ /\ \A j \in 1..m-1 : FatCall(td2[j])
          /\ \A l \in UsedIn(dat2) : l.cluster \notin Reach(fat2, x)
  <2>1. CASE td[i-1].f = "delete_inside"
    <3>1. m = 1 => \A j \in 1..m-1 : FALSE
      BY <1>1
    <3> QED BY <2>1, <3>1, <1>8
  <2>2. CASE /\ \A j \in 1..i-1 : FatCall(td[j])
             /\ \A l \in UsedIn(dat) : l.cluster \notin Reach(fat, x)
    BY <2>2, <1>7, <1>9
  <2> QED BY <2>1, <2>2, <1>3
<1>11. FreeOK(fat2, dat2, td2, m)
  BY <1>3, <1>4, <1>5, <1>6, <1>10 DEF FreeOK
<1> QED BY <1>1, <1>11 DEF CallSound

\* Paths that a call of cs deletes below are no shorter than the first call's.
Deeper(td, cs) ==
  \A j \in 1..Len(cs) : cs[j].f \in {"delete_file", "delete_inside"} =>
     /\ td[1].f \in {"delete_file", "delete_inside"}
     /\ Len(td[1].args[1]) \in Nat /\ Len(cs[j].args[1]) \in Nat
     /\ Len(cs[j].args[1]) >= Len(td[1].args[1])

\* What is above it deletes no less deep.
LEMMA LowerBelow ==
  ASSUME NEW td2, NEW td, NEW cs, NEW i, NEW m, Lower(td2, td, cs, i, m),
         Deeper(td, cs), NEW p, Len(p) \in Nat, Below(td, i, p)
  PROVE  Below(td2, m, p)
<1>1. SUFFICES ASSUME NEW j \in 1..m-1, td2[j].f \in {"delete_file", "delete_inside"}
               PROVE  Len(td2[j].args[1]) > Len(p)
  BY DEF Below
<1>2. i \in Nat /\ 1 \in 1..i-1 /\ \A k \in 2..i-1 : k \in 1..i-1
  BY DEF Lower
<1>3. CASE j \in 1..Len(cs) /\ td2[j] = cs[j]
  <2>1. /\ td[1].f \in {"delete_file", "delete_inside"}
        /\ Len(td[1].args[1]) \in Nat /\ Len(td2[j].args[1]) \in Nat
        /\ Len(td2[j].args[1]) >= Len(td[1].args[1])
    BY <1>1, <1>3 DEF Deeper
  <2>2. Len(td[1].args[1]) > Len(p)
    BY <1>2, <2>1 DEF Below
  <2>3. Len(p) \in Nat
    OBVIOUS
  <2> QED BY ONLY <2>1, <2>2, <2>3
<1>4. CASE \E k \in 2..i-1 : td2[j] = td[k]
  <2>1. PICK k \in 2..i-1 : td2[j] = td[k]
    BY <1>4
  <2>2. k \in 1..i-1
    BY <1>2
  <2> QED BY <1>1, <2>1, <2>2 DEF Below
<1> QED BY <1>3, <1>4 DEF Lower

NotTaken(fat, dat, td, n, x) == \A j \in 1..n : ~Takes(fat, dat, td[j], x)

\* What is above it takes nothing more.
LEMMA LowerTakes ==
  ASSUME NEW td2, NEW td, NEW cs, NEW i, NEW m, Lower(td2, td, cs, i, m),
         NEW fat, NEW dat, NEW rt, NEW fat2, NEW dat2,
         AllSound(fat, dat, td, rt), Fewer(dat, dat2), NEW x,
         NotTaken(fat, dat, td, i-1, x), NotTaken(fat2, dat2, cs, Len(cs), x)
  PROVE  NotTaken(fat2, dat2, td2, m-1, x)
<1> SUFFICES ASSUME NEW j \in 1..m-1 PROVE ~Takes(fat2, dat2, td2[j], x)
  BY DEF NotTaken
<1>1. CASE j \in 1..Len(cs) /\ td2[j] = cs[j]
  BY <1>1 DEF NotTaken
<1>2. ASSUME NEW k \in 2..i-1, td2[j] = td[k] PROVE ~Takes(fat2, dat2, td2[j], x)
  <2>1. k \in 1..i-1 /\ k \in 1..Len(td) /\ k # 1
    BY DEF Lower
  <2>2. ~Takes(fat, dat, td[k], x)
    BY <2>1 DEF NotTaken
  <2>3. td[k].f = "write_fat" => td[k].args[1] # 1
    BY <2>1 DEF AllSound, CallSound, WriteFatOK
  <2>4. \A l \in UsedIn(dat2) : l \in UsedIn(dat) /\ AtIn(dat2, l).cluster = AtIn(dat, l).cluster
    BY DEF Fewer
  <2> HIDE DEF Takes
  <2>5. ~(td[k].f = "free_chain" /\ td[k].args[1] = x) /\ ~(td[k].f = "modify_fat" /\ td[k].args[1] = x)
        /\ ~(\E l \in UsedIn(dat) : Removes(td[k], l) /\ AtIn(dat, l).cluster = x)
    BY <2>2 DEF Takes
  <2> QED BY <2>3, <2>4, <2>5, <1>2 DEF Takes
<1> QED BY <1>1, <1>2 DEF Lower

\* A directory that waits for its entries to be deleted.
LEMMA LowerInside ==
  ASSUME NEW td2, NEW td, NEW cs, NEW i, NEW m, Lower(td2, td, cs, i, m),
         NEW fat, NEW dat, NEW rt, NEW fat2, NEW dat2, NEW rt2,
         AllSound(fat, dat, td, rt),
         td[i].f = "delete_inside", Fewer(dat, dat2), Cuts(fat, fat2), Deeper(td, cs),
         KeepsWays(fat, dat, td, fat2, dat2, cs), HandsOn(fat, dat, td, dat2, cs),
         td[1].f \in {"delete_file", "write_data"} =>
            Len(cs) = 0 \/ (Len(cs) \in 1..Len(cs) /\ cs[Len(cs)].f = "write_data")
  PROVE  CallSound(fat2, dat2, td2, rt2, m)
<1> DEFINE p == td[i].args[1]
           list == td[i].args[2]
           n == td[i].args[3]
           h == td[i+1].args[1]
           c == td[i+2].args[1]
<1>1. td2[m] = td[i] /\ i \in 2..Len(td) /\ i # 1 /\ i \in 1..Len(td) /\ i > 1 /\ i \in Nat /\ Len(td) \in Nat /\ Len(cs) \in Nat
      /\ m \in Nat /\ 1 \in 1..i-1
  BY DEF Lower
<1>2. InsideOK(fat, dat, td, i)
  BY <1>1 DEF AllSound, CallSound
<1>3. /\ i + 2 <= Len(td) /\ td[i+1].f = "free_chain" /\ td[i+2].f = "write_data"
      /\ p \in AllPaths /\ n \in Nat \ {0} /\ list \in Seq(Range(list))
      /\ \A k \in 1..Len(list) : list[k].name \in Known \cup Unused \cup {"text"} /\ list[k].name # "kernel"
      /\ list # <<>> /\ td[i-1].f \in {"delete_file", "write_data"}
      /\ Below(td, i, p)
      /\ \E g \in [0..Len(p) -> Entries] : /\ IsWay(fat, dat, g, p) /\ g[Len(p)] = h
                               /\ c \in Reach(fat, g[Len(p)-1])
                               /\ \A j \in 1..i-1, k \in 0..Len(p) : ~Takes(fat, dat, td[j], g[k])
      /\ \A l \in UsedIn(dat) : l.cluster \in Reach(fat, h) =>
            \/ \E k \in 1..Len(list) : k >= n /\ list[k].name = AtIn(dat, l).name
            \/ Covered(dat, td, i, p, l)
  BY <1>1, <1>2 DEF InsideOK
<1>4. /\ p = td2[m].args[1] /\ list = td2[m].args[2] /\ n = td2[m].args[3]
      /\ m + 2 <= Len(td2) /\ td2[m+1] = td[i+1] /\ td2[m+2] = td[i+2] /\ h = td2[m+1].args[1] /\ c = td2[m+2].args[1]
  <2>1. i + 1 <= Len(td)
    BY <1>1, <1>3
  <2> QED BY <1>1, <1>3, <2>1 DEF Lower
<1> HIDE DEF p, list, n, h, c
<1>5. p \in Seq(NamesOf) /\ Len(p) \in Nat /\ Len(p) \in 0..Len(p) /\ Len(p) > 0 /\ Len(p) - 1 \in 0..Len(p)
  BY <1>3 DEF AllPaths, NamesOf
<1>6. m > 1 => td2[m-1].f \in {"delete_file", "write_data"}
  <2>1. CASE i > 2 /\ m > 1 /\ td2[m-1] = td[i-1]
    BY <2>1, <1>3
  <2>2. CASE i = 2 /\ m > 1 /\ Len(cs) \in 1..Len(cs) /\ td2[m-1] = cs[Len(cs)]
    <3>1. td[1].f \in {"delete_file", "write_data"} /\ Len(cs) # 0
      BY <2>2, <1>3, <1>1
    <3> QED BY <3>1, <2>2
  <2>3. CASE m = 1
    BY <2>3
  <2> QED BY <2>1, <2>2, <2>3 DEF Lower
<1>7. Below(td2, m, p)
  BY <1>3, <1>5, LowerBelow
<1>8. PICK g \in [0..Len(p) -> Entries] : /\ IsWay(fat, dat, g, p) /\ g[Len(p)] = h
                               /\ c \in Reach(fat, g[Len(p)-1])
                               /\ \A j \in 1..i-1, k \in 0..Len(p) : ~Takes(fat, dat, td[j], g[k])
  BY <1>3
<1>9. /\ IsWay(fat2, dat2, g, p)
      /\ \A k \in 0..Len(p) : /\ Reach(fat2, g[k]) = Reach(fat, g[k])
                              /\ \A j \in 1..Len(cs) : ~Takes(fat2, dat2, cs[j], g[k])
  <2>1. td[1].f \in {"delete_file", "delete_inside"} => Len(td[1].args[1]) > Len(p)
    BY <1>1, <1>3 DEF Below
  <2>2. \A k \in 0..Len(p) : ~Takes(fat, dat, td[1], g[k])
    BY <1>1, <1>8
  <2> QED BY <1>5, <1>8, <2>1, <2>2 DEF KeepsWays
<1>10. ASSUME NEW j \in 1..m-1, NEW k \in 0..Len(p) PROVE ~Takes(fat2, dat2, td2[j], g[k])
  <2>1. NotTaken(fat, dat, td, i-1, g[k])
    BY <1>8 DEF NotTaken
  <2>2. NotTaken(fat2, dat2, cs, Len(cs), g[k])
    BY <1>9 DEF NotTaken
  <2>3. Lower(td2, td, cs, i, m) /\ AllSound(fat, dat, td, rt) /\ Fewer(dat, dat2) /\ j \in 1..m-1
    OBVIOUS
  <2>4. NotTaken(fat2, dat2, td2, m-1, g[k])
    BY ONLY <2>1, <2>2, <2>3, LowerTakes
  <2> QED BY <2>4 DEF NotTaken
<1>11. c \in Reach(fat2, g[Len(p)-1])
  BY <1>5, <1>8, <1>9
<1>12. ASSUME NEW l \in UsedIn(dat2), l.cluster \in Reach(fat2, h)
       PROVE  \/ \E k \in 1..Len(list) : k >= n /\ list[k].name = AtIn(dat2, l).name
              \/ Covered(dat2, td2, m, p, l)
  <2>1. l \in UsedIn(dat) /\ AtIn(dat2, l) = AtIn(dat, l) /\ l.cluster \in Reach(fat, g[Len(p)]) /\ l.cluster \in Reach(fat, h)
    BY <1>12, <1>5, <1>8, <1>9 DEF Fewer
  <2>2. CASE \E k \in 1..Len(list) : k >= n /\ list[k].name = AtIn(dat, l).name
    BY <2>1, <2>2
  <2>3. CASE Covered(dat, td, i, p, l)
    <3>0. \/ td[i-1].f = "delete_file" /\ td[i-1].args[1] = Append(p, AtIn(dat, l).name)
          \/ Removes(td[i-1], l)
      BY <2>3 DEF Covered
    <3>1. CASE i > 2 /\ m > 1 /\ td2[m-1] = td[i-1]
      BY <3>0, <3>1, <2>1 DEF Covered
    <3>2. CASE i = 2
      <4>1. ~Removes(td[1], l)
        BY DEF HandsOn
      <4>2. td[1].f = "delete_file" /\ td[1].args[1] = Append(p, AtIn(dat, l).name)
        BY <3>0, <3>2, <4>1
      <4>3. Len(cs) \in 1..Len(cs) /\ Removes(cs[Len(cs)], l)
        BY <4>2, <1>5, <1>8, <2>1 DEF HandsOn
      <4>4. m > 1 /\ td2[m-1] = cs[Len(cs)]
        BY <3>2, <4>3, <1>1 DEF Lower
      <4> QED BY <4>3, <4>4 DEF Covered
    <3> QED BY <3>1, <3>2 DEF Lower
  <2> QED BY <2>1, <2>2, <2>3, <1>3
<1>13. InsideOK(fat2, dat2, td2, m)
  <2>1. \E g2 \in [0..Len(p) -> Entries] : /\ IsWay(fat2, dat2, g2, p) /\ g2[Len(p)] = h
                               /\ c \in Reach(fat2, g2[Len(p)-1])
                               /\ \A j \in 1..m-1, k \in 0..Len(p) : ~Takes(fat2, dat2, td2[j], g2[k])
    BY <1>8, <1>9, <1>10, <1>11
  <2> QED BY <2>1, <1>3, <1>4, <1>6, <1>7, <1>12 DEF InsideOK
<1> QED BY <1>1, <1>13 DEF CallSound

\* The search for a place that waits for a deletion.
LEMMA LowerFindNew ==
  ASSUME NEW td2, NEW td, NEW cs, NEW i, NEW m, Lower(td2, td, cs, i, m),
         NEW fat, NEW dat, NEW rt, NEW fat2, NEW dat2, NEW rt2,
         AllSound(fat, dat, td, rt),
         td[i].f = "find_new", Fewer(dat, dat2), Cuts(fat, fat2), Deeper(td, cs),
         HandsOn(fat, dat, td, dat2, cs)
  PROVE  CallSound(fat2, dat2, td2, rt2, m)
<1> DEFINE p == td[i].args[1]
           w == Front(p)
<1>1. td2[m] = td[i] /\ i \in 2..Len(td) /\ i # 1 /\ i \in 1..Len(td) /\ i > 1 /\ i \in Nat /\ Len(td) \in Nat /\ Len(cs) \in Nat
      /\ m \in Nat /\ 1 \in 1..i-1
  BY DEF Lower
<1>2. CreateAtOK(fat, dat, td, i)
  BY <1>1 DEF AllSound, CallSound
<1>3. /\ p \in Paths /\ td[i].args[2] \in BOOLEAN /\ Rest(td, i) /\ Below(td, i, w)
      /\ \A g \in [0..Len(p)-1 -> Entries] : IsWay(fat, dat, g, w) =>
           \A l \in UsedIn(dat) :
             l.cluster \in Reach(fat, g[Len(p)-1]) /\ AtIn(dat, l).name = Last(p) =>
               Covered(dat, td, i, w, l)
  BY <1>2 DEF CreateAtOK
<1>4. p \in Seq(NamesOf) /\ p # <<>> /\ w \in Seq(NamesOf) /\ Len(w) \in Nat /\ Len(w) = Len(p) - 1
  <2>1. p \in Seq(NamesOf) /\ p # <<>>
    BY <1>3, PathIsSeq
  <2> QED BY <2>1, FrontIs
<1> HIDE DEF p, w
<1>5. Rest(td2, m) /\ Below(td2, m, w)
  BY <1>3, <1>4, LowerParts, LowerBelow
<1>6. ASSUME NEW g \in [0..Len(p)-1 -> Entries], IsWay(fat2, dat2, g, w), NEW l \in UsedIn(dat2),
             l.cluster \in Reach(fat2, g[Len(p)-1]), AtIn(dat2, l).name = Last(p)
      PROVE  Covered(dat2, td2, m, w, l)
  <2>1. IsWay(fat, dat, g, w)
    BY <1>4, <1>6, WayBack
  <2>2. g[Len(w)] \in Links /\ g[Len(p)-1] = g[Len(w)]
    <3>1. Len(w) \in 0..Len(w)
      BY <1>4
    <3> QED BY <3>1, <1>4, <2>1 DEF IsWay, Links
  <2>3. l \in UsedIn(dat) /\ AtIn(dat2, l) = AtIn(dat, l) /\ l.cluster \in Reach(fat, g[Len(w)])
    BY <1>6, <2>2 DEF Fewer, Cuts
  <2>4. Covered(dat, td, i, w, l)
    BY <1>3, <1>6, <2>1, <2>2, <2>3
  <2>5. \/ td[i-1].f = "delete_file" /\ td[i-1].args[1] = Append(w, AtIn(dat, l).name)
        \/ Removes(td[i-1], l)
    BY <2>4 DEF Covered
  <2>6. CASE i > 2 /\ m > 1 /\ td2[m-1] = td[i-1]
    BY <2>5, <2>6, <2>3 DEF Covered
  <2>7. CASE i = 2
    <3>1. ~Removes(td[1], l)
      BY DEF HandsOn
    <3>2. td[1].f = "delete_file" /\ td[1].args[1] = Append(w, AtIn(dat, l).name)
      BY <2>5, <2>7, <3>1
    <3>3. Len(cs) \in 1..Len(cs) /\ Removes(cs[Len(cs)], l)
      BY <3>2, <1>4, <2>1, <2>3 DEF HandsOn
    <3>4. m > 1 /\ td2[m-1] = cs[Len(cs)]
      BY <2>7, <3>3, <1>1 DEF Lower
    <3> QED BY <3>3, <3>4 DEF Covered
  <2> QED BY <2>6, <2>7 DEF Lower
<1>7. CreateAtOK(fat2, dat2, td2, m)
  <2>1. p = td2[m].args[1] /\ td2[m].args[2] \in BOOLEAN
    BY <1>1, <1>3 DEF p
  <2> QED BY <2>1, <1>3, <1>5, <1>6 DEF CreateAtOK, w
<1> QED BY <1>1, <1>7 DEF CallSound

-----------------------------------------------------------------------------
(* All calls stay sound *)

\* The calls are sound when the new ones and the waiting ones are.
LEMMA AllSoundKept ==
  ASSUME NEW td2, NEW td, NEW cs, Restacked(td2, td, cs), NEW fat2, NEW dat2, NEW rt2,
         \A m \in 1..Len(cs) : CallSound(fat2, dat2, td2, rt2, m),
         \A i, m : Lower(td2, td, cs, i, m) => CallSound(fat2, dat2, td2, rt2, m)
  PROVE  AllSound(fat2, dat2, td2, rt2)
BY LowerIs DEF AllSound

\* Steps of a command that deletes nothing.
CalmStep(fat, dat, td, fat2, dat2, rt2, cs) ==
  /\ Calm(td) /\ Calm(cs) /\ Fewer(dat, dat2)
  /\ \A j \in 1..Len(cs) : cs[j].f # "write_data"
  /\ (\E i \in 2..Len(td) : td[i].f = "modify_fat") =>
        /\ Ends(fat, fat2)
        /\ \A w \in Entries : Sets(fat, td[1], w, EOC) =>
                           fat2[w] # 0 \/ \E j \in 1..Len(cs) : Sets(fat2, cs[j], w, EOC)
  /\ \A d \in Entries : (td[1].f = "write_data" /\ td[1].args[1] = d) \/ dat2[d] = dat[d]
  /\ td[1].f # "extend_file"
  /\ td[1].f = "return" => Len(cs) = 0 /\ rt2 = td[1].args[1]
  /\ td[1].f = "write_data" => Len(cs) = 0 /\ fat2 = fat
  /\ Lone(td, 1) \/ \A x, n : InDir(fat, dat, x, n) => InDir(fat2, dat2, x, n)
  /\ \A x \in Entries, y \in Entries : \A n : InDir(fat, dat, y, n) /\ Sets(fat, td[1], y, x) =>
            \/ InDir(fat2, dat2, x, n)
            \/ InDir(fat2, dat2, y, n) /\ \E j \in 1..Len(cs) : Sets(fat2, cs[j], y, x)

\* What waits stays sound through such a step.
LEMMA CalmLower ==
  ASSUME NEW td2, NEW td, NEW cs, Restacked(td2, td, cs),
         NEW fat, NEW dat, NEW rt, NEW fat2, NEW dat2, NEW rt2,
         AllSound(fat, dat, td, rt), CalmStep(fat, dat, td, fat2, dat2, rt2, cs),
         NEW i, NEW m, Lower(td2, td, cs, i, m)
  PROVE  CallSound(fat2, dat2, td2, rt2, m)
<1>1. i \in 2..Len(td) /\ i # 1 /\ i \in 1..Len(td)
  BY DEF Lower
<1>2. CallSound(fat, dat, td, rt, i)
  BY <1>1 DEF AllSound
<1>3. Calm(td) /\ Calm(td2) /\ Fewer(dat, dat2)
  BY CalmKept DEF CalmStep
<1>4. CASE td[i].f \in {"write_fat", "write_to_file", "look", "grow", "fill", "return"}
  BY <1>2, <1>3, <1>4, LowerPlain
<1>5. CASE td[i].f = "modify_fat"
  <2>1. Ends(fat, fat2) /\ \A w \in Entries : Sets(fat, td[1], w, EOC) =>
                           fat2[w] # 0 \/ \E j \in 1..Len(cs) : Sets(fat2, cs[j], w, EOC)
    BY <1>1, <1>5 DEF CalmStep
  <2> QED BY <1>3, <1>5, <2>1, LowerModify
<1>6. CASE td[i].f = "write_data"
  <2>1. /\ \A j \in 1..Len(cs) : cs[j].f # "write_data"
        /\ \A d \in Entries : (td[1].f = "write_data" /\ td[1].args[1] = d) \/ dat2[d] = dat[d]
        /\ td[1].f = "write_data" => /\ Len(cs) = 0 /\ fat2 = fat
                                     /\ Lone(td, 1) \/ \A x, n : InDir(fat, dat, x, n) => InDir(fat2, dat2, x, n)
    BY DEF CalmStep
  <2> QED BY <1>3, <1>6, <2>1, LowerWrite
<1>7. CASE td[i].f = "entry_in_new"
  <2>1. /\ td[1].f # "extend_file"
        /\ td[1].f = "return" => Len(cs) = 0 /\ rt2 = td[1].args[1]
        /\ Lone(td, 1) \/ \A x, n : InDir(fat, dat, x, n) => InDir(fat2, dat2, x, n)
        /\ \A x \in Entries, y \in Entries : \A n : InDir(fat, dat, y, n) /\ Sets(fat, td[1], y, x) =>
            \/ InDir(fat2, dat2, x, n)
            \/ InDir(fat2, dat2, y, n) /\ \E j \in 1..Len(cs) : Sets(fat2, cs[j], y, x)
    BY DEF CalmStep
  <2> QED BY <1>3, <1>7, <2>1, LowerInNew
<1>8. td[i].f \in {"write_fat", "write_to_file", "look", "grow", "fill", "return", "modify_fat", "write_data", "entry_in_new"}
  <2>1. td[i].f \notin {"delete_file", "delete_inside", "free_chain", "create_file", "find_new"}
    BY <1>1, <1>3 DEF Calm
  <2>2. td[i].f \notin {"new_entry", "extend_file"}
    BY <1>1, <1>2 DEF CallSound, PlaceOK
  <2>3. td[i].f \in {"write_fat", "modify_fat", "write_data", "delete_inside", "free_chain", "delete_file", "create_file",
            "find_new", "new_entry", "entry_in_new", "extend_file", "return", "write_to_file", "grow",
            "fill", "look"}
    BY <1>2 DEF CallSound
  <2> QED BY <2>1, <2>2, <2>3
<1> QED BY <1>4, <1>5, <1>6, <1>7, <1>8

\* Steps of a command that deletes.
FreeingStep(fat, dat, td, fat2, dat2, cs) ==
  /\ ~Calm(td) /\ Fewer(dat, dat2) /\ Cuts(fat, fat2) /\ Deeper(td, cs)
  /\ KeepsWays(fat, dat, td, fat2, dat2, cs) /\ HandsOn(fat, dat, td, dat2, cs)
  /\ \A j \in 1..Len(cs), i \in 2..Len(td) : cs[j].f = "write_data" /\ td[i].f = "write_data" => cs[j].args[1] # td[i].args[1]
  /\ \A d \in Entries : (td[1].f = "write_data" /\ td[1].args[1] = d) \/ dat2[d] = dat[d]
  /\ td[1].f = "free_chain" => Len(cs) = 0 \/ cs[Len(cs)].f = "free_chain"
  /\ td[1].f \in {"delete_file", "write_data"} =>
            Len(cs) = 0 \/ (Len(cs) \in 1..Len(cs) /\ cs[Len(cs)].f = "write_data")
  /\ \A y \in Entries : Sets(fat, td[1], y, 0) =>
            fat2[y] = 0 \/ \E j \in 1..Len(cs) : Sets(fat2, cs[j], y, 0)
  /\ FatCall(td[1]) => \A j \in 1..Len(cs) : FatCall(cs[j])
  /\ td[1].f = "delete_inside" =>
            \/ Len(cs) \in 1..Len(cs) /\ cs[Len(cs)].f = "delete_inside"
            \/ Len(cs) = 0 /\ \A l \in UsedIn(dat2) : l.cluster \notin Reach(fat2, td[2].args[1])

\* What waits stays sound through such a step.
LEMMA FreeingLower ==
  ASSUME NEW td2, NEW td, NEW cs, Restacked(td2, td, cs),
         NEW fat, NEW dat, NEW rt, NEW fat2, NEW dat2, NEW rt2,
         AllSound(fat, dat, td, rt), FreeingStep(fat, dat, td, fat2, dat2, cs),
         NEW i, NEW m, Lower(td2, td, cs, i, m)
  PROVE  CallSound(fat2, dat2, td2, rt2, m)
<1>1. i \in 2..Len(td) /\ i # 1 /\ i \in 1..Len(td)
  BY DEF Lower
<1>2. CallSound(fat, dat, td, rt, i)
  BY <1>1 DEF AllSound
<1>3. /\ ~Calm(td) /\ Fewer(dat, dat2) /\ Cuts(fat, fat2) /\ Deeper(td, cs)
      /\ KeepsWays(fat, dat, td, fat2, dat2, cs) /\ HandsOn(fat, dat, td, dat2, cs)
  BY DEF FreeingStep
<1>4. CASE td[i].f \in {"write_fat", "write_to_file", "look"}
  BY <1>2, <1>4, LowerPlain
<1>5. CASE td[i].f = "modify_fat"
  BY <1>3, <1>5, LowerModify
<1>6. CASE td[i].f = "write_data"
  <2>1. /\ \A j \in 1..Len(cs) : cs[j].f = "write_data" => cs[j].args[1] # td[i].args[1]
        /\ \A d \in Entries : (td[1].f = "write_data" /\ td[1].args[1] = d) \/ dat2[d] = dat[d]
        /\ td[1].f = "free_chain" => Len(cs) = 0 \/ cs[Len(cs)].f = "free_chain"
    BY <1>1, <1>6 DEF FreeingStep
  <2> QED BY <1>3, <1>6, <2>1, LowerWriteOn
<1>7. CASE td[i].f = "free_chain"
  <2>1. /\ \A y \in Entries : Sets(fat, td[1], y, 0) =>
            fat2[y] = 0 \/ \E j \in 1..Len(cs) : Sets(fat2, cs[j], y, 0)
        /\ FatCall(td[1]) => \A j \in 1..Len(cs) : FatCall(cs[j])
        /\ td[1].f = "delete_inside" =>
            \/ Len(cs) \in 1..Len(cs) /\ cs[Len(cs)].f = "delete_inside"
            \/ Len(cs) = 0 /\ \A l \in UsedIn(dat2) : l.cluster \notin Reach(fat2, td[2].args[1])
    BY DEF FreeingStep
  <2> QED BY <1>3, <1>7, <2>1, LowerFree
<1>8. CASE td[i].f = "delete_inside"
  <2>1. td[1].f \in {"delete_file", "write_data"} =>
            Len(cs) = 0 \/ (Len(cs) \in 1..Len(cs) /\ cs[Len(cs)].f = "write_data")
    BY DEF FreeingStep
  <2> QED BY <1>3, <1>8, <2>1, LowerInside
<1>9. CASE td[i].f = "find_new"
  BY <1>3, <1>9, LowerFindNew
<1>10. td[i].f \in {"write_fat", "write_to_file", "look", "modify_fat", "write_data", "free_chain", "delete_inside", "find_new"}
  <2>1. td[i].f \notin {"new_entry", "extend_file", "delete_file", "create_file", "return", "grow", "fill", "entry_in_new"}
    BY <1>1, <1>2, <1>3 DEF CallSound, PlaceOK, InNewOK
  <2>2. td[i].f \in {"write_fat", "modify_fat", "write_data", "delete_inside", "free_chain", "delete_file", "create_file",
            "find_new", "new_entry", "entry_in_new", "extend_file", "return", "write_to_file", "grow",
            "fill", "look"}
    BY <1>2 DEF CallSound
  <2> QED BY <2>1, <2>2
<1> QED BY <1>4, <1>5, <1>6, <1>7, <1>8, <1>9, <1>10

\* When only the rest of the command waits.
LEMMA RestLower ==
  ASSUME NEW td2, NEW td, NEW cs, Restacked(td2, td, cs),
         NEW fat, NEW dat, NEW rt, NEW fat2, NEW dat2, NEW rt2,
         AllSound(fat, dat, td, rt), Rest(td, 1),
         NEW i, NEW m, Lower(td2, td, cs, i, m)
  PROVE  /\ CallSound(fat2, dat2, td2, rt2, m)
         /\ td2[m].f \in {"write_to_file", "look"}
<1>1. i \in 2..Len(td) /\ i # 1 /\ i \in 1..Len(td) /\ i \in 1+1..Len(td) /\ td2[m] = td[i]
  BY DEF Lower
<1>2. CallSound(fat, dat, td, rt, i)
  BY <1>1 DEF AllSound
<1>3. td[i].f \in {"write_to_file", "look"}
  BY <1>1 DEF Rest
<1> QED BY <1>1, <1>2, <1>3, LowerPlain

-----------------------------------------------------------------------------
(* Every cluster that is free and yet the head of a file is about to be    *)
(* marked, or its entry is about to be taken away.                         *)

\* Debts that are kept, paid or handed on.
LEMMA DebtsKept ==
  ASSUME NEW td2, NEW td, NEW cs, Restacked(td2, td, cs),
         NEW fat, NEW dat, NEW rt, NEW fat2, NEW dat2,
         AllSound(fat, dat, td, rt), Fewer(dat, dat2),
         \A l \in UsedIn(dat2) : fat2[AtIn(dat, l).cluster] = 0 => Paid(fat, dat, td, l),
         FreeCall(td[1]) => \A j \in 1..Len(cs) : FreeCall(cs[j]),
         \A l \in UsedIn(dat2) : Pays(fat, dat, td[1], l) /\ fat2[AtIn(dat, l).cluster] = 0 =>
            \E j \in 1..Len(cs) : Pays(fat2, dat2, cs[j], l) /\ \A k \in 1..j-1 : FreeCall(cs[k])
  PROVE  Debts(fat2, dat2, td2)
<1> SUFFICES ASSUME NEW l \in UsedIn(dat2), fat2[AtIn(dat2, l).cluster] = 0
             PROVE  Paid(fat2, dat2, td2, l)
  BY DEF Debts
<1>1. l \in UsedIn(dat) /\ AtIn(dat2, l) = AtIn(dat, l)
  BY DEF Fewer
<1>2. PICK i \in 1..Len(td) : Pays(fat, dat, td[i], l) /\ \A j \in 1..i-1 : FreeCall(td[j])
  BY <1>1 DEF Paid
<1>0. /\ Len(td) \in Nat \ {0} /\ Len(cs) \in Nat /\ Len(td2) \in Nat /\ Len(td2) + 1 = Len(cs) + Len(td)
      /\ \A j \in 1..Len(cs) : td2[j] = cs[j]
  BY DEF Restacked
<1>3. CASE i = 1
  <2>1. PICK j \in 1..Len(cs) : Pays(fat2, dat2, cs[j], l) /\ \A k \in 1..j-1 : FreeCall(cs[k])
    BY <1>1, <1>2, <1>3
  <2>2. j \in 1..Len(td2) /\ td2[j] = cs[j] /\ \A k \in 1..j-1 : td2[k] = cs[k]
    BY <1>0
  <2> QED BY <2>1, <2>2 DEF Paid
<1>4. CASE i # 1
  <2>1. PICK m \in Nat : i + Len(cs) = m + 1
    <3>1. i + Len(cs) \in Nat /\ 1 <= i + Len(cs)
      BY <1>0
    <3>2. \E m \in Nat : m + 1 = i + Len(cs)
      BY <3>1, Less
    <3> QED BY <3>2
  <2>2. Lower(td2, td, cs, i, m) /\ m \in 1..Len(td2) /\ i \in 2..Len(td)
    <3>1. i \in 2..Len(td)
      BY <1>0, <1>4
    <3> QED BY <3>1, <2>1, LowerAt
  <2>3. Pays(fat2, dat2, td2[m], l)
    <3>1. td2[m] = td[i]
      BY <2>2 DEF Lower
    <3>2. CASE Removes(td[i], l)
      BY <3>1, <3>2 DEF Pays
    <3>3. CASE Sets(fat, td[i], AtIn(dat, l).cluster, EOC)
      <4>1. td[i].f = "write_fat" => td[i].args[1] # 1
        BY <1>4 DEF AllSound, CallSound, WriteFatOK
      <4>2. td[i].f = "modify_fat" /\ td[i].args[1] = AtIn(dat, l).cluster /\ td[i].args[2] = EOC
        BY <3>3, <4>1 DEF Sets
      <4>3. Sets(fat2, td2[m], AtIn(dat2, l).cluster, EOC)
        BY <4>2, <3>1, <1>1 DEF Sets
      <4> QED BY <4>3 DEF Pays
    <3> QED BY <1>2, <3>2, <3>3 DEF Pays
  <2>4. ASSUME NEW j \in 1..m-1 PROVE FreeCall(td2[j])
    <3>1. 1 \in 1..i-1 /\ \A k \in 2..i-1 : k \in 1..i-1
      BY <1>0, <2>2
    <3>2. CASE j \in 1..Len(cs) /\ td2[j] = cs[j]
      <4>1. FreeCall(td[1])
        BY <1>2, <3>1
      <4> QED BY <3>2, <4>1
    <3>3. CASE \E k \in 2..i-1 : td2[j] = td[k]
      BY <1>2, <3>1, <3>3
    <3> QED BY <2>2, <3>2, <3>3 DEF Lower
  <2> QED BY <2>2, <2>3, <2>4 DEF Paid
<1> QED BY <1>3, <1>4

\* A command whose first call neither frees nor pays has no debts.
LEMMA NoDebts ==
  ASSUME NEW fat, NEW dat, NEW td, Debts(fat, dat, td),
         td[1].f \notin {"write_fat", "modify_fat", "free_chain", "write_data"}
  PROVE  \A l \in UsedIn(dat) : fat[AtIn(dat, l).cluster] # 0
<1> SUFFICES ASSUME NEW l \in UsedIn(dat), fat[AtIn(dat, l).cluster] = 0 PROVE FALSE
  OBVIOUS
<1>1. PICK i \in 1..Len(td) : Pays(fat, dat, td[i], l) /\ \A j \in 1..i-1 : FreeCall(td[j])
  BY DEF Debts, Paid
<1>2. CASE i = 1
  BY <1>1, <1>2 DEF Pays, Removes, Sets
<1>3. CASE i # 1
  <2>1. 1 \in 1..i-1
    BY <1>3
  <2> QED BY <1>1, <2>1 DEF FreeCall, FatCall
<1> QED BY <1>2, <1>3
-----------------------------------------------------------------------------
(* What the writes do to a sound disk *)

\* Fewer links reach less.
LEMMA CutsBy ==
  ASSUME NEW fat, Chained(fat), NEW fat2, Chained(fat2),
         \A d \in Entries : fat2[d] \in Entries => fat2[d] = fat[d],
         \A v \in Entries : Reach(fat2, v) \subseteq Reach(fat, v)
  PROVE  Cuts(fat, fat2)
<1>1. ASSUME NEW v \in Links PROVE Reach(fat2, v) \subseteq Reach(fat, v)
  <2>1. CASE v \in Entries
    BY <2>1
  <2>2. CASE v \notin Entries
    BY <2>2, ReachNone
  <2> QED BY <2>1, <2>2
<1> QED BY <1>1 DEF Cuts

\* Taking away entries and links leaves a sound disk.
LEMMA LessDisk ==
  ASSUME NEW fat, NEW dat, DiskSound(fat, dat), NEW fat2, FatSound(fat2), NEW dat2, RowsSound(dat2),
         Cuts(fat, fat2), Fewer(dat, dat2),
         \A l \in UsedIn(dat2) : fat2[l.cluster] # 0,
         Kernel => AtIn(dat2, [cluster |-> Root, slot |-> 1]).name = "kernel"
  PROVE  DiskSound(fat2, dat2)
<1>0. HeadsSound(fat, dat) /\ NamesSound(fat, dat)
  BY DEF DiskSound
<1>1. \A l \in UsedIn(dat2) : l \in UsedIn(dat) /\ AtIn(dat2, l) = AtIn(dat, l)
  BY DEF Fewer
<1>2. HeadsSound(fat2, dat2)
  <2>1. ASSUME NEW l \in UsedIn(dat2)
        PROVE  /\ AtIn(dat2, l).cluster \in Entries \ {Root}
               /\ \A c \in Entries : fat2[c] # AtIn(dat2, l).cluster
               /\ fat2[l.cluster] # 0
    BY <1>0, <1>1 DEF HeadsSound, Cuts
  <2>2. ASSUME NEW l \in UsedIn(dat2), NEW k \in UsedIn(dat2), AtIn(dat2, l).cluster = AtIn(dat2, k).cluster
        PROVE  l = k
    BY <1>0, <1>1, <2>2 DEF HeadsSound
  <2>3. ASSUME NEW l \in UsedIn(dat2), NEW k \in UsedIn(dat2), ~AtIn(dat2, l).dir
        PROVE  k.cluster \notin Reach(fat2, AtIn(dat2, l).cluster)
    <3>1. k.cluster \notin Reach(fat, AtIn(dat, l).cluster)
      BY <1>0, <1>1, <2>3 DEF HeadsSound
    <3>2. AtIn(dat, l).cluster \in Links
      BY <1>1, <2>1 DEF Links
    <3> QED BY <3>1, <3>2, <1>1 DEF Cuts
  <2> QED BY <2>1, <2>2, <2>3 DEF HeadsSound
<1>3. NamesSound(fat2, dat2)
  <2>1. ASSUME NEW v \in Entries, NEW l \in UsedIn(dat2), NEW k \in UsedIn(dat2),
               l.cluster \in Reach(fat2, v), k.cluster \in Reach(fat2, v), AtIn(dat2, l).name = AtIn(dat2, k).name
        PROVE  l = k
    <3>1. v \in Links
      BY DEF Links
    <3>2. l.cluster \in Reach(fat, v) /\ k.cluster \in Reach(fat, v)
      BY <2>1, <3>1 DEF Cuts
    <3> QED BY <1>0, <1>1, <2>1, <3>2 DEF NamesSound
  <2>2. \A l \in UsedIn(dat2) : AtIn(dat2, l).name = "kernel" => l = [cluster |-> Root, slot |-> 1]
    BY <1>0, <1>1 DEF NamesSound
  <2> QED BY <2>1, <2>2 DEF NamesSound
<1> QED BY <1>2, <1>3 DEF DiskSound

\* Nothing is taken away by no change.
LEMMA FewerSame == ASSUME NEW dat PROVE Fewer(dat, dat)
BY DEF Fewer

\* An end mark leaves a sound disk.
LEMMA EndDisk ==
  ASSUME NEW fat, NEW dat, DiskSound(fat, dat), NEW c \in Entries, fat[c] \notin Entries,
         NEW fat2, Puts(fat, fat2, c, EOC)
  PROVE  DiskSound(fat2, dat) /\ Cuts(fat, fat2) /\ Ends(fat, fat2) /\ fat2[c] = EOC
         /\ \A v \in Entries : Reach(fat2, v) = Reach(fat, v)
<1>1. /\ FatSound(fat2)
      /\ \A v \in Entries : Reach(fat2, v) = Reach(fat, v)
      /\ \A d \in Entries : fat2[d] \in Entries <=> fat[d] \in Entries
      /\ \A d \in Entries : d # c => fat2[d] = fat[d]
      /\ fat2[c] = EOC
  <2>1. FatSound(fat)
    BY SoundFacts
  <2> QED BY <2>1, EndSame
<1>2. Ends(fat, fat2) /\ \A d \in Entries : fat2[d] \in Entries => fat2[d] = fat[d]
  BY <1>1, RootFacts DEF Ends
<1>3. Cuts(fat, fat2)
  BY <1>1, <1>2, SoundFacts, FatIsChained, CutsBy
<1>4. \A l \in UsedIn(dat) : fat2[l.cluster] # 0
  <2>1. \A l \in UsedIn(dat) : l.cluster \in Entries /\ fat[l.cluster] # 0
    BY SoundFacts DEF HeadsSound, UsedIn, Places
  <2> QED BY <2>1, <1>2 DEF Ends
<1>5. DiskSound(fat2, dat)
  <2>1. RowsSound(dat) /\ (Kernel => AtIn(dat, [cluster |-> Root, slot |-> 1]).name = "kernel")
    BY DEF DiskSound, NamesSound
  <2> QED BY <2>1, <1>1, <1>3, <1>4, FewerSame, LessDisk
<1> QED BY <1>1, <1>2, <1>3, <1>5

\* So does a free mark where nothing begins any more.
LEMMA ZeroDisk ==
  ASSUME NEW fat, NEW dat, DiskSound(fat, dat), NEW c \in Entries \ {Root}, \A d \in Entries : fat[d] # c,
         \A l \in UsedIn(dat) : l.cluster # c,
         NEW fat2, Puts(fat, fat2, c, 0)
  PROVE  DiskSound(fat2, dat) /\ Cuts(fat, fat2) /\ fat2[c] = 0
         /\ \A v \in Entries : v # c => Reach(fat2, v) = Reach(fat, v)
         /\ \A d \in Entries : d # c => fat2[d] = fat[d]
<1>1. /\ FatSound(fat2)
      /\ \A v \in Entries : Reach(fat2, v) \subseteq Reach(fat, v)
      /\ \A v \in Entries : v # c => Reach(fat2, v) = Reach(fat, v)
      /\ \A d \in Entries : d # c => fat2[d] = fat[d]
      /\ fat2[c] = 0
  <2>1. FatSound(fat)
    BY SoundFacts
  <2> QED BY <2>1, FreeLess
<1>2. \A d \in Entries : fat2[d] \in Entries => fat2[d] = fat[d]
  BY <1>1, RootFacts
<1>3. Cuts(fat, fat2)
  BY <1>1, <1>2, SoundFacts, FatIsChained, CutsBy
<1>4. \A l \in UsedIn(dat) : fat2[l.cluster] # 0
  <2>1. \A l \in UsedIn(dat) : l.cluster \in Entries /\ fat[l.cluster] # 0
    BY SoundFacts DEF HeadsSound, UsedIn, Places
  <2> QED BY <2>1, <1>1
<1>5. DiskSound(fat2, dat)
  <2>1. RowsSound(dat) /\ (Kernel => AtIn(dat, [cluster |-> Root, slot |-> 1]).name = "kernel")
    BY DEF DiskSound, NamesSound
  <2> QED BY <2>1, <1>1, <1>3, <1>4, FewerSame, LessDisk
<1> QED BY <1>1, <1>3, <1>5

-----------------------------------------------------------------------------
\* A directory begins with no link before it.
LEMMA DirHeadFacts ==
  ASSUME NEW fat, NEW dat, DiskSound(fat, dat), NEW v, DirHead(dat, v)
  PROVE  v \in Entries /\ \A c \in Entries : fat[c] # v
<1>1. CASE v = Root
  BY <1>1, SoundFacts, FatIsChained, RootFacts
<1>2. CASE \E l \in UsedIn(dat) : AtIn(dat, l).dir /\ AtIn(dat, l).cluster = v
  BY <1>2, SoundFacts, HeadFacts
<1> QED BY <1>1, <1>2 DEF DirHead

\* A cluster read as entries is a row.
LEMMA RowIs ==
  ASSUME NEW dat, RowsSound(dat), NEW c \in Entries
  PROVE  RowFrom(dat[c]) \in Rows
<1>1. dat[c] \in Rows \cup Pieces
  BY DEF RowsSound
<1>2. CASE dat[c] \in Pieces
  BY <1>2 DEF RowFrom, Rows, TextEntry, Entry, Links
<1>3. CASE dat[c] \notin Pieces
  BY <1>1, <1>3 DEF RowFrom
<1> QED BY <1>2, <1>3

\* The places.
LEMMA PlaceIs ==
  /\ \A l \in Places : l = [cluster |-> l.cluster, slot |-> l.slot] /\ l.cluster \in Entries /\ l.slot \in 1..Slots
  /\ \A c \in Entries, s \in 1..Slots : [cluster |-> c, slot |-> s] \in Places
BY DEF Places

\* A write of a cluster.
LEMMA WriteIs ==
  ASSUME NEW dat, RowsSound(dat), NEW c \in Entries, NEW img \in Rows \cup Pieces, TextIsText(RowFrom(img)),
         NEW dat2, Puts(dat, dat2, c, img)
  PROVE  /\ RowsSound(dat2)
         /\ \A l \in Places : l.cluster # c => AtIn(dat2, l) = AtIn(dat, l)
         /\ \A l \in Places : l.cluster = c => AtIn(dat2, l) = RowFrom(img)[l.slot]
         /\ \A d \in Entries : d # c => dat2[d] = dat[d]
<1>0. dat2 = [dat EXCEPT ![c] = img]
  BY DEF Puts
<1>1. dat \in [Entries -> Rows \cup Pieces] /\ \A d \in Entries : TextIsText(RowFrom(dat[d]))
  BY DEF RowsSound
<1>2. dat2 \in [Entries -> Rows \cup Pieces] /\ dat2[c] = img /\ \A d \in Entries : d # c => dat2[d] = dat[d]
  BY <1>0, <1>1
<1>3. RowsSound(dat2)
  BY <1>1, <1>2 DEF RowsSound
<1>4. \A l \in Places : l.cluster \in Entries
  BY PlaceIs
<1> QED BY <1>2, <1>3, <1>4 DEF AtIn

\* A write that only takes entries away leaves a sound disk.
LEMMA ThinDisk ==
  ASSUME NEW fat, NEW dat, DiskSound(fat, dat), NEW c \in Entries, NEW img \in Rows \cup Pieces,
         TextIsText(RowFrom(img)), (c = Root /\ Kernel) => RowFrom(img)[1].name = "kernel",
         Thins(dat, c, img), NEW dat2, Puts(dat, dat2, c, img)
  PROVE  /\ DiskSound(fat, dat2) /\ Fewer(dat, dat2)
         /\ \A l \in UsedIn(dat2) : l.cluster = c => InUse(RowFrom(img)[l.slot])
         /\ \A l \in UsedIn(dat) : l \in UsedIn(dat2) \/ (l.cluster = c /\ ~InUse(RowFrom(img)[l.slot]))
         /\ \A d \in Entries : d # c => dat2[d] = dat[d]
<1>0. RowsSound(dat) /\ NamesSound(fat, dat) /\ FatSound(fat) /\ HeadsSound(fat, dat)
  BY DEF DiskSound
<1>1. /\ RowsSound(dat2)
      /\ \A l \in Places : l.cluster # c => AtIn(dat2, l) = AtIn(dat, l)
      /\ \A l \in Places : l.cluster = c => AtIn(dat2, l) = RowFrom(img)[l.slot]
      /\ \A d \in Entries : d # c => dat2[d] = dat[d]
  BY <1>0, WriteIs
<1>2. ASSUME NEW l \in UsedIn(dat2)
      PROVE  /\ l \in UsedIn(dat) /\ AtIn(dat2, l) = AtIn(dat, l)
             /\ l.cluster = c => InUse(RowFrom(img)[l.slot])
  <2>1. l \in Places /\ InUse(AtIn(dat2, l))
    BY DEF UsedIn
  <2>2. CASE l.cluster # c
    BY <1>1, <2>1, <2>2 DEF UsedIn
  <2>3. CASE l.cluster = c
    <3>1. l = [cluster |-> c, slot |-> l.slot] /\ l.slot \in 1..Slots
      BY <2>1, <2>3, PlaceIs
    <3>2. AtIn(dat2, l) = RowFrom(img)[l.slot]
      BY <1>1, <2>1, <2>3
    <3>3. RowFrom(img)[l.slot] = AtIn(dat, l)
      BY <3>1, <3>2, <2>1 DEF Thins
    <3> QED BY <2>1, <3>2, <3>3 DEF UsedIn
  <2> QED BY <2>2, <2>3
<1>3. \A l \in UsedIn(dat) : l \in UsedIn(dat2) \/ (l.cluster = c /\ ~InUse(RowFrom(img)[l.slot]))
  BY <1>1 DEF UsedIn
<1>4. Fewer(dat, dat2)
  BY <1>2 DEF Fewer
<1>5. Kernel => AtIn(dat2, [cluster |-> Root, slot |-> 1]).name = "kernel"
  <2>1. [cluster |-> Root, slot |-> 1] \in Places
    BY RootFacts, FatAssumption, PlaceIs
  <2>2. Kernel => AtIn(dat, [cluster |-> Root, slot |-> 1]).name = "kernel"
    BY <1>0 DEF NamesSound
  <2> QED BY <1>1, <2>1, <2>2
<1>6. DiskSound(fat, dat2)
  <2>1. \A l \in UsedIn(dat2) : fat[l.cluster] # 0
    BY <1>0, <1>2 DEF HeadsSound
  <2>2. Cuts(fat, fat)
    BY DEF Cuts
  <2> QED BY <1>0, <1>1, <1>4, <1>5, <2>1, <2>2, LessDisk
<1> QED BY <1>1, <1>2, <1>3, <1>4, <1>6

\* So does a link to a new cluster.
LEMMA LinkDisk ==
  ASSUME NEW fat, NEW dat, DiskSound(fat, dat), NEW c \in Entries, fat[c] \notin Entries,
         NEW w \in Entries, Unclaimed(fat, dat, w), fat[w] \notin Entries, fat[w] # 0, c # w,
         NEW fat2, Puts(fat, fat2, c, w)
  PROVE  /\ DiskSound(fat2, dat)
         /\ \A d \in Entries : d # c => fat2[d] = fat[d]
         /\ fat2[c] = w
         /\ \A x, n : InDir(fat, dat, x, n) => InDir(fat2, dat, x, n)
         /\ \A n : InDir(fat, dat, c, n) => InDir(fat2, dat, w, n)
<1>0. RowsSound(dat) /\ NamesSound(fat, dat) /\ FatSound(fat) /\ HeadsSound(fat, dat)
  BY DEF DiskSound
<1>1. /\ w \in Entries \ {Root} /\ \A d \in Entries : fat[d] # w
      /\ \A l \in UsedIn(dat) : AtIn(dat, l).cluster # w /\ l.cluster # w
  BY DEF Unclaimed
<1>2. /\ FatSound(fat2)
      /\ \A v \in Entries : /\ Reach(fat, v) \subseteq Reach(fat2, v)
                            /\ Reach(fat2, v) \subseteq Reach(fat, v) \cup {w}
                            /\ c \in Reach(fat, v) => w \in Reach(fat2, v)
                            /\ c \notin Reach(fat, v) => Reach(fat2, v) = Reach(fat, v)
      /\ \A d \in Entries : d # c => fat2[d] = fat[d]
      /\ fat2[c] = w
  <2>1. w \in Entries \ {Root}
    BY <1>1
  <2> QED BY <1>0, <1>1, <2>1, LinkAdds
<1>3. \A v \in Entries, l \in UsedIn(dat) : l.cluster \in Reach(fat2, v) <=> l.cluster \in Reach(fat, v)
  BY <1>1, <1>2
<1>4. HeadsSound(fat2, dat)
  <2>1. ASSUME NEW l \in UsedIn(dat)
        PROVE  /\ AtIn(dat, l).cluster \in Entries \ {Root}
               /\ \A d \in Entries : fat2[d] # AtIn(dat, l).cluster
               /\ fat2[l.cluster] # 0
    <3>1. /\ AtIn(dat, l).cluster \in Entries \ {Root}
          /\ \A d \in Entries : fat[d] # AtIn(dat, l).cluster
          /\ fat[l.cluster] # 0 /\ l.cluster \in Entries
      BY <1>0 DEF HeadsSound, UsedIn, Places
    <3> QED BY <1>1, <1>2, <3>1, RootFacts
  <2>2. \A l, k \in UsedIn(dat) : AtIn(dat, l).cluster = AtIn(dat, k).cluster => l = k
    BY <1>0 DEF HeadsSound
  <2>3. \A l, k \in UsedIn(dat) : ~AtIn(dat, l).dir => k.cluster \notin Reach(fat2, AtIn(dat, l).cluster)
    BY <1>0, <1>3, <2>1 DEF HeadsSound
  <2> QED BY <2>1, <2>2, <2>3 DEF HeadsSound
<1>5. NamesSound(fat2, dat)
  BY <1>0, <1>3 DEF NamesSound
<1>6. ASSUME NEW v \in Entries, NEW n, NoName(fat, dat, v, n) PROVE NoName(fat2, dat, v, n)
  BY <1>3, <1>6 DEF NoName
<1>7. ASSUME NEW x, NEW n, InDir(fat, dat, x, n) PROVE InDir(fat2, dat, x, n)
  BY <1>2, <1>6, <1>7 DEF InDir
<1>8. ASSUME NEW n, InDir(fat, dat, c, n) PROVE InDir(fat2, dat, w, n)
  BY <1>2, <1>6, <1>8 DEF InDir
<1>9. DiskSound(fat2, dat)
  BY <1>0, <1>2, <1>4, <1>5 DEF DiskSound
<1> QED BY <1>2, <1>7, <1>8, <1>9

\* A new entry.
LEMMA AddDisk ==
  ASSUME NEW fat, NEW dat, DiskSound(fat, dat), NEW c \in Entries, NEW s \in 1..Slots,
         NEW n \in Names, NEW d \in BOOLEAN, NEW new \in Entries,
         ~InUse(AtIn(dat, [cluster |-> c, slot |-> s])),
         NEW img, img = [RowFrom(dat[c]) EXCEPT ![s] = Entry(n, d, new)],
         fat[new] = 0, Unclaimed(fat, dat, new), fat[c] # 0, InDir(fat, dat, c, n),
         NEW dat2, Puts(dat, dat2, c, img)
  PROVE  /\ DiskSound(fat, dat2)
         /\ \A l \in UsedIn(dat2) : \/ l \in UsedIn(dat) /\ AtIn(dat2, l) = AtIn(dat, l)
                                    \/ AtIn(dat2, l).cluster = new
<1>0. RowsSound(dat) /\ NamesSound(fat, dat) /\ FatSound(fat) /\ HeadsSound(fat, dat)
  BY DEF DiskSound
<1> DEFINE here == [cluster |-> c, slot |-> s]
<1>1. here \in Places /\ here.cluster = c
  BY PlaceIs
<1>2. img \in Rows /\ RowFrom(img) = img /\ img[s] = Entry(n, d, new) /\ \A k \in 1..Slots : k # s => img[k] = RowFrom(dat[c])[k]
  <2>1. RowFrom(dat[c]) \in Rows
    BY <1>0, RowIs
  <2>2. Entry(n, d, new) \in [name : Names \cup Unused \cup {"kernel", "text"}, dir : BOOLEAN, cluster : Links]
    BY DEF Entry, Links
  <2>3. img \in Rows
    BY <2>1, <2>2 DEF Rows
  <2>4. RowFrom(img) = img
    <3>1. img \notin Pieces
      BY <2>3, TextAssumption
    <3> QED BY <3>1 DEF RowFrom
  <2>5. img[s] = Entry(n, d, new) /\ \A k \in 1..Slots : k # s => img[k] = RowFrom(dat[c])[k]
    BY <2>1 DEF Rows
  <2> QED BY <2>3, <2>4, <2>5
<1>3. TextIsText(RowFrom(img))
  <2>1. TextIsText(RowFrom(dat[c]))
    BY <1>0 DEF RowsSound
  <2>2. img[s].name # "text"
    BY <1>2, FatAssumption DEF Entry
  <2> SUFFICES ASSUME NEW k \in 1..Slots, img[k].name = "text"
               PROVE  img[k].cluster = EOC /\ img[k].dir = FALSE
    BY <1>2 DEF TextIsText
  <2>3. img[k] = RowFrom(dat[c])[k]
    BY <1>2, <2>2
  <2> QED BY <2>1, <2>3 DEF TextIsText
<1>4. /\ RowsSound(dat2)
      /\ \A l \in Places : l.cluster # c => AtIn(dat2, l) = AtIn(dat, l)
      /\ \A l \in Places : l.cluster = c => AtIn(dat2, l) = RowFrom(img)[l.slot]
  BY <1>0, <1>2, <1>3, WriteIs
<1>5. ASSUME NEW l \in Places, l # here PROVE AtIn(dat2, l) = AtIn(dat, l)
  <2>1. CASE l.cluster # c
    BY <1>4, <2>1
  <2>2. CASE l.cluster = c
    <3>1. l.slot \in 1..Slots /\ l.slot # s
      BY <1>5, <2>2, PlaceIs
    <3>2. AtIn(dat2, l) = img[l.slot]
      BY <1>2, <1>4, <2>2
    <3>3. AtIn(dat, l) = RowFrom(dat[c])[l.slot]
      BY <2>2 DEF AtIn
    <3> QED BY <1>2, <3>1, <3>2, <3>3
  <2> QED BY <2>1, <2>2
<1>6. AtIn(dat2, here) = Entry(n, d, new) /\ here \notin UsedIn(dat)
  BY <1>1, <1>2, <1>4 DEF UsedIn
<1> HIDE DEF here
<1>7. ASSUME NEW l \in UsedIn(dat2) PROVE l = here \/ (l \in UsedIn(dat) /\ AtIn(dat2, l) = AtIn(dat, l) /\ l # here)
  <2>1. l \in Places /\ InUse(AtIn(dat2, l))
    BY DEF UsedIn
  <2>2. CASE l # here
    <3>1. AtIn(dat2, l) = AtIn(dat, l)
      BY <1>5, <2>1, <2>2
    <3> QED BY <2>1, <2>2, <3>1 DEF UsedIn
  <2> QED BY <2>2
<1>8. /\ new \in Entries \ {Root} /\ \A b \in Entries : fat[b] # new
      /\ \A l \in UsedIn(dat) : AtIn(dat, l).cluster # new /\ l.cluster # new
  BY DEF Unclaimed
<1>9. PICK u \in Entries : DirHead(dat, u) /\ c \in Reach(fat, u) /\ NoName(fat, dat, u, n)
  BY DEF InDir
<1>10. \A b \in Entries : fat[b] # u
  BY <1>9, DirHeadFacts
<1>11. Chained(fat)
  BY <1>0, FatIsChained
<1>12. AtIn(dat2, here).cluster = new /\ AtIn(dat2, here).name = n /\ AtIn(dat2, here).dir = d
  BY <1>6 DEF Entry
<1>13. HeadsSound(fat, dat2)
  <2>1. ASSUME NEW l \in UsedIn(dat2)
        PROVE  /\ AtIn(dat2, l).cluster \in Entries \ {Root}
               /\ \A b \in Entries : fat[b] # AtIn(dat2, l).cluster
               /\ fat[l.cluster] # 0
    <3>1. CASE l = here
      BY <3>1, <1>1, <1>8, <1>12
    <3>2. CASE l # here
      BY <3>2, <1>0, <1>7 DEF HeadsSound
    <3> QED BY <3>1, <3>2
  <2>2. ASSUME NEW l \in UsedIn(dat2), NEW k \in UsedIn(dat2), AtIn(dat2, l).cluster = AtIn(dat2, k).cluster
        PROVE  l = k
    <3>1. CASE l # here /\ k # here
      BY <3>1, <2>2, <1>0, <1>7 DEF HeadsSound
    <3>2. CASE l = here \/ k = here
      BY <3>2, <2>2, <1>7, <1>8, <1>12
    <3> QED BY <3>1, <3>2
  <2>3. ASSUME NEW l \in UsedIn(dat2), NEW k \in UsedIn(dat2), ~AtIn(dat2, l).dir
        PROVE  k.cluster \notin Reach(fat, AtIn(dat2, l).cluster)
    <3>1. CASE l = here
      <4>1. Reach(fat, new) \subseteq {new}
        <5>1. new \in {new} /\ Closed(fat, {new})
          BY RootFacts DEF Closed
        <5> QED BY <1>11, <5>1, ReachLeast
      <4>2. k.cluster # new
        BY <1>1, <1>7, <1>8
      <4> QED BY <3>1, <4>1, <4>2, <1>12
    <3>2. CASE l # here /\ k # here
      BY <3>2, <2>3, <1>0, <1>7 DEF HeadsSound
    <3>3. CASE l # here /\ k = here
      <4> SUFFICES ASSUME c \in Reach(fat, AtIn(dat2, l).cluster) PROVE FALSE
        BY <3>3, <1>1
      <4>1. l \in UsedIn(dat) /\ AtIn(dat2, l) = AtIn(dat, l)
        BY <3>3, <1>7
      <4>2. AtIn(dat, l).cluster \in Entries \ {Root} /\ \A b \in Entries : fat[b] # AtIn(dat, l).cluster
        BY <4>1, <1>0 DEF HeadsSound
      <4>3. u = AtIn(dat, l).cluster
        <5>1. AtIn(dat, l).cluster \in Entries /\ c \in Reach(fat, AtIn(dat, l).cluster)
          BY <4>1, <4>2
        <5> QED BY <1>0, <1>9, <1>10, <4>2, <5>1, HeadsMeet
      <4>4. PICK k2 \in UsedIn(dat) : AtIn(dat, k2).dir /\ AtIn(dat, k2).cluster = u
        BY <1>9, <4>2, <4>3 DEF DirHead
      <4>5. k2 = l
        BY <4>1, <4>3, <4>4, <1>0 DEF HeadsSound
      <4> QED BY <2>3, <4>1, <4>4, <4>5
    <3> QED BY <3>1, <3>2, <3>3
  <2> QED BY <2>1, <2>2, <2>3 DEF HeadsSound
<1>14. ASSUME NEW v \in Entries, c \in Reach(fat, v), NEW l \in UsedIn(dat), l.cluster \in Reach(fat, v)
       PROVE  AtIn(dat, l).name # n
  <2>1. Reach(fat, v) \subseteq Reach(fat, u)
    <3>1. \A a, b \in Entries : fat[a] = fat[b] /\ fat[a] \in Entries => a = b
      BY <1>0, FatIsChained
    <3> QED BY <3>1, <1>9, <1>10, <1>11, <1>14, ReachMeets
  <2> QED BY <2>1, <1>9, <1>14 DEF NoName
<1>15. NamesSound(fat, dat2)
  <2>1. ASSUME NEW v \in Entries, NEW l \in UsedIn(dat2), NEW k \in UsedIn(dat2),
               l.cluster \in Reach(fat, v), k.cluster \in Reach(fat, v), AtIn(dat2, l).name = AtIn(dat2, k).name
        PROVE  l = k
    <3>1. CASE l # here /\ k # here
      BY <3>1, <2>1, <1>0, <1>7 DEF NamesSound
    <3>2. CASE l = here /\ k # here
      BY <3>2, <2>1, <1>1, <1>7, <1>12, <1>14
    <3>3. CASE l # here /\ k = here
      BY <3>3, <2>1, <1>1, <1>7, <1>12, <1>14
    <3> QED BY <3>1, <3>2, <3>3
  <2>2. ASSUME NEW l \in UsedIn(dat2), AtIn(dat2, l).name = "kernel"
        PROVE  l = [cluster |-> Root, slot |-> 1]
    <3>1. l # here
      BY <2>2, <1>12, KnownFacts
    <3> QED BY <3>1, <2>2, <1>0, <1>7 DEF NamesSound
  <2>3. ASSUME Kernel PROVE AtIn(dat2, [cluster |-> Root, slot |-> 1]).name = "kernel"
    <3> DEFINE k == [cluster |-> Root, slot |-> 1]
    <3>1. k \in Places /\ AtIn(dat, k).name = "kernel"
      BY <2>3, <1>0, RootFacts, FatAssumption, PlaceIs DEF NamesSound
    <3>2. k \in UsedIn(dat)
      BY <3>1, KnownFacts DEF UsedIn, InUse
    <3>3. k # here
      BY <3>2, <1>6
    <3> QED BY <3>1, <3>3, <1>5
  <2> QED BY <2>1, <2>2, <2>3 DEF NamesSound
<1>16. DiskSound(fat, dat2)
  BY <1>0, <1>4, <1>13, <1>15 DEF DiskSound
<1> QED BY <1>7, <1>12, <1>16

-----------------------------------------------------------------------------
(* The running call *)

IsNone(cs) == cs \in Seq(Range(cs)) /\ Len(cs) = 0
IsOne(cs, a) == cs \in Seq(Range(cs)) /\ Len(cs) = 1 /\ cs[1] = a
IsTwo(cs, a, b) == cs \in Seq(Range(cs)) /\ Len(cs) = 2 /\ cs[1] = a /\ cs[2] = b
IsThree(cs, a, b, c) == cs \in Seq(Range(cs)) /\ Len(cs) = 3 /\ cs[1] = a /\ cs[2] = b /\ cs[3] = c
IsFour(cs, a, b, c, d) == /\ cs \in Seq(Range(cs)) /\ Len(cs) = 4
                          /\ cs[1] = a /\ cs[2] = b /\ cs[3] = c /\ cs[4] = d

\* The lists of calls of the actions.
LEMMA Tuples ==
  /\ IsNone(<<>>)
  /\ \A a : IsOne(<<a>>, a)
  /\ \A a, b : IsTwo(<<a, b>>, a, b)
  /\ \A a, b, c : IsThree(<<a, b, c>>, a, b, c)
  /\ \A a, b, c, d : IsFour(<<a, b, c, d>>, a, b, c, d)
<1>1. IsNone(<<>>)
  BY DEF IsNone, Range
<1>2. ASSUME NEW a PROVE IsOne(<<a>>, a)
  <2>1. <<a>> \in Seq({a})
    OBVIOUS
  <2> QED BY <2>1, SeqOfRange DEF IsOne
<1>3. ASSUME NEW a, NEW b PROVE IsTwo(<<a, b>>, a, b)
  <2>1. <<a, b>> \in Seq({a, b})
    OBVIOUS
  <2> QED BY <2>1, SeqOfRange DEF IsTwo
<1>4. ASSUME NEW a, NEW b, NEW c PROVE IsThree(<<a, b, c>>, a, b, c)
  <2>1. <<a, b, c>> \in Seq({a, b, c})
    OBVIOUS
  <2> QED BY <2>1, SeqOfRange DEF IsThree
<1>5. ASSUME NEW a, NEW b, NEW c, NEW d PROVE IsFour(<<a, b, c, d>>, a, b, c, d)
  <2>1. <<a, b, c, d>> \in Seq({a, b, c, d})
    OBVIOUS
  <2> QED BY <2>1, SeqOfRange DEF IsFour
<1> QED BY <1>1, <1>2, <1>3, <1>4, <1>5

\* The first call of td, an f, goes on as the calls cs.
Moves(td2, td, f, cs) ==
  /\ td \in Seq(Range(td)) /\ td # <<>> /\ td[1].f = f
  /\ cs \in Seq(Range(cs)) /\ td2 = cs \o Tail(td)

\* The calls after a step.
LEMMA MovesStack ==
  ASSUME NEW td2, NEW td, NEW f, NEW cs, Moves(td2, td, f, cs)
  PROVE  /\ Restacked(td2, td, cs) /\ td2 \in Seq(Range(td2))
         /\ Len(td) \in Nat \ {0} /\ 1 \in 1..Len(td) /\ td[1].f = f /\ Len(cs) \in Nat
<1>1. td \in Seq(Range(td)) /\ td # <<>> /\ cs \in Seq(Range(cs)) /\ td2 = cs \o Tail(td) /\ td[1].f = f
  BY DEF Moves
<1>2. Restacked(td2, td, cs) /\ td2 \in Seq(Range(td2))
  BY <1>1, RestackedIs
<1> QED BY <1>1, <1>2 DEF Restacked

\* When only the rest of the command waits below.
LEMMA MovesRest ==
  ASSUME NEW td2, NEW td, NEW cs, Restacked(td2, td, cs), Rest(td, 1)
  PROVE  /\ \A j \in 1..Len(td2) : j > Len(cs) => td2[j].f \in {"write_to_file", "look"}
         /\ Calm(cs) => Calm(td2)
<1>1. ASSUME NEW j \in 1..Len(td2), ~(j \in 1..Len(cs) /\ td2[j] = cs[j])
      PROVE  td2[j].f \in {"write_to_file", "look"}
  <2>1. PICK i \in 2..Len(td) : Lower(td2, td, cs, i, j)
    BY <1>1, LowerIs
  <2>2. i \in 1+1..Len(td) /\ td2[j] = td[i]
    BY <2>1 DEF Lower
  <2> QED BY <2>2 DEF Rest
<1>2. Len(cs) \in Nat
  BY DEF Restacked
<1>3. \A j \in 1..Len(td2) : j > Len(cs) => td2[j].f \in {"write_to_file", "look"}
  BY <1>1, <1>2
<1>4. Calm(cs) => Calm(td2)
  BY <1>1 DEF Calm
<1> QED BY <1>3, <1>4

\* The parts of Good.
LEMMA GoodFacts ==
  ASSUME NEW fat, NEW dat, NEW td, NEW rt, Good(fat, dat, td, rt)
  PROVE  /\ DiskSound(fat, dat) /\ Debts(fat, dat, td) /\ td \in Seq(Range(td))
         /\ AllSound(fat, dat, td, rt) /\ rt \in Entries \cup {0, 1}
BY DEF Good

\* Calls below which there is only the rest of the command.
LEMMA RestStep ==
  ASSUME NEW fat, NEW dat, NEW td, NEW rt, Good(fat, dat, td, rt),
         NEW td2, NEW f, NEW cs, Moves(td2, td, f, cs), Rest(td, 1),
         f \notin {"write_fat", "modify_fat", "free_chain", "write_data"},
         NEW rt2 \in Entries \cup {0, 1},
         \A m \in 1..Len(cs) : CallSound(fat, dat, td2, rt2, m)
  PROVE  Good(fat, dat, td2, rt2)
<1>1. /\ Restacked(td2, td, cs) /\ td2 \in Seq(Range(td2)) /\ td[1].f = f
  BY MovesStack
<1>2. /\ DiskSound(fat, dat) /\ Debts(fat, dat, td) /\ AllSound(fat, dat, td, rt)
  BY GoodFacts
<1>3. \A i, m : Lower(td2, td, cs, i, m) => CallSound(fat, dat, td2, rt2, m)
  BY <1>1, <1>2, RestLower
<1>4. AllSound(fat, dat, td2, rt2)
  BY <1>1, <1>3, AllSoundKept
<1>5. \A l \in UsedIn(dat) : fat[AtIn(dat, l).cluster] # 0
  BY <1>1, <1>2, NoDebts
<1>6. Debts(fat, dat, td2)
  BY <1>5 DEF Debts
<1> QED BY <1>1, <1>2, <1>4, <1>6 DEF Good

\* Calls that are done and change nothing here.
LEMMA CutsSame == \A fat : Cuts(fat, fat) /\ Ends(fat, fat)
BY DEF Cuts, Ends

\* Such a call while nothing is deleted.
LEMMA PopCalm ==
  ASSUME NEW fat, NEW dat, NEW td, NEW rt, Good(fat, dat, td, rt), Calm(td),
         NEW td2, NEW f, NEW cs, Moves(td2, td, f, cs), IsNone(cs),
         f \in {"return", "write_fat", "modify_fat", "write_data"},
         \A y \in Entries : \A w : ~Sets(fat, td[1], y, w), \A l \in UsedIn(dat) : ~Removes(td[1], l),
         NEW rt2 \in Entries \cup {0, 1}, f = "return" => rt2 = td[1].args[1]
  PROVE  Good(fat, dat, td2, rt2)
<1>1. /\ Restacked(td2, td, cs) /\ td2 \in Seq(Range(td2)) /\ td[1].f = f /\ Len(cs) = 0 /\ \A j \in 1..Len(cs) : FALSE
  <2>1. Len(cs) = 0
    BY DEF IsNone
  <2> QED BY <2>1, MovesStack
<1>2. /\ DiskSound(fat, dat) /\ Debts(fat, dat, td) /\ AllSound(fat, dat, td, rt)
  BY GoodFacts
<1>3. CalmStep(fat, dat, td, fat, dat, rt2, cs)
  <2>1. Calm(cs)
    BY <1>1 DEF Calm
  <2>2. Ends(fat, fat) /\ Fewer(dat, dat)
    BY CutsSame, FewerSame
  <2> QED BY <1>1, <2>1, <2>2 DEF CalmStep
<1>4. \A i, m : Lower(td2, td, cs, i, m) => CallSound(fat, dat, td2, rt2, m)
  BY <1>1, <1>2, <1>3, CalmLower
<1>5. AllSound(fat, dat, td2, rt2)
  BY <1>1, <1>4, AllSoundKept
<1>6. Debts(fat, dat, td2)
  <2>1. \A l \in UsedIn(dat) : fat[AtIn(dat, l).cluster] = 0 => Paid(fat, dat, td, l)
    BY <1>2 DEF Debts
  <2>2. \A l \in UsedIn(dat) : ~Pays(fat, dat, td[1], l)
    BY <1>2, SoundFacts, HeadFacts DEF Pays
  <2> QED BY <1>1, <1>2, <2>1, <2>2, FewerSame, DebtsKept
<1> QED BY <1>1, <1>2, <1>5, <1>6 DEF Good

\* Such a call while something is deleted.
LEMMA PopFreeing ==
  ASSUME NEW fat, NEW dat, NEW td, NEW rt, Good(fat, dat, td, rt), ~Calm(td),
         NEW td2, NEW f, NEW cs, Moves(td2, td, f, cs), IsNone(cs),
         \A y \in Entries : \A w : ~Sets(fat, td[1], y, w), \A l \in UsedIn(dat) : ~Removes(td[1], l),
         HandsOn(fat, dat, td, dat, cs),
         f = "delete_inside" => \A l \in UsedIn(dat) : l.cluster \notin Reach(fat, td[2].args[1]),
         NEW rt2 \in Entries \cup {0, 1}
  PROVE  Good(fat, dat, td2, rt2)
<1>1. /\ Restacked(td2, td, cs) /\ td2 \in Seq(Range(td2)) /\ td[1].f = f /\ Len(cs) = 0 /\ \A j \in 1..Len(cs) : FALSE
  <2>1. Len(cs) = 0
    BY DEF IsNone
  <2> QED BY <2>1, MovesStack
<1>2. /\ DiskSound(fat, dat) /\ Debts(fat, dat, td) /\ AllSound(fat, dat, td, rt)
  BY GoodFacts
<1>3. FreeingStep(fat, dat, td, fat, dat, cs)
  <2>1. KeepsWays(fat, dat, td, fat, dat, cs) /\ Deeper(td, cs)
    BY <1>1 DEF KeepsWays, Deeper
  <2>2. Cuts(fat, fat) /\ Fewer(dat, dat)
    BY CutsSame, FewerSame
  <2>3. Len(cs) = 0 /\ \A j \in 1..Len(cs) : FALSE
    BY <1>1
  <2>4. \A y \in Entries : ~Sets(fat, td[1], y, 0)
    OBVIOUS
  <2>5. td[1].f = "delete_inside" => \A l \in UsedIn(dat) : l.cluster \notin Reach(fat, td[2].args[1])
    BY <1>1
  <2>6. ~Calm(td) /\ HandsOn(fat, dat, td, dat, cs)
    OBVIOUS
  <2>7. \A j \in 1..Len(cs), i \in 2..Len(td) : cs[j].f = "write_data" /\ td[i].f = "write_data" => cs[j].args[1] # td[i].args[1]
    BY <2>3
  <2>8. /\ FatCall(td[1]) => \A j \in 1..Len(cs) : FatCall(cs[j])
        /\ \A y \in Entries : Sets(fat, td[1], y, 0) =>
            fat[y] = 0 \/ \E j \in 1..Len(cs) : Sets(fat, cs[j], y, 0)
    BY ONLY <2>3, <2>4
  <2> QED BY ONLY <2>1, <2>2, <2>3, <2>5, <2>6, <2>7, <2>8 DEF FreeingStep
<1>4. \A i, m : Lower(td2, td, cs, i, m) => CallSound(fat, dat, td2, rt2, m)
  BY <1>1, <1>2, <1>3, FreeingLower
<1>5. AllSound(fat, dat, td2, rt2)
  BY <1>1, <1>4, AllSoundKept
<1>6. Debts(fat, dat, td2)
  <2>1. \A l \in UsedIn(dat) : fat[AtIn(dat, l).cluster] = 0 => Paid(fat, dat, td, l)
    BY <1>2 DEF Debts
  <2>2. \A l \in UsedIn(dat) : ~Pays(fat, dat, td[1], l)
    BY <1>2, SoundFacts, HeadFacts DEF Pays
  <2> QED BY <1>1, <1>2, <2>1, <2>2, FewerSame, DebtsKept
<1> QED BY <1>1, <1>2, <1>5, <1>6 DEF Good

\* Such a call at any time.
LEMMA PassivePop ==
  ASSUME NEW fat, NEW dat, NEW td, NEW rt, Good(fat, dat, td, rt),
         NEW td2, NEW f, NEW cs, Moves(td2, td, f, cs), IsNone(cs),
         f \in {"return", "write_fat", "modify_fat", "write_data"},
         \A y \in Entries : \A w : ~Sets(fat, td[1], y, w), \A l \in UsedIn(dat) : ~Removes(td[1], l),
         NEW rt2 \in Entries \cup {0, 1}, f = "return" => rt2 = td[1].args[1]
  PROVE  Good(fat, dat, td2, rt2)
<1>1. CASE Calm(td)
  BY <1>1, PopCalm
<1>2. CASE ~Calm(td)
  <2>1. HandsOn(fat, dat, td, dat, cs) /\ f # "delete_inside"
    BY DEF HandsOn, Moves
  <2> QED BY <1>2, <2>1, PopFreeing
<1> QED BY <1>1, <1>2

-----------------------------------------------------------------------------
(* A write to the FAT *)

\* Good is kept by the steps of a command that deletes nothing.
LEMMA CalmGood ==
  ASSUME NEW fat, NEW dat, NEW td, NEW rt, Good(fat, dat, td, rt),
         NEW td2, NEW f, NEW cs, Moves(td2, td, f, cs),
         NEW fat2, NEW dat2, NEW rt2 \in Entries \cup {0, 1},
         DiskSound(fat2, dat2), Debts(fat2, dat2, td2), CalmStep(fat, dat, td, fat2, dat2, rt2, cs),
         \A m \in 1..Len(cs) : CallSound(fat2, dat2, td2, rt2, m)
  PROVE  Good(fat2, dat2, td2, rt2)
<1>1. Restacked(td2, td, cs) /\ td2 \in Seq(Range(td2)) /\ AllSound(fat, dat, td, rt)
  BY MovesStack, GoodFacts
<1>2. \A i, m : Lower(td2, td, cs, i, m) => CallSound(fat2, dat2, td2, rt2, m)
  BY <1>1, CalmLower
<1>3. AllSound(fat2, dat2, td2, rt2)
  BY <1>1, <1>2, AllSoundKept
<1> QED BY <1>1, <1>3 DEF Good

\* Good is kept by the steps of a command that deletes.
LEMMA FreeingGood ==
  ASSUME NEW fat, NEW dat, NEW td, NEW rt, Good(fat, dat, td, rt),
         NEW td2, NEW f, NEW cs, Moves(td2, td, f, cs),
         NEW fat2, NEW dat2, NEW rt2 \in Entries \cup {0, 1},
         DiskSound(fat2, dat2), Debts(fat2, dat2, td2), FreeingStep(fat, dat, td, fat2, dat2, cs),
         \A m \in 1..Len(cs) : CallSound(fat2, dat2, td2, rt2, m)
  PROVE  Good(fat2, dat2, td2, rt2)
<1>1. Restacked(td2, td, cs) /\ td2 \in Seq(Range(td2)) /\ AllSound(fat, dat, td, rt)
  BY MovesStack, GoodFacts
<1>2. \A i, m : Lower(td2, td, cs, i, m) => CallSound(fat2, dat2, td2, rt2, m)
  BY <1>1, FreeingLower
<1>3. AllSound(fat2, dat2, td2, rt2)
  BY <1>1, <1>2, AllSoundKept
<1> QED BY <1>1, <1>3 DEF Good

\* The cluster after one of a directory belongs to it too.
LEMMA InDirOn ==
  ASSUME NEW fat, Chained(fat), NEW dat, NEW y, NEW n, InDir(fat, dat, y, n), fat[y] \in Entries
  PROVE  InDir(fat, dat, fat[y], n)
<1>1. PICK v \in Entries : DirHead(dat, v) /\ y \in Reach(fat, v) /\ NoName(fat, dat, v, n)
  BY DEF InDir
<1>2. fat[y] \in Reach(fat, v)
  BY <1>1, ReachClosed DEF Closed
<1> QED BY <1>1, <1>2 DEF InDir

\* The same chains make the same directories.
LEMMA InDirSame ==
  ASSUME NEW fat, NEW fat2, \A v \in Entries : Reach(fat2, v) = Reach(fat, v), NEW dat, NEW x, NEW n,
         InDir(fat, dat, x, n)
  PROVE  InDir(fat2, dat, x, n)
BY DEF InDir, NoName

\* The write changes what it writes; what else the FAT holds stays.
LEMMA WrittenIs ==
  ASSUME NEW fat \in [Entries -> Links], NEW fat2, NEW c \in Entries, NEW w, Puts(fat, fat2, c, w),
         NEW t, t.f = "write_fat", t.args[1] = 1, t.args[2] = fat2
  PROVE  /\ fat2[c] = w /\ \A d \in Entries : d # c => fat2[d] = fat[d]
         /\ \A y \in Entries : \A x : Sets(fat, t, y, x) => fat2[y] = x
<1>1. fat2[c] = w /\ \A d \in Entries : d # c => fat2[d] = fat[d]
  BY DEF Puts
<1>2. ASSUME NEW y \in Entries, NEW x, Sets(fat, t, y, x) PROVE fat2[y] = x
  BY <1>2 DEF Sets
<1> QED BY <1>1, <1>2

\* No debt is left behind by a write to the FAT.
LEMMA WrittenDebts ==
  ASSUME NEW fat, NEW dat, NEW td, NEW rt, Good(fat, dat, td, rt),
         NEW td2, NEW cs, Moves(td2, td, "write_fat", cs), IsNone(cs),
         NEW c \in Entries, NEW w, NEW fat2, Puts(fat, fat2, c, w), td[1].args[1] = 1, td[1].args[2] = fat2,
         \A l \in UsedIn(dat) : w = 0 /\ AtIn(dat, l).cluster = c => Paid(fat, dat, td, l)
  PROVE  Debts(fat2, dat, td2)
<1>1. /\ Restacked(td2, td, cs) /\ td[1].f = "write_fat" /\ Len(cs) = 0 /\ \A j \in 1..Len(cs) : FALSE
  <2>1. Len(cs) = 0
    BY DEF IsNone
  <2> QED BY <2>1, MovesStack
<1>2. /\ DiskSound(fat, dat) /\ Debts(fat, dat, td) /\ AllSound(fat, dat, td, rt)
  BY GoodFacts
<1>3. fat \in [Entries -> Links] /\ \A l \in UsedIn(dat) : AtIn(dat, l).cluster \in Entries
  BY <1>2, SoundFacts, HeadFacts, FatIsChained
<1>4. /\ fat2[c] = w /\ \A d \in Entries : d # c => fat2[d] = fat[d]
      /\ \A y \in Entries : \A x : Sets(fat, td[1], y, x) => fat2[y] = x
  <2>1. td[1].f = "write_fat" /\ td[1].args[1] = 1 /\ td[1].args[2] = fat2
    BY <1>1
  <2>2. Puts(fat, fat2, c, w)
    OBVIOUS
  <2> QED BY ONLY <2>1, <2>2, <1>3, c \in Entries, WrittenIs
<1>5. \A l \in UsedIn(dat) : fat2[AtIn(dat, l).cluster] = 0 => Paid(fat, dat, td, l)
  BY <1>2, <1>3, <1>4 DEF Debts
<1>6. \A l \in UsedIn(dat) : ~(Pays(fat, dat, td[1], l) /\ fat2[AtIn(dat, l).cluster] = 0)
  BY <1>1, <1>3, <1>4, RootFacts DEF Pays, Removes
<1> QED BY <1>1, <1>2, <1>5, <1>6, FewerSame, DebtsKept

-----------------------------------------------------------------------------
\* The first copy of the FAT is written: fat2, which sets the entry of c to w.
Writes(fat, fat2, td, td2, cs, c, w) ==
  /\ Moves(td2, td, "write_fat", cs) /\ IsNone(cs)
  /\ td[1].args[1] = 1 /\ td[1].args[2] = fat2 /\ Puts(fat, fat2, c, w)

\* What such a step starts from.
LEMMA WritesFacts ==
  ASSUME NEW fat, NEW dat, NEW td, NEW rt, Good(fat, dat, td, rt), NEW fat2, NEW td2, NEW cs,
         NEW c \in Entries, NEW w, Writes(fat, fat2, td, td2, cs, c, w)
  PROVE  /\ Moves(td2, td, "write_fat", cs) /\ td[1].f = "write_fat" /\ td[1].args[1] = 1 /\ td[1].args[2] = fat2
         /\ Len(cs) = 0 /\ \A j \in 1..Len(cs) : FALSE
         /\ DiskSound(fat, dat) /\ Chained(fat) /\ fat \in [Entries -> Links] /\ Fewer(dat, dat)
         /\ fat2[c] = w /\ \A d \in Entries : d # c => fat2[d] = fat[d]
         /\ \A y \in Entries : \A x : Sets(fat, td[1], y, x) => fat2[y] = x
         /\ Calm(cs) /\ Deeper(td, cs)
<1>1. /\ Moves(td2, td, "write_fat", cs) /\ td[1].f = "write_fat" /\ td[1].args[1] = 1 /\ td[1].args[2] = fat2
      /\ Len(cs) = 0 /\ Puts(fat, fat2, c, w)
  <2>1. Moves(td2, td, "write_fat", cs) /\ IsNone(cs)
    BY DEF Writes
  <2> QED BY <2>1, MovesStack DEF Writes, IsNone
<1>2. DiskSound(fat, dat) /\ Chained(fat) /\ fat \in [Entries -> Links] /\ Fewer(dat, dat)
  BY GoodFacts, SoundFacts, FatIsChained, FewerSame
<1>3. /\ fat2[c] = w /\ \A d \in Entries : d # c => fat2[d] = fat[d]
      /\ \A y \in Entries : \A x : Sets(fat, td[1], y, x) => fat2[y] = x
  <2>1. td[1].f = "write_fat" /\ td[1].args[1] = 1 /\ td[1].args[2] = fat2
    BY <1>1
  <2>2. Puts(fat, fat2, c, w) /\ fat \in [Entries -> Links]
    BY <1>1, <1>2
  <2> QED BY ONLY <2>1, <2>2, c \in Entries, WrittenIs
<1>4. \A j \in 1..Len(cs) : FALSE
  BY <1>1
<1>5. Calm(cs) /\ Deeper(td, cs)
  BY <1>4 DEF Calm, Deeper
<1> QED BY <1>1, <1>2, <1>3, <1>4, <1>5

\* The end mark is written.
LEMMA EndWritten ==
  ASSUME NEW fat, NEW dat, NEW td, NEW rt, Good(fat, dat, td, rt), NEW fat2, NEW td2, NEW cs,
         NEW c \in Entries, Writes(fat, fat2, td, td2, cs, c, EOC), EndOK(fat, td, c)
  PROVE  Good(fat2, dat, td2, rt)
<1>1. /\ Moves(td2, td, "write_fat", cs) /\ td[1].f = "write_fat" /\ td[1].args[1] = 1 /\ td[1].args[2] = fat2
      /\ Len(cs) = 0 /\ \A j \in 1..Len(cs) : FALSE
      /\ DiskSound(fat, dat) /\ Chained(fat) /\ fat \in [Entries -> Links] /\ Fewer(dat, dat)
      /\ fat2[c] = EOC /\ \A d \in Entries : d # c => fat2[d] = fat[d]
      /\ \A y \in Entries : \A x : Sets(fat, td[1], y, x) => fat2[y] = x
      /\ Calm(cs) /\ Deeper(td, cs)
  BY WritesFacts
<1>2. fat[c] \notin Entries /\ Calm(td) /\ Puts(fat, fat2, c, EOC) /\ IsNone(cs)
  BY DEF EndOK, Writes
<1>3. DiskSound(fat2, dat) /\ Ends(fat, fat2) /\ \A v \in Entries : Reach(fat2, v) = Reach(fat, v)
  BY <1>1, <1>2, EndDisk
<1>4. Debts(fat2, dat, td2)
  <2>1. \A l \in UsedIn(dat) : EOC = 0 /\ AtIn(dat, l).cluster = c => Paid(fat, dat, td, l)
    BY RootFacts
  <2>2. /\ Moves(td2, td, "write_fat", cs) /\ IsNone(cs) /\ Puts(fat, fat2, c, EOC)
        /\ td[1].args[1] = 1 /\ td[1].args[2] = fat2
    BY <1>1, <1>2
  <2> QED BY ONLY <2>1, <2>2, c \in Entries, Good(fat, dat, td, rt), WrittenDebts
<1>5. \A x, n : InDir(fat, dat, x, n) => InDir(fat2, dat, x, n)
  BY <1>3, InDirSame
<1>6. ASSUME NEW x \in Entries, NEW y \in Entries, NEW n, InDir(fat, dat, y, n), Sets(fat, td[1], y, x)
      PROVE  InDir(fat2, dat, x, n)
  <2>1. fat2[y] = x /\ y # c /\ fat[y] = x
    BY <1>1, <1>6, RootFacts
  <2>2. InDir(fat, dat, x, n)
    BY <1>1, <1>6, <2>1, InDirOn
  <2> QED BY <1>5, <2>2
<1>7. \A x \in Entries : Sets(fat, td[1], x, EOC) => fat2[x] # 0
  BY <1>1, RootFacts
<1>8. CalmStep(fat, dat, td, fat2, dat, rt, cs)
  BY ONLY <1>1, <1>2, <1>3, <1>5, <1>6, <1>7 DEF CalmStep
<1>9. rt \in Entries \cup {0, 1}
  BY GoodFacts
<1>10. \A m \in 1..Len(cs) : CallSound(fat2, dat, td2, rt, m)
  BY <1>1
<1> QED BY <1>1, <1>3, <1>4, <1>8, <1>9, <1>10, CalmGood

\* A link is written.
LEMMA LinkWritten ==
  ASSUME NEW fat, NEW dat, NEW td, NEW rt, Good(fat, dat, td, rt), NEW fat2, NEW td2, NEW cs,
         NEW c \in Entries, NEW w \in Entries, Writes(fat, fat2, td, td2, cs, c, w),
         LinkOn(fat, dat, td, 1, c, w), fat[w] # 0
  PROVE  Good(fat2, dat, td2, rt)
<1>1. /\ Moves(td2, td, "write_fat", cs) /\ td[1].f = "write_fat" /\ td[1].args[1] = 1 /\ td[1].args[2] = fat2
      /\ Len(cs) = 0 /\ \A j \in 1..Len(cs) : FALSE
      /\ DiskSound(fat, dat) /\ Chained(fat) /\ fat \in [Entries -> Links] /\ Fewer(dat, dat)
      /\ fat2[c] = w /\ \A d \in Entries : d # c => fat2[d] = fat[d]
      /\ \A y \in Entries : \A x : Sets(fat, td[1], y, x) => fat2[y] = x
      /\ Calm(cs) /\ Deeper(td, cs)
  BY WritesFacts
<1>2. /\ Calm(td) /\ Unclaimed(fat, dat, w) /\ fat[w] \notin Entries /\ c # w /\ fat[c] \notin Entries
      /\ \A j \in 2..Len(td) : td[j].f # "modify_fat"
      /\ Puts(fat, fat2, c, w) /\ IsNone(cs)
  <2>1. \A j \in 1+1..Len(td) : td[j].f # "modify_fat"
    BY DEF LinkOn
  <2>2. \A j \in 2..Len(td) : td[j].f # "modify_fat"
    BY <2>1
  <2> QED BY <2>2 DEF LinkOn, Writes
<1>3. /\ DiskSound(fat2, dat)
      /\ \A x, n : InDir(fat, dat, x, n) => InDir(fat2, dat, x, n)
      /\ \A n : InDir(fat, dat, c, n) => InDir(fat2, dat, w, n)
  BY <1>1, <1>2, LinkDisk
<1>4. Debts(fat2, dat, td2)
  <2>1. \A l \in UsedIn(dat) : w = 0 /\ AtIn(dat, l).cluster = c => Paid(fat, dat, td, l)
    BY RootFacts
  <2>2. /\ Moves(td2, td, "write_fat", cs) /\ IsNone(cs) /\ Puts(fat, fat2, c, w)
        /\ td[1].args[1] = 1 /\ td[1].args[2] = fat2
    BY <1>1, <1>2
  <2> QED BY ONLY <2>1, <2>2, c \in Entries, Good(fat, dat, td, rt), WrittenDebts
<1>6. ASSUME NEW x \in Entries, NEW y \in Entries, NEW n, InDir(fat, dat, y, n), Sets(fat, td[1], y, x)
      PROVE  InDir(fat2, dat, x, n)
  <2>1. fat2[y] = x
    BY <1>1, <1>6
  <2>2. CASE y = c
    BY <1>1, <1>3, <1>6, <2>1, <2>2
  <2>3. CASE y # c
    <3>1. fat[y] = x
      BY <1>1, <2>1, <2>3
    <3>2. InDir(fat, dat, x, n)
      BY <1>1, <1>6, <3>1, InDirOn
    <3> QED BY <1>3, <3>2
  <2> QED BY <2>2, <2>3
<1>8. CalmStep(fat, dat, td, fat2, dat, rt, cs)
  BY ONLY <1>1, <1>2, <1>3, <1>6 DEF CalmStep
<1>9. rt \in Entries \cup {0, 1}
  BY GoodFacts
<1>10. \A m \in 1..Len(cs) : CallSound(fat2, dat, td2, rt, m)
  BY <1>1
<1> QED BY <1>1, <1>3, <1>4, <1>8, <1>9, <1>10, CalmGood

\* A free mark is written.
LEMMA ZeroWritten ==
  ASSUME NEW fat, NEW dat, NEW td, NEW rt, Good(fat, dat, td, rt), NEW fat2, NEW td2, NEW cs,
         NEW c \in Entries, Writes(fat, fat2, td, td2, cs, c, 0), ZeroOK(fat, dat, td, c)
  PROVE  Good(fat2, dat, td2, rt)
<1>1. /\ Moves(td2, td, "write_fat", cs) /\ td[1].f = "write_fat" /\ td[1].args[1] = 1 /\ td[1].args[2] = fat2
      /\ Len(cs) = 0 /\ \A j \in 1..Len(cs) : FALSE
      /\ DiskSound(fat, dat) /\ Chained(fat) /\ fat \in [Entries -> Links] /\ Fewer(dat, dat)
      /\ fat2[c] = 0 /\ \A d \in Entries : d # c => fat2[d] = fat[d]
      /\ \A y \in Entries : \A x : Sets(fat, td[1], y, x) => fat2[y] = x
      /\ Calm(cs) /\ Deeper(td, cs)
  BY WritesFacts
<1>2. /\ ~Calm(td) /\ c \in Entries \ {Root} /\ \A d \in Entries : fat[d] # c
      /\ \A l \in UsedIn(dat) : l.cluster # c /\ (AtIn(dat, l).cluster = c => Paid(fat, dat, td, l))
      /\ Puts(fat, fat2, c, 0) /\ IsNone(cs)
  BY DEF ZeroOK, Writes
<1>3. /\ DiskSound(fat2, dat) /\ Cuts(fat, fat2)
      /\ \A v \in Entries : v # c => Reach(fat2, v) = Reach(fat, v)
  BY <1>1, <1>2, ZeroDisk
<1>4. Debts(fat2, dat, td2)
  BY <1>1, <1>2, WrittenDebts
<1>5. KeepsWays(fat, dat, td, fat2, dat, cs)
  <2>1. SUFFICES ASSUME NEW p, NEW g, Len(p) \in Nat, IsWay(fat, dat, g, p),
                        \A k \in 0..Len(p) : ~Takes(fat, dat, td[1], g[k])
                 PROVE  /\ IsWay(fat2, dat, g, p)
                        /\ \A k \in 0..Len(p) : Reach(fat2, g[k]) = Reach(fat, g[k])
    BY <1>1 DEF KeepsWays
  <2>2. \A k \in 0..Len(p) : g[k] \in Entries
    BY <2>1 DEF IsWay
  <2>3. ASSUME NEW k \in 0..Len(p) PROVE Reach(fat2, g[k]) = Reach(fat, g[k])
    <3>1. fat2[g[k]] = fat[g[k]]
      BY <1>1, <2>1, <2>3 DEF Takes
    <3>2. CASE g[k] # c
      BY <1>3, <2>2, <3>2
    <3>3. CASE g[k] = c
      <4>1. fat2 = fat
        BY <1>1, <1>2, <3>1, <3>3 DEF Puts
      <4> QED BY <4>1
    <3> QED BY <3>2, <3>3
  <2>4. ASSUME NEW k \in 1..Len(p) PROVE Leads(fat2, dat, g[k-1], p[k], g[k])
    <3>1. k - 1 \in 0..Len(p)
      BY <2>1
    <3>2. Leads(fat, dat, g[k-1], p[k], g[k])
      BY <2>1 DEF IsWay
    <3> QED BY <2>3, <3>1, <3>2 DEF Leads
  <2>5. IsWay(fat2, dat, g, p)
    BY <2>1, <2>4 DEF IsWay
  <2> QED BY <2>3, <2>5
<1>6. HandsOn(fat, dat, td, dat, cs)
  BY <1>1 DEF HandsOn, Removes
<1>7. \A j \in 1..Len(cs), i \in 2..Len(td) : cs[j].f = "write_data" /\ td[i].f = "write_data" => cs[j].args[1] # td[i].args[1]
  BY <1>1
<1>8. FreeingStep(fat, dat, td, fat2, dat, cs)
  BY ONLY <1>1, <1>2, <1>3, <1>5, <1>6, <1>7 DEF FreeingStep
<1>9. rt \in Entries \cup {0, 1}
  BY GoodFacts
<1>10. \A m \in 1..Len(cs) : CallSound(fat2, dat, td2, rt, m)
  BY <1>1
<1> QED BY <1>1, <1>3, <1>4, <1>8, <1>9, <1>10, FreeingGood

\* The first copy is written.
LEMMA FatWritten ==
  ASSUME NEW fat, NEW dat, NEW td, NEW rt, Good(fat, dat, td, rt), NEW fat2, NEW td2, NEW cs,
         Moves(td2, td, "write_fat", cs), IsNone(cs), td[1].args[1] = 1, td[1].args[2] = fat2
  PROVE  Good(fat2, dat, td2, rt)
<1>1. AllSound(fat, dat, td, rt) /\ 1 \in 1..Len(td) /\ td[1].f = "write_fat"
  BY GoodFacts, MovesStack
<1>2. WriteFatOK(fat, dat, td, 1)
  BY <1>1 DEF AllSound, CallSound
<1>3. PICK c \in Entries, w \in Links : /\ fat2 = [fat EXCEPT ![c] = w]
                                        /\ ChangeOK(fat, dat, td, 1, c, w)
                                        /\ w \in Entries => fat[w] # 0
  BY <1>2 DEF WriteFatOK
<1>4. Writes(fat, fat2, td, td2, cs, c, w)
  BY <1>3 DEF Writes, Puts
<1>5. CASE w = EOC
  <2>1. EndOK(fat, td, c)
    BY <1>3, <1>5 DEF ChangeOK
  <2> QED BY <1>4, <1>5, <2>1, EndWritten
<1>6. CASE w = 0
  <2>1. ZeroOK(fat, dat, td, c)
    BY <1>3, <1>6 DEF ChangeOK
  <2> QED BY <1>4, <1>6, <2>1, ZeroWritten
<1>7. CASE w \in Entries
  <2>1. LinkOn(fat, dat, td, 1, c, w) /\ fat[w] # 0
    BY <1>3, <1>7 DEF ChangeOK
  <2> QED BY <1>4, <1>7, <2>1, LinkWritten
<1> QED BY <1>5, <1>6, <1>7 DEF Links

-----------------------------------------------------------------------------
(* modify_fat *)

\* A deletion goes on.
LEMMA UncalmKept ==
  ASSUME NEW td2, NEW td, NEW cs, Restacked(td2, td, cs), ~Calm(td),
         td[1].f \notin {"delete_file", "delete_inside", "free_chain", "create_file", "find_new"}
  PROVE  ~Calm(td2)
<1>1. PICK i \in 1..Len(td) : td[i].f \in {"delete_file", "delete_inside", "free_chain", "create_file", "find_new"}
  BY DEF Calm
<1>2. i \in 2..Len(td)
  BY <1>1 DEF Restacked
<1>3. Len(cs) \in Nat /\ Len(td) \in Nat
  BY DEF Restacked
<1>4. (i - 1) + Len(cs) \in Nat /\ i + Len(cs) = ((i - 1) + Len(cs)) + 1
  BY <1>2, <1>3
<1>5. PICK m \in Nat : i + Len(cs) = m + 1
  BY <1>4
<1>6. Lower(td2, td, cs, i, m) /\ m \in 1..Len(td2)
  BY <1>2, <1>5, LowerAt
<1>7. td2[m] = td[i]
  BY <1>6 DEF Lower
<1> QED BY <1>1, <1>6, <1>7 DEF Calm

\* What waits to pay a debt goes on waiting.
LEMMA PaidKept ==
  ASSUME NEW td2, NEW td, NEW cs, Restacked(td2, td, cs),
         NEW fat, NEW dat, NEW rt, AllSound(fat, dat, td, rt),
         NEW l, Paid(fat, dat, td, l), ~Pays(fat, dat, td[1], l),
         \A j \in 1..Len(cs) : FreeCall(cs[j])
  PROVE  Paid(fat, dat, td2, l)
<1>1. PICK i \in 1..Len(td) : Pays(fat, dat, td[i], l) /\ \A j \in 1..i-1 : FreeCall(td[j])
  BY DEF Paid
<1>2. i \in 2..Len(td) /\ Len(cs) \in Nat /\ Len(td) \in Nat
  BY <1>1 DEF Restacked
<1>3. (i - 1) + Len(cs) \in Nat /\ i + Len(cs) = ((i - 1) + Len(cs)) + 1
  BY <1>2
<1>4. PICK m \in Nat : i + Len(cs) = m + 1
  BY <1>3
<1>5. Lower(td2, td, cs, i, m) /\ m \in 1..Len(td2)
  BY <1>2, <1>4, LowerAt
<1>6. Pays(fat, dat, td2[m], l)
  BY <1>1, <1>5 DEF Lower
<1>7. ASSUME NEW j \in 1..m-1 PROVE FreeCall(td2[j])
  <2>1. CASE j \in 1..Len(cs) /\ td2[j] = cs[j]
    BY <2>1
  <2>2. CASE \E k \in 2..i-1 : td2[j] = td[k]
    <3>1. PICK k \in 2..i-1 : td2[j] = td[k]
      BY <2>2
    <3>2. k \in 1..i-1
      BY <3>1
    <3> QED BY <1>1, <3>1, <3>2
  <2> QED BY <1>5, <2>1, <2>2 DEF Lower
<1> QED BY <1>5, <1>6, <1>7 DEF Paid

IsWrites(cs, img) ==
  /\ cs \in Seq(Range(cs)) /\ Len(cs) \in Nat \ {0}
  /\ \A k \in 1..Len(cs) : cs[k].f = "write_fat" /\ cs[k].args[1] = k /\ cs[k].args[2] = img

\* modify_fat goes on as one write for each copy.
LEMMA FatModified ==
  ASSUME NEW fat, NEW dat, NEW td, NEW rt, Good(fat, dat, td, rt), NEW td2, NEW cs,
         Moves(td2, td, "modify_fat", cs), NEW c \in Entries, td[1].args[1] = c, NEW w, td[1].args[2] = w,
         NEW img, Puts(fat, img, c, w), IsWrites(cs, img)
  PROVE  Good(fat, dat, td2, rt)
<1>1. /\ Restacked(td2, td, cs) /\ td2 \in Seq(Range(td2)) /\ td[1].f = "modify_fat" /\ 1 \in 1..Len(td)
      /\ Len(td) \in Nat
  BY MovesStack
<1>2. /\ DiskSound(fat, dat) /\ Debts(fat, dat, td) /\ AllSound(fat, dat, td, rt) /\ rt \in Entries \cup {0, 1}
      /\ Fewer(dat, dat) /\ Ends(fat, fat) /\ Cuts(fat, fat)
  BY GoodFacts, FewerSame, CutsSame
<1>3. ModifyOK(fat, dat, td, 1)
  BY <1>1, <1>2 DEF AllSound, CallSound
<1>4. w \in Links /\ ChangeOK(fat, dat, td, 1, c, w) /\ (w \in Entries => fat[w] # 0)
  <2>1. \A j \in 1..1-1 : FALSE
    OBVIOUS
  <2> QED BY <1>3, <2>1 DEF ModifyOK
<1>5. /\ Len(cs) \in Nat /\ 1 \in 1..Len(cs) /\ Len(cs) \in 1..Len(cs)
      /\ \A k \in 1..Len(cs) : cs[k].f = "write_fat" /\ cs[k].args[1] = k /\ cs[k].args[2] = img
      /\ \A k \in 1..Len(cs) : FatCall(cs[k]) /\ FreeCall(cs[k])
  BY DEF IsWrites, FatCall, FreeCall
<1>6. Calm(cs) /\ Deeper(td, cs)
  BY <1>5 DEF Calm, Deeper
<1>7. fat \in [Entries -> Links] /\ \A l \in UsedIn(dat) : AtIn(dat, l).cluster \in Entries
  BY <1>2, SoundFacts, HeadFacts, FatIsChained
<1>8. ASSUME NEW y, NEW x, Sets(fat, td[1], y, x) PROVE y = c /\ x = w /\ Sets(fat, cs[1], y, x)
  <2>1. y = c /\ x = w
    BY <1>1, <1>8 DEF Sets
  <2> QED BY <1>5, <2>1 DEF Sets, Puts
<1>9. Debts(fat, dat, td2)
  <2>1. \A l \in UsedIn(dat) : fat[AtIn(dat, l).cluster] = 0 => Paid(fat, dat, td, l)
    BY <1>2 DEF Debts
  <2>2. ASSUME NEW l \in UsedIn(dat), Pays(fat, dat, td[1], l)
        PROVE  \E j \in 1..Len(cs) : Pays(fat, dat, cs[j], l) /\ \A k \in 1..j-1 : FreeCall(cs[k])
    <3>1. Sets(fat, td[1], AtIn(dat, l).cluster, EOC)
      BY <1>1, <2>2 DEF Pays, Removes
    <3>2. Pays(fat, dat, cs[1], l)
      BY <1>8, <3>1 DEF Pays
    <3>3. \A k \in 1..1-1 : FreeCall(cs[k])
      OBVIOUS
    <3> QED BY <1>5, <3>2, <3>3
  <2>3. FreeCall(td[1]) => \A j \in 1..Len(cs) : FreeCall(cs[j])
    BY <1>5
  <2> QED BY ONLY <1>1, <1>2, <2>1, <2>2, <2>3, DebtsKept
<1>10. ASSUME Calm(td), w # 0 PROVE CalmStep(fat, dat, td, fat, dat, rt, cs)
  <2>1. \A x \in Entries : Sets(fat, td[1], x, EOC) => \E j \in 1..Len(cs) : Sets(fat, cs[j], x, EOC)
    BY <1>5, <1>8
  <2>2. \A x \in Entries, y \in Entries : \A n : InDir(fat, dat, y, n) /\ Sets(fat, td[1], y, x) =>
            InDir(fat, dat, y, n) /\ \E j \in 1..Len(cs) : Sets(fat, cs[j], y, x)
    BY <1>5, <1>8
  <2>3. \A j \in 1..Len(cs) : cs[j].f # "write_data"
    BY <1>5
  <2> QED BY ONLY <1>1, <1>2, <1>6, <1>10, <2>1, <2>2, <2>3 DEF CalmStep
<1>11. ASSUME ~Calm(td), w = 0 PROVE FreeingStep(fat, dat, td, fat, dat, cs)
  <2>1. KeepsWays(fat, dat, td, fat, dat, cs)
    <3>1. SUFFICES ASSUME NEW g, NEW k, ~Takes(fat, dat, td[1], g[k]), NEW j \in 1..Len(cs)
                   PROVE  ~Takes(fat, dat, cs[j], g[k])
      BY DEF KeepsWays
    <3>2. g[k] # c
      BY <1>1, <3>1 DEF Takes
    <3>3. img[g[k]] = fat[g[k]]
      BY <1>7, <3>2 DEF Puts
    <3>4. cs[j].f = "write_fat" /\ cs[j].args[2] = img
      BY <1>5
    <3> QED BY <3>3, <3>4 DEF Takes, Removes
  <2>2. HandsOn(fat, dat, td, dat, cs)
    BY <1>1 DEF HandsOn, Removes
  <2>3. \A j \in 1..Len(cs), i \in 2..Len(td) : cs[j].f = "write_data" /\ td[i].f = "write_data" => cs[j].args[1] # td[i].args[1]
    BY <1>5
  <2>4. \A y \in Entries : Sets(fat, td[1], y, 0) => \E j \in 1..Len(cs) : Sets(fat, cs[j], y, 0)
    BY <1>5, <1>8
  <2>5. FatCall(td[1]) => \A j \in 1..Len(cs) : FatCall(cs[j])
    BY <1>5
  <2> QED BY ONLY <1>1, <1>2, <1>6, <1>11, <2>1, <2>2, <2>3, <2>4, <2>5 DEF FreeingStep
<1>12. ChangeOK(fat, dat, td2, 1, c, w)
  <2>1. ASSUME w = EOC PROVE EndOK(fat, td2, c)
    BY <1>1, <1>4, <1>6, <2>1, CalmKept DEF ChangeOK, EndOK
  <2>2. ASSUME w = 0 PROVE ZeroOK(fat, dat, td2, c)
    <3>1. ZeroOK(fat, dat, td, c)
      BY <1>4, <2>2 DEF ChangeOK
    <3>2. ~Calm(td2)
      BY <1>1, <3>1, UncalmKept DEF ZeroOK
    <3>3. ASSUME NEW l \in UsedIn(dat), AtIn(dat, l).cluster = c PROVE Paid(fat, dat, td2, l)
      <4>1. Paid(fat, dat, td, l)
        BY <3>1, <3>3 DEF ZeroOK
      <4>2. ~Pays(fat, dat, td[1], l)
        BY <1>1, <1>8, <2>2, RootFacts DEF Pays, Removes
      <4> QED BY ONLY <1>1, <1>2, <1>5, <4>1, <4>2, PaidKept
    <3> QED BY <3>1, <3>2, <3>3 DEF ZeroOK
  <2>3. ASSUME w \in Entries PROVE LinkOn(fat, dat, td2, 1, c, w)
    <3>1. LinkOn(fat, dat, td, 1, c, w)
      BY <1>4, <2>3 DEF ChangeOK
    <3>2. Calm(td2)
      BY <1>1, <1>6, <3>1, CalmKept DEF LinkOn
    <3>3. ASSUME NEW j \in 1+1..Len(td2) PROVE td2[j].f # "modify_fat"
      <4>1. j \in 1..Len(td2)
        BY <1>1 DEF Restacked
      <4>2. CASE j \in 1..Len(cs) /\ td2[j] = cs[j]
        BY <1>5, <4>2
      <4>3. CASE \E i \in 2..Len(td) : Lower(td2, td, cs, i, j)
        <5>1. PICK i \in 2..Len(td) : td2[j] = td[i]
          BY <4>3 DEF Lower
        <5>2. i \in 1+1..Len(td)
          BY <5>1
        <5> QED BY <3>1, <5>1, <5>2 DEF LinkOn
      <4> QED BY <1>1, <4>1, <4>2, <4>3, LowerIs
    <3> QED BY <3>1, <3>2, <3>3 DEF LinkOn
  <2> QED BY <2>1, <2>2, <2>3 DEF ChangeOK
<1>13. ASSUME NEW m \in 1..Len(cs) PROVE CallSound(fat, dat, td2, rt, m)
  <2>1. td2[m] = cs[m]
    BY <1>1 DEF Restacked
  <2>2. WriteFatOK(fat, dat, td2, m)
    <3>1. CASE m # 1
      BY <1>5, <2>1, <3>1 DEF WriteFatOK
    <3>2. CASE m = 1
      <4>1. td2[m].args[2] = [fat EXCEPT ![c] = w]
        BY <1>5, <2>1 DEF Puts
      <4> QED BY <1>4, <1>12, <3>2, <4>1 DEF WriteFatOK
    <3> QED BY <3>1, <3>2
  <2> QED BY <1>5, <2>1, <2>2 DEF CallSound
<1>14. CASE w = 0
  <2>1. ~Calm(td)
    BY <1>4, <1>14 DEF ChangeOK, ZeroOK
  <2>2. FreeingStep(fat, dat, td, fat, dat, cs)
    BY <1>11, <1>14, <2>1
  <2> QED BY <1>2, <1>9, <1>13, <2>2, FreeingGood
<1>15. CASE w # 0
  <2>1. Calm(td)
    BY <1>4, <1>15 DEF ChangeOK, EndOK, LinkOn, Links
  <2>2. CalmStep(fat, dat, td, fat, dat, rt, cs)
    BY <1>10, <1>15, <2>1
  <2> QED BY <1>2, <1>9, <1>13, <2>2, CalmGood
<1> QED BY <1>14, <1>15

-----------------------------------------------------------------------------
(* The loop that frees a chain *)

\* The calls and their arguments.
LEMMA CallsAre ==
  /\ \A c, v : modify_fat(c, v).f = "modify_fat" /\ modify_fat(c, v).args[1] = c /\ modify_fat(c, v).args[2] = v
  /\ \A c : FreeFrom(c).f = "free_chain" /\ FreeFrom(c).args[1] = c
  /\ \A c, img : WriteData(c, img).f = "write_data" /\ WriteData(c, img).args[1] = c /\ WriteData(c, img).args[2] = img
  /\ \A k, img : WriteFat(k, img).f = "write_fat" /\ WriteFat(k, img).args[1] = k /\ WriteFat(k, img).args[2] = img
  /\ \A c : extend_file(c).f = "extend_file" /\ extend_file(c).args[1] = c
  /\ \A p : delete_file(p).f = "delete_file" /\ delete_file(p).args[1] = p
  /\ \A p, list, n : LET t == DeleteInside(p, list, n)
                     IN  t.f = "delete_inside" /\ t.args[1] = p /\ t.args[2] = list /\ t.args[3] = n
  /\ \A p, d : create_file(p, d).f = "create_file" /\ create_file(p, d).args[1] = p /\ create_file(p, d).args[2] = d
  /\ \A p, d : CreateAt(p, d).f = "find_new" /\ CreateAt(p, d).args[1] = p /\ CreateAt(p, d).args[2] = d
  /\ \A loc, p, d : LET t == PlaceAt(loc, p, d)
                    IN  t.f = "new_entry" /\ t.args[1] = loc /\ t.args[2] = p /\ t.args[3] = d
  /\ \A p, d : PlaceInNew(p, d).f = "entry_in_new" /\ PlaceInNew(p, d).args[1] = p /\ PlaceInNew(p, d).args[2] = d
  /\ \A p, t : write_to_file(p, t).f = "write_to_file" /\ write_to_file(p, t).args[1] = p /\ write_to_file(p, t).args[2] = t
  /\ \A n, t, c : LET g == Grow(n, t, c) IN g.f = "grow" /\ g.args[1] = n /\ g.args[2] = t /\ g.args[3] = c
  /\ \A c, i, t : LET g == Fill(c, i, t) IN g.f = "fill" /\ g.args[1] = c /\ g.args[2] = i /\ g.args[3] = t
  /\ \A c : Returns(c).f = "return" /\ Returns(c).args[1] = c
  /\ Look.f = "look"
BY DEF modify_fat, FreeFrom, WriteData, WriteFat, extend_file, delete_file, DeleteInside, create_file, CreateAt,
       PlaceAt, PlaceInNew, write_to_file, Grow, Fill, Returns, Look, Call

\* What begins a chain.
LEMMA ChainOrNone ==
  /\ \A c \in Entries : InChain(c)
  /\ \A c \in Links : InChain(c) => c \in Entries
  /\ \A c \in Entries : c \in Int /\ c # EOC /\ c # 0 /\ c # 1 /\ c # -1
BY FatAssumption DEF InChain, Entries, Root, EOC, Links

\* The first cluster of the chain is freed, then the rest.
LEMMA FreedNext ==
  ASSUME NEW fat, NEW dat, NEW td, NEW rt, Good(fat, dat, td, rt), NEW td2, NEW cs,
         Moves(td2, td, "free_chain", cs), NEW c \in Entries, td[1].args[1] = c,
         IsTwo(cs, modify_fat(c, 0), FreeFrom(fat[c]))
  PROVE  Good(fat, dat, td2, rt)
<1>1. /\ Restacked(td2, td, cs) /\ td2 \in Seq(Range(td2)) /\ td[1].f = "free_chain" /\ 1 \in 1..Len(td)
      /\ Len(td) \in Nat
  BY MovesStack
<1>2. /\ DiskSound(fat, dat) /\ Debts(fat, dat, td) /\ AllSound(fat, dat, td, rt) /\ rt \in Entries \cup {0, 1}
      /\ Fewer(dat, dat) /\ Cuts(fat, fat)
  BY GoodFacts, FewerSame, CutsSame
<1>3. /\ Chained(fat) /\ fat \in [Entries -> Links] /\ \A l \in UsedIn(dat) : AtIn(dat, l).cluster \in Entries
      /\ \A l \in UsedIn(dat) : fat[c] # AtIn(dat, l).cluster
      /\ \A a, b \in Entries : fat[a] = fat[b] /\ fat[a] \in Entries => a = b
      /\ fat[c] \in Links /\ fat[c] # Root
  <2>1. /\ Chained(fat) /\ fat \in [Entries -> Links] /\ \A l \in UsedIn(dat) : AtIn(dat, l).cluster \in Entries
        /\ \A l \in UsedIn(dat) : fat[c] # AtIn(dat, l).cluster
        /\ \A a, b \in Entries : fat[a] = fat[b] /\ fat[a] \in Entries => a = b
        /\ fat[c] \in Entries => fat[c] # Root
    BY <1>2, SoundFacts, HeadFacts, FatIsChained
  <2> QED BY <2>1, RootFacts
<1>4. /\ 2 \in 1..Len(td) /\ td[2].f = "write_data" /\ c # Root
      /\ \A l \in UsedIn(dat) : AtIn(dat, l).cluster = c => Removes(td[2], l)
      /\ \A y \in Entries : fat[y] # c
      /\ \A l \in UsedIn(dat) : l.cluster \notin Reach(fat, c)
  <2>1. FreeOK(fat, dat, td, 1)
    BY <1>1, <1>2 DEF AllSound, CallSound
  <2>2. /\ 1 + 1 <= Len(td) /\ td[1+1].f = "write_data" /\ c # Root
        /\ \A l \in UsedIn(dat) : AtIn(dat, l).cluster = c => Removes(td[1+1], l)
        /\ \A y \in Entries : fat[y] = c => \E j \in 1..1-1 : Sets(fat, td[j], y, 0)
        /\ \A l \in UsedIn(dat) : l.cluster \notin Reach(fat, c)
    BY <2>1 DEF FreeOK
  <2>3. 1 + 1 = 2 /\ \A j \in 1..1-1 : FALSE
    OBVIOUS
  <2> QED BY <1>1, <2>2, <2>3
<1>5. /\ Len(cs) = 2 /\ 1 \in 1..Len(cs) /\ 2 \in 1..Len(cs) /\ \A j \in 1..Len(cs) : j = 1 \/ j = 2
      /\ cs[1].f = "modify_fat" /\ cs[1].args[1] = c /\ cs[1].args[2] = 0
      /\ cs[2].f = "free_chain" /\ cs[2].args[1] = fat[c]
      /\ \A j \in 1..Len(cs) : FreeCall(cs[j])
  <2>1. Len(cs) = 2 /\ cs[1] = modify_fat(c, 0) /\ cs[2] = FreeFrom(fat[c])
    BY DEF IsTwo
  <2>2. /\ cs[1].f = "modify_fat" /\ cs[1].args[1] = c /\ cs[1].args[2] = 0
        /\ cs[2].f = "free_chain" /\ cs[2].args[1] = fat[c]
    BY <2>1, CallsAre
  <2> QED BY <2>1, <2>2 DEF FreeCall, FatCall
<1>6. /\ td2[1] = cs[1] /\ td2[2] = cs[2] /\ td2[3] = td[2]
      /\ 1 \in 1..Len(td2) /\ 2 \in 1..Len(td2) /\ 3 \in 1..Len(td2) /\ Len(td2) \in Nat
  <2>1. 1 \in 1..Len(td)-1
    BY <1>1, <1>4
  <2>2. td2[1+Len(cs)] = td[1+1] /\ Len(td2) + 1 = Len(cs) + Len(td) /\ Len(td2) \in Nat
    BY <1>1, <2>1 DEF Restacked
  <2>3. 1 + Len(cs) = 3 /\ 1 + 1 = 2
    BY <1>5
  <2>4. td2[1] = cs[1] /\ td2[2] = cs[2]
    BY <1>1, <1>5 DEF Restacked
  <2> QED BY <1>1, <1>4, <1>5, <2>2, <2>3, <2>4
<1>7. ~Calm(td) /\ ~Calm(td2)
  BY <1>1, <1>5, <1>6 DEF Calm
<1>8. (\A y, x : ~Sets(fat, td[1], y, x)) /\ \A l : ~Removes(td[1], l)
  BY <1>1 DEF Sets, Removes
<1>9. Debts(fat, dat, td2)
  <2>1. \A l \in UsedIn(dat) : fat[AtIn(dat, l).cluster] = 0 => Paid(fat, dat, td, l)
    BY <1>2 DEF Debts
  <2>2. \A l \in UsedIn(dat) : ~Pays(fat, dat, td[1], l)
    BY <1>8 DEF Pays
  <2> QED BY ONLY <1>1, <1>2, <1>5, <2>1, <2>2, DebtsKept
<1>10. FreeingStep(fat, dat, td, fat, dat, cs)
  <2>1. KeepsWays(fat, dat, td, fat, dat, cs)
    <3>1. SUFFICES ASSUME NEW w, NEW g, Len(w) \in Nat, IsWay(fat, dat, g, w), NEW k \in 0..Len(w),
                          ~Takes(fat, dat, td[1], g[k]), NEW j \in 1..Len(cs)
                   PROVE  ~Takes(fat, dat, cs[j], g[k])
      BY DEF KeepsWays
    <3>2. g[k] # c
      BY <1>1, <3>1 DEF Takes
    <3>3. g[k] # fat[c]
      BY <1>2, <3>1, WayHeads
    <3> QED BY <1>5, <3>2, <3>3 DEF Takes, Removes
  <2>2. HandsOn(fat, dat, td, dat, cs) /\ Deeper(td, cs)
    BY <1>1, <1>5, <1>8 DEF HandsOn, Deeper
  <2>3. \A j \in 1..Len(cs) : cs[j].f # "write_data"
    BY <1>5
  <2>4. cs[Len(cs)].f = "free_chain" /\ ~FatCall(td[1]) /\ \A y \in Entries : ~Sets(fat, td[1], y, 0)
    BY <1>1, <1>5, <1>8 DEF FatCall
  <2> QED BY ONLY <1>1, <1>2, <1>7, <2>1, <2>2, <2>3, <2>4 DEF FreeingStep
<1>11. CallSound(fat, dat, td2, rt, 1)
  <2>1. ASSUME NEW l \in UsedIn(dat), AtIn(dat, l).cluster = c PROVE Paid(fat, dat, td2, l)
    <3>1. Pays(fat, dat, td2[3], l)
      BY <1>4, <1>6, <2>1 DEF Pays
    <3>2. \A j \in 1..3-1 : FreeCall(td2[j])
      BY <1>5, <1>6
    <3> QED BY <1>6, <3>1, <3>2 DEF Paid
  <2>2. \A l \in UsedIn(dat) : l.cluster # c
    BY <1>3, <1>4, ReachClosed
  <2>3. ZeroOK(fat, dat, td2, c)
    BY <1>4, <1>7, <2>1, <2>2 DEF ZeroOK
  <2>4. ModifyOK(fat, dat, td2, 1)
    BY <1>5, <1>6, <2>3, RootFacts DEF ModifyOK, ChangeOK
  <2> QED BY <1>5, <1>6, <2>4 DEF CallSound
<1>12. CallSound(fat, dat, td2, rt, 2)
  <2>1. 2 + 1 <= Len(td2) /\ td2[2+1].f = "write_data"
    BY <1>4, <1>6
  <2>2. ASSUME NEW y \in Entries, fat[y] = fat[c], fat[c] \in Entries
        PROVE  \E j \in 1..2-1 : Sets(fat, td2[j], y, 0)
    <3>1. y = c
      BY <1>3, <2>2
    <3>2. Sets(fat, td2[1], y, 0) /\ 1 \in 1..2-1
      BY <1>5, <1>6, <3>1 DEF Sets
    <3> QED BY <3>2
  <2>3. \A j \in 1..2-1 : FatCall(td2[j])
    BY <1>5, <1>6 DEF FatCall
  <2>4. \A l \in UsedIn(dat) : l.cluster \notin Reach(fat, fat[c])
    <3>1. CASE fat[c] \in Entries
      <4>1. fat[c] \in Reach(fat, c)
        BY <1>3, <3>1, ReachClosed DEF Closed
      <4> QED BY <1>3, <1>4, <4>1, ReachWithin
    <3>2. CASE fat[c] \notin Entries
      BY <1>3, <3>2, ReachNone
    <3> QED BY <3>1, <3>2
  <2>5. FreeOK(fat, dat, td2, 2)
    BY <1>3, <1>5, <1>6, <2>1, <2>2, <2>3, <2>4 DEF FreeOK
  <2> QED BY <1>5, <1>6, <2>5 DEF CallSound
<1>13. \A m \in 1..Len(cs) : CallSound(fat, dat, td2, rt, m)
  BY <1>5, <1>11, <1>12
<1> QED BY <1>2, <1>9, <1>10, <1>13, FreeingGood

\* The chain has ended.
LEMMA FreedAll ==
  ASSUME NEW fat, NEW dat, NEW td, NEW rt, Good(fat, dat, td, rt), NEW td2, NEW cs,
         Moves(td2, td, "free_chain", cs), IsNone(cs)
  PROVE  Good(fat, dat, td2, rt)
<1>1. 1 \in 1..Len(td) /\ td[1].f = "free_chain" /\ rt \in Entries \cup {0, 1}
  BY MovesStack, GoodFacts
<1>2. ~Calm(td)
  BY <1>1 DEF Calm
<1>3. (\A y \in Entries : \A w : ~Sets(fat, td[1], y, w)) /\ \A l \in UsedIn(dat) : ~Removes(td[1], l)
  BY <1>1 DEF Sets, Removes
<1>4. HandsOn(fat, dat, td, dat, cs)
  BY <1>1, <1>3 DEF HandsOn
<1> QED BY <1>1, <1>2, <1>3, <1>4, PopFreeing

-----------------------------------------------------------------------------
(* A write to a cluster *)

\* The running call writes img to the cluster c, which makes dat2 of dat.
Stores(dat, dat2, td, td2, cs, c, img) ==
  /\ Moves(td2, td, "write_data", cs) /\ IsNone(cs)
  /\ td[1].args[1] = c /\ td[1].args[2] = img /\ Puts(dat, dat2, c, img)
  /\ img \in Rows \cup Pieces /\ TextIsText(RowFrom(img))
  /\ (c = Root /\ Kernel) => RowFrom(img)[1].name = "kernel"

\* What such a step starts from.
LEMMA StoresFacts ==
  ASSUME NEW fat, NEW dat, NEW td, NEW rt, Good(fat, dat, td, rt), NEW dat2, NEW td2, NEW cs,
         NEW c \in Entries, NEW img, Stores(dat, dat2, td, td2, cs, c, img)
  PROVE  /\ Moves(td2, td, "write_data", cs) /\ td[1].f = "write_data" /\ td[1].args[1] = c /\ td[1].args[2] = img
         /\ Len(cs) = 0 /\ \A j \in 1..Len(cs) : FALSE
         /\ Restacked(td2, td, cs) /\ 1 \in 1..Len(td)
         /\ DiskSound(fat, dat) /\ Debts(fat, dat, td) /\ AllSound(fat, dat, td, rt) /\ rt \in Entries \cup {0, 1}
         /\ Calm(cs) /\ Deeper(td, cs) /\ Ends(fat, fat) /\ Cuts(fat, fat)
         /\ \A y, x : ~Sets(fat, td[1], y, x)
<1>1. /\ Moves(td2, td, "write_data", cs) /\ td[1].args[1] = c /\ td[1].args[2] = img /\ Len(cs) = 0
  BY DEF Stores, IsNone
<1>2. \A j \in 1..Len(cs) : FALSE
  BY <1>1
<1>3. Restacked(td2, td, cs) /\ td[1].f = "write_data" /\ 1 \in 1..Len(td)
  BY <1>1, MovesStack
<1>4. /\ DiskSound(fat, dat) /\ Debts(fat, dat, td) /\ AllSound(fat, dat, td, rt) /\ rt \in Entries \cup {0, 1}
      /\ Ends(fat, fat) /\ Cuts(fat, fat)
  BY GoodFacts, CutsSame
<1>5. Calm(cs) /\ Deeper(td, cs)
  BY <1>2 DEF Calm, Deeper
<1>6. \A y, x : ~Sets(fat, td[1], y, x)
  BY <1>3 DEF Sets
<1> QED BY <1>1, <1>2, <1>3, <1>4, <1>5, <1>6

\* The write takes entries away.
LEMMA ThinStored ==
  ASSUME NEW fat, NEW dat, NEW td, NEW rt, Good(fat, dat, td, rt), NEW dat2, NEW td2, NEW cs,
         NEW c \in Entries, NEW img, Stores(dat, dat2, td, td2, cs, c, img),
         Thins(dat, c, img), Calm(td) => (\A l \in UsedIn(dat) : l.cluster # c) \/ Lone(td, 1)
  PROVE  Good(fat, dat2, td2, rt)
<1>1. /\ Moves(td2, td, "write_data", cs) /\ td[1].f = "write_data" /\ td[1].args[1] = c /\ td[1].args[2] = img
      /\ Len(cs) = 0 /\ \A j \in 1..Len(cs) : FALSE
      /\ Restacked(td2, td, cs) /\ 1 \in 1..Len(td)
      /\ DiskSound(fat, dat) /\ Debts(fat, dat, td) /\ AllSound(fat, dat, td, rt) /\ rt \in Entries \cup {0, 1}
      /\ Calm(cs) /\ Deeper(td, cs) /\ Ends(fat, fat) /\ Cuts(fat, fat)
      /\ \A y, x : ~Sets(fat, td[1], y, x)
  BY StoresFacts
<1>2. /\ DiskSound(fat, dat2) /\ Fewer(dat, dat2)
      /\ \A l \in UsedIn(dat2) : l.cluster = c => InUse(RowFrom(img)[l.slot])
      /\ \A l \in UsedIn(dat) : l \in UsedIn(dat2) \/ (l.cluster = c /\ ~InUse(RowFrom(img)[l.slot]))
      /\ \A d \in Entries : d # c => dat2[d] = dat[d]
  <2>1. /\ img \in Rows \cup Pieces /\ TextIsText(RowFrom(img)) /\ Puts(dat, dat2, c, img)
        /\ (c = Root /\ Kernel) => RowFrom(img)[1].name = "kernel"
    BY DEF Stores
  <2> QED BY <1>1, <2>1, ThinDisk
<1>3. \A l \in UsedIn(dat2) : ~Removes(td[1], l)
  BY <1>1, <1>2 DEF Removes
<1>4. Debts(fat, dat2, td2)
  <2>1. \A l \in UsedIn(dat2) : fat[AtIn(dat, l).cluster] = 0 => Paid(fat, dat, td, l)
    BY <1>1, <1>2 DEF Debts, Fewer
  <2>2. \A l \in UsedIn(dat2) : ~Pays(fat, dat, td[1], l)
    BY <1>1, <1>3 DEF Pays
  <2>3. ~FreeCall(td[1])
    BY <1>1 DEF FreeCall, FatCall
  <2> QED BY ONLY <1>1, <1>2, <2>1, <2>2, <2>3, DebtsKept
<1>5. \A d \in Entries : (td[1].f = "write_data" /\ td[1].args[1] = d) \/ dat2[d] = dat[d]
  BY <1>1, <1>2
<1>6. ASSUME Calm(td) PROVE CalmStep(fat, dat, td, fat, dat2, rt, cs)
  <2>1. ASSUME \A l \in UsedIn(dat) : l.cluster # c, NEW x, NEW n, InDir(fat, dat, x, n)
        PROVE  InDir(fat, dat2, x, n)
    <3>1. UsedIn(dat2) = UsedIn(dat) /\ \A l \in UsedIn(dat) : AtIn(dat2, l) = AtIn(dat, l)
      BY <1>2, <2>1 DEF Fewer
    <3> QED BY <2>1, <3>1 DEF InDir, DirHead, NoName
  <2>2. Lone(td, 1) \/ \A x, n : InDir(fat, dat, x, n) => InDir(fat, dat2, x, n)
    BY <1>6, <2>1
  <2> QED BY ONLY <1>1, <1>2, <1>5, <1>6, <2>2 DEF CalmStep
<1>7. ASSUME ~Calm(td) PROVE FreeingStep(fat, dat, td, fat, dat2, cs)
  <2>1. KeepsWays(fat, dat, td, fat, dat2, cs)
    <3>1. SUFFICES ASSUME NEW w, NEW g, Len(w) \in Nat, IsWay(fat, dat, g, w),
                          \A k \in 0..Len(w) : ~Takes(fat, dat, td[1], g[k])
                   PROVE  IsWay(fat, dat2, g, w)
      BY <1>1 DEF KeepsWays
    <3>2. ASSUME NEW k \in 1..Len(w) PROVE Leads(fat, dat2, g[k-1], w[k], g[k])
      <4>1. k \in 0..Len(w)
        BY <3>1
      <4>2. PICK l \in UsedIn(dat) : /\ l.cluster \in Reach(fat, g[k-1])
                                     /\ AtIn(dat, l).name = w[k] /\ AtIn(dat, l).dir /\ AtIn(dat, l).cluster = g[k]
        BY <3>1 DEF IsWay, Leads
      <4>3. ~Removes(td[1], l)
        BY <3>1, <4>1, <4>2 DEF Takes
      <4>4. l \in UsedIn(dat2)
        BY <1>1, <1>2, <4>3 DEF Removes
      <4> QED BY <1>2, <4>2, <4>4 DEF Leads, Fewer
    <3> QED BY <3>1, <3>2 DEF IsWay
  <2>2. HandsOn(fat, dat, td, dat2, cs)
    BY <1>1, <1>3 DEF HandsOn
  <2>3. \A j \in 1..Len(cs), i \in 2..Len(td) : cs[j].f = "write_data" /\ td[i].f = "write_data" => cs[j].args[1] # td[i].args[1]
    BY <1>1
  <2>4. ~FatCall(td[1]) /\ \A y \in Entries : ~Sets(fat, td[1], y, 0)
    BY <1>1 DEF FatCall
  <2> QED BY ONLY <1>1, <1>2, <1>5, <1>7, <2>1, <2>2, <2>3, <2>4 DEF FreeingStep
<1>8. \A m \in 1..Len(cs) : CallSound(fat, dat2, td2, rt, m)
  BY <1>1
<1>9. CASE Calm(td)
  BY <1>1, <1>2, <1>4, <1>6, <1>8, <1>9, CalmGood
<1>10. CASE ~Calm(td)
  BY <1>1, <1>2, <1>4, <1>7, <1>8, <1>10, FreeingGood
<1> QED BY <1>9, <1>10

\* The write adds an entry.
LEMMA AddStored ==
  ASSUME NEW fat, NEW dat, NEW td, NEW rt, Good(fat, dat, td, rt), NEW dat2, NEW td2, NEW cs,
         NEW c \in Entries, NEW img, Stores(dat, dat2, td, td2, cs, c, img), Adds(fat, dat, td, 1, c, img)
  PROVE  Good(fat, dat2, td2, rt)
<1>1. /\ Moves(td2, td, "write_data", cs) /\ td[1].f = "write_data" /\ td[1].args[1] = c /\ td[1].args[2] = img
      /\ Len(cs) = 0 /\ \A j \in 1..Len(cs) : FALSE
      /\ Restacked(td2, td, cs) /\ 1 \in 1..Len(td)
      /\ DiskSound(fat, dat) /\ Debts(fat, dat, td) /\ AllSound(fat, dat, td, rt) /\ rt \in Entries \cup {0, 1}
      /\ Calm(cs) /\ Deeper(td, cs) /\ Ends(fat, fat) /\ Cuts(fat, fat)
      /\ \A y, x : ~Sets(fat, td[1], y, x)
  BY StoresFacts
<1>2. PICK s \in 1..Slots, n \in Names, d \in BOOLEAN, new \in Entries :
    /\ ~InUse(AtIn(dat, [cluster |-> c, slot |-> s]))
    /\ img = [RowFrom(dat[c]) EXCEPT ![s] = Entry(n, d, new)]
    /\ fat[new] = 0 /\ Unclaimed(fat, dat, new)
    /\ fat[c] # 0 /\ InDir(fat, dat, c, n)
    /\ 1 + 1 <= Len(td) /\ td[1+1] = modify_fat(new, EOC)
    /\ Calm(td) /\ Rest(td, 1+1)
  BY DEF Adds
<1>3. /\ 2 <= Len(td) /\ td[2].f = "modify_fat" /\ td[2].args[1] = new /\ td[2].args[2] = EOC
      /\ \A j \in 3..Len(td) : td[j].f \in {"write_to_file", "look"}
  <2>1. 1 + 1 = 2 /\ 2 + 1 = 3
    OBVIOUS
  <2>2. td[2] = modify_fat(new, EOC) /\ Rest(td, 2) /\ 2 <= Len(td)
    BY <1>2, <2>1
  <2> QED BY <2>1, <2>2, CallsAre DEF Rest
<1>4. Puts(dat, dat2, c, img) /\ img \in Rows \cup Pieces /\ TextIsText(RowFrom(img))
  BY DEF Stores
<1>5. /\ DiskSound(fat, dat2)
      /\ \A l \in UsedIn(dat2) : (l \in UsedIn(dat) /\ AtIn(dat2, l) = AtIn(dat, l)) \/ AtIn(dat2, l).cluster = new
  BY <1>1, <1>2, <1>4, AddDisk
<1>6. Calm(td2)
  BY <1>1, <1>2, CalmKept
<1>7. td2[1] = td[2] /\ 1 \in 1..Len(td2) /\ Len(td2) \in Nat
  <2>1. Len(td) \in Nat /\ 1 \in 1..Len(td)-1 /\ 1 + Len(cs) = 1 /\ 1 + 1 = 2
    BY <1>1, <1>3 DEF Restacked
  <2> QED BY <1>1, <2>1 DEF Restacked
<1>8. Debts(fat, dat2, td2)
  <2>1. SUFFICES ASSUME NEW l \in UsedIn(dat2), fat[AtIn(dat2, l).cluster] = 0
                 PROVE  Paid(fat, dat2, td2, l)
    BY DEF Debts
  <2>2. CASE AtIn(dat2, l).cluster = new
    <3>1. Pays(fat, dat2, td2[1], l)
      BY <1>3, <1>7, <2>2 DEF Pays, Sets
    <3>2. \A j \in 1..1-1 : FreeCall(td2[j])
      OBVIOUS
    <3> QED BY <1>7, <3>1, <3>2 DEF Paid
  <2>3. CASE l \in UsedIn(dat) /\ AtIn(dat2, l) = AtIn(dat, l)
    <3>1. Paid(fat, dat, td, l)
      BY <1>1, <2>1, <2>3 DEF Debts
    <3>2. PICK i \in 1..Len(td) : Pays(fat, dat, td[i], l) /\ \A j \in 1..i-1 : FreeCall(td[j])
      BY <3>1 DEF Paid
    <3>3. ~FreeCall(td[1])
      BY <1>1 DEF FreeCall, FatCall
    <3>4. i = 1
      BY <1>1, <3>2, <3>3
    <3>5. Removes(td[1], l)
      BY <1>1, <3>2, <3>4 DEF Pays
    <3>6. l.cluster = c /\ ~InUse(RowFrom(img)[l.slot]) /\ l \in Places
      BY <1>1, <2>3, <3>5 DEF Removes, UsedIn
    <3>7. AtIn(dat2, l) = RowFrom(img)[l.slot]
      BY <1>1, <1>4, <3>6, SoundFacts, WriteIs
    <3> QED BY <3>6, <3>7, <2>1 DEF UsedIn
  <2> QED BY <1>5, <2>1, <2>2, <2>3
<1>9. ASSUME NEW i, NEW m, Lower(td2, td, cs, i, m) PROVE CallSound(fat, dat2, td2, rt, m)
  <2>1. i \in 2..Len(td) /\ td2[m] = td[i] /\ Len(td) \in Nat
    BY <1>9 DEF Lower
  <2>2. CASE i = 2
    <3>1. m = 1
      BY <1>1, <1>9, <2>2 DEF Lower
    <3>2. EndOK(fat, td2, new)
      BY <1>2, <1>6, RootFacts DEF EndOK
    <3>3. ModifyOK(fat, dat2, td2, m)
      BY <1>3, <2>1, <2>2, <3>2, RootFacts DEF ModifyOK, ChangeOK
    <3> QED BY <1>3, <2>1, <2>2, <3>3 DEF CallSound
  <2>3. CASE i # 2
    <3>1. i \in 3..Len(td) /\ i \in 1..Len(td)
      BY <2>1, <2>3
    <3>2. td[i].f \in {"write_to_file", "look"} /\ CallSound(fat, dat, td, rt, i)
      BY <1>1, <1>3, <3>1 DEF AllSound
    <3> QED BY <1>9, <3>2, LowerPlain
  <2> QED BY <2>2, <2>3
<1>10. AllSound(fat, dat2, td2, rt)
  BY <1>1, <1>9, AllSoundKept
<1>11. td2 \in Seq(Range(td2))
  BY <1>1, MovesStack
<1> QED BY <1>1, <1>5, <1>8, <1>10, <1>11 DEF Good

\* A cluster is written.
LEMMA DataWritten ==
  ASSUME NEW fat, NEW dat, NEW td, NEW rt, Good(fat, dat, td, rt), NEW dat2, NEW td2, NEW cs,
         Moves(td2, td, "write_data", cs), IsNone(cs),
         NEW c \in Entries, td[1].args[1] = c, Puts(dat, dat2, c, td[1].args[2])
  PROVE  Good(fat, dat2, td2, rt)
<1>1. AllSound(fat, dat, td, rt) /\ 1 \in 1..Len(td) /\ td[1].f = "write_data"
  BY GoodFacts, MovesStack
<1>2. WriteOK(fat, dat, td, 1)
  BY <1>1 DEF AllSound, CallSound
<1> DEFINE img == td[1].args[2]
<1>3. Stores(dat, dat2, td, td2, cs, c, img)
  BY <1>2 DEF WriteOK, Stores
<1>4. CASE Adds(fat, dat, td, 1, c, img)
  BY <1>3, <1>4, AddStored
<1>5. CASE ~Adds(fat, dat, td, 1, c, img)
  <2>1. Thins(dat, c, img) /\ (Calm(td) => (\A l \in UsedIn(dat) : l.cluster # c) \/ Lone(td, 1))
    BY <1>2, <1>5 DEF WriteOK
  <2> QED BY <1>3, <2>1, ThinStored
<1> QED BY <1>4, <1>5

-----------------------------------------------------------------------------
(* What a deletion goes through *)

\* A stack whose first call neither frees nor pays has no debts, and none has
\* the stack it becomes.
LEMMA StillNoDebts ==
  ASSUME NEW fat, NEW dat, NEW td, NEW rt, Good(fat, dat, td, rt),
         td[1].f \notin {"write_fat", "modify_fat", "free_chain", "write_data"}, NEW td2
  PROVE  Debts(fat, dat, td2)
<1>1. \A l \in UsedIn(dat) : fat[AtIn(dat, l).cluster] # 0
  BY GoodFacts, NoDebts
<1> QED BY <1>1 DEF Debts

\* Calls that only take calls to delete from their list.
Delegates(td, cs) ==
  /\ \A j \in 1..Len(cs) : cs[j].f \in {"delete_file", "delete_inside"}
  /\ Len(cs) \in 1..Len(cs) /\ cs[Len(cs)].f = "delete_inside"
  /\ Deeper(td, cs)

\* A step of such calls.
LEMMA InsideOn ==
  ASSUME NEW fat, NEW dat, NEW td, NEW rt, Good(fat, dat, td, rt), NEW td2, NEW cs,
         Moves(td2, td, "delete_inside", cs), Delegates(td, cs),
         \A m \in 1..Len(cs) : CallSound(fat, dat, td2, rt, m)
  PROVE  Good(fat, dat, td2, rt)
<1>1. td[1].f = "delete_inside" /\ 1 \in 1..Len(td)
  BY MovesStack
<1>2. ~Calm(td) /\ ~FatCall(td[1])
  BY <1>1 DEF Calm, FatCall
<1>3. /\ Fewer(dat, dat) /\ Cuts(fat, fat) /\ DiskSound(fat, dat) /\ rt \in Entries \cup {0, 1}
      /\ Debts(fat, dat, td2)
  BY <1>1, CutsSame, FewerSame, GoodFacts, StillNoDebts
<1>4. \A j \in 1..Len(cs) : \A x : ~Takes(fat, dat, cs[j], x)
  BY DEF Delegates, Takes, Removes
<1>5. KeepsWays(fat, dat, td, fat, dat, cs)
  BY <1>4 DEF KeepsWays
<1>6. HandsOn(fat, dat, td, dat, cs)
  BY <1>1 DEF HandsOn, Removes
<1>7. /\ \A j \in 1..Len(cs) : cs[j].f # "write_data"
      /\ Len(cs) \in 1..Len(cs) /\ cs[Len(cs)].f = "delete_inside" /\ Deeper(td, cs)
      /\ \A y \in Entries : ~Sets(fat, td[1], y, 0)
  BY <1>1 DEF Delegates, Sets
<1>8. FreeingStep(fat, dat, td, fat, dat, cs)
  BY ONLY <1>1, <1>2, <1>3, <1>5, <1>6, <1>7 DEF FreeingStep
<1> QED BY <1>3, <1>8, FreeingGood

\* The deletion of what is in a directory, from the n-th entry of list on.
IsInside(fat, dat, td, p, list, n) ==
  /\ 3 <= Len(td) /\ td[2].f = "free_chain" /\ td[3].f = "write_data"
  /\ p \in AllPaths /\ n \in Nat \ {0} /\ list \in Seq(Range(list))
  /\ \A m \in 1..Len(list) : list[m].name \in Known \cup Unused \cup {"text"} /\ list[m].name # "kernel"
  /\ list # <<>> => \E g \in [0..Len(p) -> Entries] : /\ IsWay(fat, dat, g, p) /\ g[Len(p)] = td[2].args[1]
                           /\ td[3].args[1] \in Reach(fat, g[Len(p)-1])
  /\ \A l \in UsedIn(dat) : l.cluster \in Reach(fat, td[2].args[1]) =>
        \E m \in 1..Len(list) : m >= n /\ list[m].name = AtIn(dat, l).name

\* What delete_inside relies on.
LEMMA InsideFacts ==
  ASSUME NEW fat, NEW dat, NEW td, NEW rt, Good(fat, dat, td, rt), NEW td2, NEW cs,
         Moves(td2, td, "delete_inside", cs)
  PROVE  /\ Restacked(td2, td, cs) /\ Len(td) \in Nat /\ Len(cs) \in Nat
         /\ IsInside(fat, dat, td, td[1].args[1], td[1].args[2], td[1].args[3])
<1> DEFINE p == td[1].args[1]
           list == td[1].args[2]
           n == td[1].args[3]
<1>1. td[1].f = "delete_inside" /\ 1 \in 1..Len(td) /\ Restacked(td2, td, cs) /\ Len(td) \in Nat /\ Len(cs) \in Nat
  BY MovesStack
<1>2. InsideOK(fat, dat, td, 1)
  BY <1>1, GoodFacts DEF AllSound, CallSound
<1>3. 1 + 1 = 2 /\ 1 + 2 = 3 /\ ~(1 > 1)
  OBVIOUS
<1>4. \A l : ~Covered(dat, td, 1, p, l)
  BY DEF Covered
<1>5. /\ 1 + 2 <= Len(td) /\ td[1+1].f = "free_chain" /\ td[1+2].f = "write_data"
      /\ p \in AllPaths /\ n \in Nat \ {0} /\ list \in Seq(Range(list))
      /\ \A m \in 1..Len(list) : list[m].name \in Known \cup Unused \cup {"text"} /\ list[m].name # "kernel"
      /\ list # <<>> => \E g \in [0..Len(p) -> Entries] : /\ IsWay(fat, dat, g, p) /\ g[Len(p)] = td[1+1].args[1]
                               /\ td[1+2].args[1] \in Reach(fat, g[Len(p)-1])
      /\ \A l \in UsedIn(dat) : l.cluster \in Reach(fat, td[1+1].args[1]) =>
            \/ \E m \in 1..Len(list) : m >= n /\ list[m].name = AtIn(dat, l).name
            \/ Covered(dat, td, 1, p, l)
  BY <1>2 DEF InsideOK
<1>6. IsInside(fat, dat, td, p, list, n)
  BY ONLY <1>1, <1>3, <1>4, <1>5 DEF IsInside
<1> QED BY <1>1, <1>6

\* The list has ended.
LEMMA InsideDone ==
  ASSUME NEW fat, NEW dat, NEW td, NEW rt, Good(fat, dat, td, rt), NEW td2, NEW cs,
         Moves(td2, td, "delete_inside", cs), td[1].args[3] \notin 1..Len(td[1].args[2]), IsNone(cs)
  PROVE  Good(fat, dat, td2, rt)
<1> DEFINE list == td[1].args[2]
           n == td[1].args[3]
<1>1. 1 \in 1..Len(td) /\ td[1].f = "delete_inside" /\ rt \in Entries \cup {0, 1}
  BY MovesStack, GoodFacts
<1>2. ~Calm(td)
  BY <1>1 DEF Calm
<1>3. (\A y \in Entries : \A w : ~Sets(fat, td[1], y, w)) /\ \A l \in UsedIn(dat) : ~Removes(td[1], l)
  BY <1>1 DEF Sets, Removes
<1>4. HandsOn(fat, dat, td, dat, cs)
  BY <1>1, <1>3 DEF HandsOn
<1>5. /\ n \in Nat \ {0} /\ list \in Seq(Range(list))
      /\ \A l \in UsedIn(dat) : l.cluster \in Reach(fat, td[2].args[1]) =>
            \E m \in 1..Len(list) : m >= n /\ list[m].name = AtIn(dat, l).name
  BY InsideFacts DEF IsInside
<1>6. \A l \in UsedIn(dat) : l.cluster \notin Reach(fat, td[2].args[1])
  <2>1. Len(list) \in Nat
    BY <1>5
  <2>2. \A m \in 1..Len(list) : ~(m >= n)
    BY <1>5, <2>1
  <2> QED BY <1>5, <2>2
<1> QED BY <1>1, <1>2, <1>3, <1>4, <1>6, PopFreeing

\* An entry in use has a name in use.
LEMMA NoUnused ==
  ASSUME NEW dat, NEW l \in UsedIn(dat)
  PROVE  AtIn(dat, l).name \notin Unused /\ AtIn(dat, l).name \in Known /\ AtIn(dat, l).name \in NamesOf
BY FatAssumption DEF UsedIn, InUse, Known, Unused, NamesOf

\* An unused entry is passed over.
LEMMA InsidePassed ==
  ASSUME NEW fat, NEW dat, NEW td, NEW rt, Good(fat, dat, td, rt), NEW td2, NEW cs,
         Moves(td2, td, "delete_inside", cs), NEW p, td[1].args[1] = p, NEW list, td[1].args[2] = list,
         NEW n, td[1].args[3] = n, n \in 1..Len(list), list[n].name \in Unused,
         IsOne(cs, DeleteInside(p, list, n + 1))
  PROVE  Good(fat, dat, td2, rt)
<1>0. IsInside(fat, dat, td, p, list, n) /\ Restacked(td2, td, cs) /\ Len(td) \in Nat /\ Len(cs) \in Nat
  BY InsideFacts
<1>1. /\ Restacked(td2, td, cs) /\ Len(td) \in Nat /\ Len(cs) \in Nat
      /\ 3 <= Len(td) /\ td[2].f = "free_chain" /\ td[3].f = "write_data"
      /\ p \in AllPaths /\ n \in Nat \ {0} /\ list \in Seq(Range(list))
      /\ \A m \in 1..Len(list) : list[m].name \in Known \cup Unused \cup {"text"} /\ list[m].name # "kernel"
      /\ list # <<>> => \E g \in [0..Len(p) -> Entries] : /\ IsWay(fat, dat, g, p) /\ g[Len(p)] = td[2].args[1]
                               /\ td[3].args[1] \in Reach(fat, g[Len(p)-1])
      /\ \A l \in UsedIn(dat) : l.cluster \in Reach(fat, td[2].args[1]) =>
            \E m \in 1..Len(list) : m >= n /\ list[m].name = AtIn(dat, l).name
  BY ONLY <1>0 DEF IsInside
<1>2. /\ Len(cs) = 1 /\ 1 \in 1..Len(cs) /\ \A j \in 1..Len(cs) : j = 1
      /\ cs[1].f = "delete_inside" /\ cs[1].args[1] = p /\ cs[1].args[2] = list /\ cs[1].args[3] = n + 1
  <2>1. Len(cs) = 1 /\ cs[1] = DeleteInside(p, list, n + 1)
    BY DEF IsOne
  <2> QED BY <2>1, CallsAre
<1>3. td[1].f = "delete_inside" /\ Len(p) \in Nat
  BY <1>1, MovesStack DEF AllPaths
<1>4. Delegates(td, cs)
  BY <1>2, <1>3 DEF Delegates, Deeper
<1>5. /\ td2[1] = cs[1] /\ td2[2] = td[2] /\ td2[3] = td[3] /\ 3 <= Len(td2)
  <2>1. 1 \in 1..Len(td)-1 /\ 2 \in 1..Len(td)-1 /\ 1 + Len(cs) = 2 /\ 2 + Len(cs) = 3 /\ 1 + 1 = 2 /\ 2 + 1 = 3
    BY <1>1, <1>2
  <2>2. td2[1+Len(cs)] = td[1+1] /\ td2[2+Len(cs)] = td[2+1] /\ Len(td2) + 1 = Len(cs) + Len(td) /\ Len(td2) \in Nat
    BY <1>1, <2>1 DEF Restacked
  <2>3. td2[1] = cs[1]
    BY <1>1, <1>2 DEF Restacked
  <2> QED BY <1>1, <1>2, <2>1, <2>2, <2>3
<1>6. InsideOK(fat, dat, td2, 1)
  <2>1. 1 + 1 = 2 /\ 1 + 2 = 3 /\ ~(1 > 1) /\ \A j \in 1..1-1 : FALSE
    OBVIOUS
  <2>2. \A l \in UsedIn(dat) : l.cluster \in Reach(fat, td2[2].args[1]) =>
            \E m \in 1..Len(list) : m >= n + 1 /\ list[m].name = AtIn(dat, l).name
    <3>1. SUFFICES ASSUME NEW l \in UsedIn(dat), l.cluster \in Reach(fat, td2[2].args[1])
                   PROVE  \E m \in 1..Len(list) : m >= n + 1 /\ list[m].name = AtIn(dat, l).name
      OBVIOUS
    <3>2. PICK m \in 1..Len(list) : m >= n /\ list[m].name = AtIn(dat, l).name
      BY <1>1, <1>5, <3>1
    <3>3. m # n
      BY <3>2, NoUnused, <3>1
    <3> QED BY <1>1, <3>2, <3>3
  <2>3. Below(td2, 1, p)
    BY <2>1 DEF Below
  <2>4. n + 1 \in Nat \ {0}
    BY <1>1
  <2>5. \A l \in UsedIn(dat) : ~Covered(dat, td2, 1, p, l)
    BY DEF Covered
  <2>6. /\ td2[1].args[1] = p /\ td2[1].args[2] = list /\ td2[1].args[3] = n + 1
        /\ td2[1+1] = td[2] /\ td2[1+2] = td[3] /\ 1 + 2 <= Len(td2)
    BY <1>2, <1>5, <2>1
  <2>7. list # <<>> => \E g \in [0..Len(p) -> Entries] :
          /\ IsWay(fat, dat, g, p) /\ g[Len(p)] = td2[1+1].args[1]
          /\ td2[1+2].args[1] \in Reach(fat, g[Len(p)-1])
          /\ \A j \in 1..1-1, k \in 0..Len(p) : ~Takes(fat, dat, td2[j], g[k])
    BY <1>1, <2>1, <2>6
  <2>8. \A l \in UsedIn(dat) : l.cluster \in Reach(fat, td2[1+1].args[1]) =>
          \/ \E m \in 1..Len(list) : m >= n + 1 /\ list[m].name = AtIn(dat, l).name
          \/ Covered(dat, td2, 1, p, l)
    BY <2>1, <2>2
  <2> QED BY ONLY <1>1, <2>1, <2>3, <2>4, <2>6, <2>7, <2>8 DEF InsideOK
<1>7. CallSound(fat, dat, td2, rt, 1)
  BY <1>2, <1>5, <1>6 DEF CallSound
<1> QED BY <1>2, <1>4, <1>7, InsideOn

-----------------------------------------------------------------------------
\* An entry is deleted before the rest of the list.
LEMMA InsideDown ==
  ASSUME NEW fat, NEW dat, NEW td, NEW rt, Good(fat, dat, td, rt), NEW td2, NEW cs,
         Moves(td2, td, "delete_inside", cs), NEW p, td[1].args[1] = p, NEW list, td[1].args[2] = list,
         NEW n, td[1].args[3] = n, n \in 1..Len(list), list[n].name \notin Unused,
         IsTwo(cs, delete_file(Append(p, list[n].name)), DeleteInside(p, list, n + 1))
  PROVE  Good(fat, dat, td2, rt)
<1>0. IsInside(fat, dat, td, p, list, n) /\ Restacked(td2, td, cs) /\ Len(td) \in Nat /\ Len(cs) \in Nat
  BY InsideFacts
<1>1. /\ Restacked(td2, td, cs) /\ Len(td) \in Nat /\ Len(cs) \in Nat
      /\ 3 <= Len(td) /\ td[2].f = "free_chain" /\ td[3].f = "write_data"
      /\ p \in AllPaths /\ n \in Nat \ {0} /\ list \in Seq(Range(list))
      /\ \A m \in 1..Len(list) : list[m].name \in Known \cup Unused \cup {"text"} /\ list[m].name # "kernel"
      /\ list # <<>> => \E g \in [0..Len(p) -> Entries] : /\ IsWay(fat, dat, g, p) /\ g[Len(p)] = td[2].args[1]
                               /\ td[3].args[1] \in Reach(fat, g[Len(p)-1])
      /\ \A l \in UsedIn(dat) : l.cluster \in Reach(fat, td[2].args[1]) =>
            \E m \in 1..Len(list) : m >= n /\ list[m].name = AtIn(dat, l).name
  BY ONLY <1>0 DEF IsInside
<1> DEFINE q == Append(p, list[n].name)
<1>2. /\ Len(cs) = 2 /\ 1 \in 1..Len(cs) /\ 2 \in 1..Len(cs) /\ \A j \in 1..Len(cs) : j = 1 \/ j = 2
      /\ cs[1].f = "delete_file" /\ cs[1].args[1] = q
      /\ cs[2].f = "delete_inside" /\ cs[2].args[1] = p /\ cs[2].args[2] = list /\ cs[2].args[3] = n + 1
  <2>1. Len(cs) = 2 /\ cs[1] = delete_file(q) /\ cs[2] = DeleteInside(p, list, n + 1)
    BY DEF IsTwo
  <2>2. cs[1].f = "delete_file" /\ cs[1].args[1] = q
    <3>1. \A x : delete_file(x).f = "delete_file" /\ delete_file(x).args[1] = x
      BY CallsAre
    <3> HIDE DEF q
    <3> QED BY <2>1, <3>1
  <2>3. cs[2].f = "delete_inside" /\ cs[2].args[1] = p /\ cs[2].args[2] = list /\ cs[2].args[3] = n + 1
    BY <2>1, CallsAre
  <2> QED BY ONLY <2>1, <2>2, <2>3
<1>3. /\ td[1].f = "delete_inside" /\ Len(p) \in Nat /\ p \in Seq(NamesOf) /\ list[n].name \in NamesOf
      /\ list[n].name # "kernel" /\ list # <<>>
  BY <1>1, MovesStack DEF AllPaths, NamesOf
<1>4. q \in Seq(NamesOf) /\ q # <<>> /\ Len(q) = Len(p) + 1 /\ Last(q) = list[n].name
  BY <1>3, AppendIs
<1>5. Delegates(td, cs)
  BY <1>2, <1>3, <1>4 DEF Delegates, Deeper
<1>6. /\ td2[1] = cs[1] /\ td2[2] = cs[2] /\ td2[3] = td[2] /\ td2[4] = td[3] /\ 4 <= Len(td2)
  <2>1. 1 \in 1..Len(td)-1 /\ 2 \in 1..Len(td)-1 /\ 1 + Len(cs) = 3 /\ 2 + Len(cs) = 4 /\ 1 + 1 = 2 /\ 2 + 1 = 3
    BY <1>1, <1>2
  <2>2. td2[1+Len(cs)] = td[1+1] /\ td2[2+Len(cs)] = td[2+1] /\ Len(td2) + 1 = Len(cs) + Len(td) /\ Len(td2) \in Nat
    BY <1>1, <2>1 DEF Restacked
  <2>3. td2[1] = cs[1] /\ td2[2] = cs[2]
    BY <1>1, <1>2 DEF Restacked
  <2> QED BY <1>1, <1>2, <2>1, <2>2, <2>3
<1>7. InsideOK(fat, dat, td2, 2)
  <2>1. 2 + 1 = 3 /\ 2 + 2 = 4 /\ 2 > 1 /\ 2 - 1 = 1 /\ \A j \in 1..2-1 : j = 1
    OBVIOUS
  <2>2. ASSUME NEW l \in UsedIn(dat), l.cluster \in Reach(fat, td[2].args[1])
        PROVE  \/ \E m \in 1..Len(list) : m >= n + 1 /\ list[m].name = AtIn(dat, l).name
               \/ Covered(dat, td2, 2, p, l)
    <3>1. PICK m \in 1..Len(list) : m >= n /\ list[m].name = AtIn(dat, l).name
      BY <1>1, <2>2
    <3>2. CASE m = n
      <4>1. td2[2-1].f = "delete_file" /\ td2[2-1].args[1] = Append(p, AtIn(dat, l).name)
        BY <1>2, <1>6, <2>1, <3>1, <3>2
      <4> QED BY <2>1, <4>1 DEF Covered
    <3>3. CASE m # n
      BY <1>1, <3>1, <3>3
    <3> QED BY <3>2, <3>3
  <2>3. Below(td2, 2, p)
    BY <1>2, <1>3, <1>4, <1>6, <2>1 DEF Below
  <2>4. n + 1 \in Nat \ {0}
    BY <1>1
  <2>6. /\ td2[2].args[1] = p /\ td2[2].args[2] = list /\ td2[2].args[3] = n + 1
        /\ td2[2+1] = td[2] /\ td2[2+2] = td[3] /\ 2 + 2 <= Len(td2)
        /\ 2 > 1 => list # <<>> /\ td2[2-1].f \in {"delete_file", "write_data"}
    BY <1>2, <1>3, <1>6, <2>1
  <2>7. list # <<>> => \E g \in [0..Len(p) -> Entries] :
          /\ IsWay(fat, dat, g, p) /\ g[Len(p)] = td2[2+1].args[1]
          /\ td2[2+2].args[1] \in Reach(fat, g[Len(p)-1])
          /\ \A j \in 1..2-1, k \in 0..Len(p) : ~Takes(fat, dat, td2[j], g[k])
    <3>1. \A j \in 1..2-1 : \A x : ~Takes(fat, dat, td2[j], x)
      BY <1>2, <1>6, <2>1 DEF Takes, Removes
    <3> QED BY <1>1, <2>6, <3>1
  <2>8. \A l \in UsedIn(dat) : l.cluster \in Reach(fat, td2[2+1].args[1]) =>
          \/ \E m \in 1..Len(list) : m >= n + 1 /\ list[m].name = AtIn(dat, l).name
          \/ Covered(dat, td2, 2, p, l)
    BY <2>2, <2>6
  <2> QED BY ONLY <1>1, <2>1, <2>3, <2>4, <2>6, <2>7, <2>8 DEF InsideOK
<1>8. CallSound(fat, dat, td2, rt, 1)
  <2>1. td2[1].f = "delete_file" /\ td2[1].args[1] \in AllPaths /\ Last(td2[1].args[1]) # "kernel"
    BY <1>2, <1>3, <1>4, <1>6 DEF AllPaths, NamesOf
  <2> QED BY <2>1 DEF CallSound
<1>9. CallSound(fat, dat, td2, rt, 2)
  BY <1>2, <1>6, <1>7 DEF CallSound
<1>10. \A m \in 1..Len(cs) : CallSound(fat, dat, td2, rt, m)
  BY <1>2, <1>8, <1>9
<1> QED BY <1>5, <1>10, InsideOn

\* Nothing has the name: there is nothing to delete.
LEMMA DeletedNone ==
  ASSUME NEW td, NEW rt, Good(fats[1], data, td, rt), NEW td2, NEW cs,
         Moves(td2, td, "delete_file", cs), IsNone(cs), Find(td[1].args[1]) = NotFound
  PROVE  Good(fats[1], data, td2, rt)
<1> DEFINE p == td[1].args[1]
<1>1. 1 \in 1..Len(td) /\ td[1].f = "delete_file" /\ rt \in Entries \cup {0, 1} /\ DiskSound(fats[1], data)
  BY MovesStack, GoodFacts
<1>2. ~Calm(td)
  BY <1>1 DEF Calm
<1>3. (\A y \in Entries : \A w : ~Sets(fats[1], td[1], y, w)) /\ \A l : ~Removes(td[1], l)
  BY <1>1 DEF Sets, Removes
<1>4. p \in AllPaths
  BY <1>1, GoodFacts DEF AllSound, CallSound
<1>5. p \in Seq(NamesOf) /\ p # <<>>
  BY <1>4 DEF AllPaths, NamesOf
<1>6. HandsOn(fats[1], data, td, data, cs)
  <2>1. SUFFICES ASSUME NEW w, NEW g, NEW l \in UsedIn(data), w \in Seq(NamesOf), IsWay(fats[1], data, g, w),
                        l.cluster \in Reach(fats[1], g[Len(w)]), p = Append(w, AtIn(data, l).name)
                 PROVE  FALSE
    BY <1>3 DEF HandsOn
  <2>2. AtIn(data, l).name \in NamesOf /\ l \in Places
    BY NoUnused DEF UsedIn
  <2>3. Front(p) = w /\ Last(p) = AtIn(data, l).name /\ Len(p) = Len(w) + 1 /\ Len(w) \in Nat
    BY <2>1, <2>2, AppendIs
  <2>4. Len(p) - 1 = Len(w)
    BY <2>3
  <2>5. IsWay(fats[1], data, g, Front(p)) /\ l.cluster \in Reach(fats[1], g[Len(p)-1])
    BY <2>1, <2>3, <2>4
  <2>6. AtIn(data, l).name # Last(p)
    BY <1>1, <1>5, <2>2, <2>5, Finding
  <2> QED BY <2>3, <2>6
<1> QED BY <1>1, <1>2, <1>3, <1>6, PopFreeing

-----------------------------------------------------------------------------
(* What delete_file finds *)

\* The entry at loc is the one that p leads to.
Target(fat, dat, p, loc) ==
  /\ p \in Seq(NamesOf) /\ p # <<>> /\ Len(p) \in Nat \ {0}
  /\ loc \in Places /\ AtIn(dat, loc).name = Last(p) /\ Last(p) \in NamesOf /\ Last(p) # "kernel"
  /\ \E g : IsWay(fat, dat, g, Front(p)) /\ loc.cluster \in Reach(fat, g[Len(p)-1])
  /\ AtIn(dat, loc).cluster \in Links \ {Root}
  /\ loc \in UsedIn(dat) \/ (AtIn(dat, loc).cluster = EOC /\ ~AtIn(dat, loc).dir)
  /\ \A l \in UsedIn(dat) : AtIn(dat, l).cluster = AtIn(dat, loc).cluster => l = loc
  /\ \A y \in Entries : fat[y] = AtIn(dat, loc).cluster => fat[y] \notin Entries
  /\ loc.cluster = Root /\ Kernel => loc.slot # 1
  /\ ~AtIn(dat, loc).dir => \A l \in UsedIn(dat) : l.cluster \notin Reach(fat, AtIn(dat, loc).cluster)

\* What delete_file finds is its target.
LEMMA TargetIs ==
  ASSUME DiskSound(fats[1], data), NEW p, p \in AllPaths, Last(p) # "kernel", NEW loc, loc = Find(p), loc # NotFound
  PROVE  Target(fats[1], data, p, loc)
<1> DEFINE e == AtIn(data, loc)
<1>1. p \in Seq(NamesOf) /\ p # <<>>
  BY DEF AllPaths, NamesOf
<1>2. Len(p) \in Nat \ {0} /\ Last(p) \in NamesOf
  BY <1>1, FrontIs
<1>3. /\ loc \in Places /\ e.name = Last(p)
      /\ \E g : IsWay(fats[1], data, g, Front(p)) /\ loc.cluster \in Reach(fats[1], g[Len(p)-1])
  BY <1>1, Finding
<1>4. Chained(fats[1]) /\ RowsSound(data) /\ HeadsSound(fats[1], data) /\ NamesSound(fats[1], data)
  BY SoundFacts
<1>5. loc.cluster \in Entries /\ loc.slot \in 1..Slots /\ loc = [cluster |-> loc.cluster, slot |-> loc.slot]
  BY <1>3, PlaceIs
<1>6. CASE e.name \in Known
  <2>1. loc \in UsedIn(data)
    BY <1>3, <1>6 DEF UsedIn, InUse
  <2>2. /\ e.cluster \in Entries \ {Root} /\ \A c \in Entries : fats[1][c] # e.cluster
        /\ \A l \in UsedIn(data) : AtIn(data, l).cluster = e.cluster => l = loc
    BY <1>4, <2>1, HeadFacts
  <2>3. ~e.dir => \A l \in UsedIn(data) : l.cluster \notin Reach(fats[1], e.cluster)
    BY <1>4, <2>1 DEF HeadsSound
  <2>4. loc.cluster = Root /\ Kernel => loc.slot # 1
    <3>1. Kernel => AtIn(data, [cluster |-> Root, slot |-> 1]).name = "kernel"
      BY <1>4 DEF NamesSound
    <3> QED BY <1>3, <1>5, <3>1
  <2>5. e.cluster \in Links \ {Root}
    BY <2>2 DEF Links
  <2> QED BY <1>1, <1>2, <1>3, <2>1, <2>2, <2>3, <2>4, <2>5 DEF Target
<1>7. CASE e.name = "text"
  <2>1. e.cluster = EOC /\ e.dir = FALSE
    <3>1. TextIsText(RowFrom(data[loc.cluster]))
      BY <1>4, <1>5 DEF RowsSound
    <3> QED BY <1>5, <1>7, <3>1 DEF TextIsText, AtIn
  <2>2. EOC \notin Entries /\ EOC \in Links /\ EOC # Root
    BY RootFacts
  <2>3. \A l \in UsedIn(data) : AtIn(data, l).cluster \in Entries
    BY <1>4, HeadFacts
  <2>4. Reach(fats[1], EOC) = {}
    BY <1>4, <2>2, ReachNone
  <2>5. loc.cluster = Root /\ Kernel => loc.slot # 1
    <3>1. Kernel => AtIn(data, [cluster |-> Root, slot |-> 1]).name = "kernel"
      BY <1>4 DEF NamesSound
    <3> QED BY <1>3, <1>5, <3>1
  <2> QED BY <1>1, <1>2, <1>3, <2>1, <2>2, <2>3, <2>4, <2>5 DEF Target
<1> QED BY <1>2, <1>3, <1>6, <1>7 DEF NamesOf

\* The directory to be deleted is where its path leads.
LEMMA TargetWay ==
  ASSUME NEW fat, NEW dat, DiskSound(fat, dat), NEW p, NEW loc, Target(fat, dat, p, loc), AtIn(dat, loc).dir
  PROVE  \E h \in [0..Len(p) -> Entries] : /\ IsWay(fat, dat, h, p) /\ h[Len(p)] = AtIn(dat, loc).cluster
                                           /\ loc.cluster \in Reach(fat, h[Len(p)-1])
<1> DEFINE x == AtIn(dat, loc).cluster
<1>1. /\ p \in Seq(NamesOf) /\ p # <<>> /\ Len(p) \in Nat \ {0} /\ AtIn(dat, loc).name = Last(p)
      /\ loc \in UsedIn(dat)
  BY DEF Target
<1>2. PICK g : IsWay(fat, dat, g, Front(p)) /\ loc.cluster \in Reach(fat, g[Len(p)-1])
  BY DEF Target
<1>3. Len(Front(p)) = Len(p) - 1 /\ \A i \in 1..Len(p)-1 : Front(p)[i] = p[i]
  BY <1>1, FrontIs
<1>4. Last(p) = p[Len(p)]
  BY <1>1, FrontIs
<1>5. x \in Entries
  BY <1>1, SoundFacts, HeadFacts
<1>6. /\ g \in [0..Len(p)-1 -> Entries] /\ g[0] = Root
      /\ \A k \in 1..Len(p)-1 : Leads(fat, dat, g[k-1], p[k], g[k])
  BY <1>2, <1>3 DEF IsWay
<1> DEFINE h == [k \in 0..Len(p) |-> IF k = Len(p) THEN x ELSE g[k]]
<1>7. /\ h \in [0..Len(p) -> Entries] /\ h[Len(p)] = x
      /\ \A k \in 0..Len(p)-1 : h[k] = g[k]
  BY <1>1, <1>5, <1>6
<1> HIDE DEF h, x
<1>8. 0 \in 0..Len(p)-1 /\ Len(p) - 1 \in 0..Len(p)-1
  BY <1>1
<1>9. ASSUME NEW k \in 1..Len(p) PROVE Leads(fat, dat, h[k-1], p[k], h[k])
  <2>1. k - 1 \in 0..Len(p)-1
    BY <1>1, <1>9
  <2>2. CASE k = Len(p)
    <3>1. h[k-1] = g[Len(p)-1] /\ h[k] = x
      BY <1>7, <2>1, <2>2
    <3>2. /\ loc \in UsedIn(dat) /\ loc.cluster \in Reach(fat, h[k-1])
          /\ AtIn(dat, loc).name = p[k] /\ AtIn(dat, loc).dir /\ AtIn(dat, loc).cluster = h[k]
      BY <1>1, <1>2, <1>4, <2>2, <3>1 DEF x
    <3> QED BY <3>2 DEF Leads
  <2>3. CASE k # Len(p)
    <3>1. k \in 1..Len(p)-1 /\ k \in 0..Len(p)-1
      BY <1>1, <1>9, <2>3
    <3> QED BY <1>6, <1>7, <2>1, <3>1
  <2> QED BY <2>2, <2>3
<1>10. IsWay(fat, dat, h, p)
  BY <1>6, <1>7, <1>8, <1>9 DEF IsWay
<1>11. loc.cluster \in Reach(fat, h[Len(p)-1])
  BY <1>2, <1>7, <1>8
<1>12. h[Len(p)] = AtIn(dat, loc).cluster
  BY <1>7 DEF x
<1> QED BY <1>7, <1>10, <1>11, <1>12

\* No way to a directory above it meets what is to be deleted.
LEMMA TargetOff ==
  ASSUME NEW fat, NEW dat, DiskSound(fat, dat), NEW p, NEW loc, Target(fat, dat, p, loc),
         NEW w, Len(w) \in Nat, NEW g, IsWay(fat, dat, g, w), Len(p) > Len(w), NEW k \in 0..Len(w)
  PROVE  g[k] # AtIn(dat, loc).cluster
<1>1. Len(p) \in Nat
  BY DEF Target
<1>2. g[k] \in Entries /\ (k = 0 => g[k] = Root)
  BY WayHeads
<1>3. CASE AtIn(dat, loc).dir
  <2>1. PICK h : IsWay(fat, dat, h, p) /\ h[Len(p)] = AtIn(dat, loc).cluster
    BY <1>3, TargetWay
  <2>2. k # Len(p) /\ Len(p) \in 0..Len(p)
    BY <1>1
  <2>3. g[k] # h[Len(p)]
    BY <1>1, <2>1, <2>2, WaysMeet
  <2> QED BY <2>1, <2>3
<1>4. CASE ~AtIn(dat, loc).dir
  <2>1. SUFFICES ASSUME g[k] = AtIn(dat, loc).cluster
                 PROVE  FALSE
    OBVIOUS
  <2>2. AtIn(dat, loc).cluster # Root /\ \A l \in UsedIn(dat) : AtIn(dat, l).cluster = AtIn(dat, loc).cluster => l = loc
    BY DEF Target
  <2>3. k > 0
    BY <1>2, <2>1, <2>2
  <2>4. \E l \in UsedIn(dat) : AtIn(dat, l).dir /\ AtIn(dat, l).cluster = g[k]
    BY <2>3, WayHeads
  <2> QED BY <1>4, <2>1, <2>2, <2>4
<1> QED BY <1>3, <1>4

MarkOf(dat, loc) == [RowFrom(dat[loc.cluster]) EXCEPT ![loc.slot].name = "0xE5"]

\* The sector with the entry marked.
LEMMA MarkIs ==
  ASSUME NEW fat, NEW dat, DiskSound(fat, dat), NEW p, NEW loc, Target(fat, dat, p, loc), NEW img, img = MarkOf(dat, loc)
  PROVE  /\ img \in Rows /\ TextIsText(RowFrom(img)) /\ Thins(dat, loc.cluster, img)
         /\ (loc.cluster = Root /\ Kernel) => RowFrom(img)[1].name = "kernel"
         /\ ~InUse(RowFrom(img)[loc.slot])
         /\ \A l \in UsedIn(dat) : l.cluster = loc.cluster /\ ~InUse(RowFrom(img)[l.slot]) => l = loc
<1>1. loc.cluster \in Entries /\ loc.slot \in 1..Slots /\ loc \in Places
  BY PlaceIs DEF Target
<1>2. RowsSound(dat)
  BY SoundFacts
<1> DEFINE row == RowFrom(dat[loc.cluster])
<1>3. row \in Rows /\ TextIsText(row)
  BY <1>1, <1>2, RowIs DEF RowsSound
<1> HIDE DEF row
<1>4. /\ img \in Rows /\ img[loc.slot].name = "0xE5"
      /\ \A s \in 1..Slots : s # loc.slot => img[s] = row[s]
  <2>1. img = [row EXCEPT ![loc.slot].name = "0xE5"]
    BY DEF MarkOf, row
  <2> QED BY <1>1, <1>3, <2>1 DEF Rows, Unused
<1>5. RowFrom(img) = img
  BY <1>4, TextAssumption DEF RowFrom
<1>6. TextIsText(img)
  BY <1>3, <1>4 DEF TextIsText
<1>7. ~InUse(img[loc.slot])
  BY <1>4, KnownFacts DEF InUse
<1>8. \A s \in 1..Slots : AtIn(dat, [cluster |-> loc.cluster, slot |-> s]) = row[s]
  BY DEF AtIn, row
<1>9. Thins(dat, loc.cluster, img)
  BY <1>4, <1>5, <1>7, <1>8 DEF Thins
<1>10. (loc.cluster = Root /\ Kernel) => img[1].name = "kernel"
  <2>1. SUFFICES ASSUME loc.cluster = Root, Kernel PROVE img[1].name = "kernel"
    OBVIOUS
  <2>2. loc.slot # 1 /\ AtIn(dat, [cluster |-> Root, slot |-> 1]).name = "kernel"
    BY <2>1, SoundFacts DEF Target, NamesSound
  <2>3. 1 \in 1..Slots
    BY FatAssumption
  <2> QED BY <1>4, <1>8, <2>1, <2>2, <2>3
<1>11. ASSUME NEW l \in UsedIn(dat), l.cluster = loc.cluster, ~InUse(img[l.slot]) PROVE l = loc
  <2>1. l \in Places /\ InUse(AtIn(dat, l))
    BY DEF UsedIn
  <2>2. l = [cluster |-> l.cluster, slot |-> l.slot] /\ l.slot \in 1..Slots
    BY <2>1, PlaceIs
  <2>3. l.slot = loc.slot
    BY <1>4, <1>8, <1>11, <2>1, <2>2
  <2> QED BY <1>1, <1>11, <2>2, <2>3, PlaceIs
<1> QED BY <1>4, <1>5, <1>6, <1>7, <1>9, <1>10, <1>11

-----------------------------------------------------------------------------
(* delete_file *)

ListOf(fat, dat, x) == [n \in Positions(ChainIn(fat, x)) |-> AtIn(dat, Place(ChainIn(fat, x), n))]

\* A function on 1..n is a sequence.
LEMMA FunIsSeq ==
  ASSUME NEW n \in Nat, NEW s, DOMAIN s = 1..n, s = [i \in 1..n |-> s[i]]
  PROVE  s \in Seq(Range(s)) /\ Len(s) = n
<1>1. s \in [1..n -> Range(s)]
  BY DEF Range
<1> QED BY <1>1

\* The list of what is in the directory, or none.
IsList(fat, dat, loc, list) ==
  /\ list \in Seq(Range(list))
  /\ \A m \in 1..Len(list) : list[m].name \in Known \cup Unused \cup {"text"} /\ list[m].name # "kernel"
  /\ list # <<>> => AtIn(dat, loc).dir
  /\ \A l \in UsedIn(dat) : l.cluster \in Reach(fat, AtIn(dat, loc).cluster) =>
        \E m \in 1..Len(list) : m >= 1 /\ list[m].name = AtIn(dat, l).name

\* What delete_file lists.
LEMMA Listed ==
  ASSUME NEW fat, NEW dat, DiskSound(fat, dat), NEW p, NEW loc, Target(fat, dat, p, loc), NEW list,
         list = IF AtIn(dat, loc).dir THEN ListOf(fat, dat, AtIn(dat, loc).cluster) ELSE <<>>
  PROVE  IsList(fat, dat, loc, list)
<1>1. CASE ~AtIn(dat, loc).dir
  <2>1. list = <<>> /\ \A l \in UsedIn(dat) : l.cluster \notin Reach(fat, AtIn(dat, loc).cluster)
    BY <1>1 DEF Target
  <2>2. Len(list) = 0 /\ list \in Seq(Range(list))
    BY <2>1, Tuples DEF IsNone
  <2> QED BY <2>1, <2>2 DEF IsList
<1>2. CASE AtIn(dat, loc).dir
  <2> DEFINE x == AtIn(dat, loc).cluster
             ch == ChainIn(fat, x)
  <2>1. loc \in UsedIn(dat) /\ x # Root
    BY <1>2 DEF Target
  <2>2. x \in Entries /\ Chained(fat) /\ RowsSound(dat) /\ NamesSound(fat, dat) /\ FatSound(fat)
    BY <2>1, SoundFacts, HeadFacts
  <2>3. Shape(fat, x, ch)
    BY <2>2, ChainShape DEF Chained
  <2>4. Len(ch) \in Nat /\ Len(ch) * Slots \in Nat
    BY <2>3, FatAssumption DEF Shape
  <2>5. /\ \A n \in Positions(ch) : Place(ch, n) \in Places /\ Place(ch, n).cluster \in Reach(fat, x)
        /\ \A l \in Places : l.cluster \in Reach(fat, x) => \E n \in Positions(ch) : Place(ch, n) = l
        /\ Positions(ch) \in SUBSET (Nat \ {0})
    BY <2>2, Placed
  <2>6. list = [n \in Positions(ch) |-> AtIn(dat, Place(ch, n))]
    BY <1>2 DEF ListOf
  <2>7. Positions(ch) = 1..(Len(ch) * Slots)
    BY DEF Positions
  <2> HIDE DEF x, ch
  <2>8. list \in Seq(Range(list)) /\ Len(list) = Len(ch) * Slots
    BY <2>4, <2>6, <2>7, FunIsSeq
  <2>9. 1..Len(list) = Positions(ch)
    BY <2>7, <2>8
  <2>10. ASSUME NEW m \in 1..Len(list)
         PROVE  list[m].name \in Known \cup Unused \cup {"text"} /\ list[m].name # "kernel"
    <3>1. list[m] = AtIn(dat, Place(ch, m)) /\ Place(ch, m) \in Places /\ Place(ch, m).cluster \in Reach(fat, x)
      BY <2>5, <2>6, <2>9
    <3>2. list[m].name \in Known \cup Unused \cup {"text"}
      BY <2>2, <3>1, RowShape DEF Known
    <3>3. ASSUME list[m].name = "kernel" PROVE FALSE
      <4>1. Place(ch, m) \in UsedIn(dat)
        BY <3>1, <3>3, KnownFacts DEF UsedIn, InUse
      <4>2. Place(ch, m).cluster = Root
        BY <2>2, <3>1, <3>3, <4>1 DEF NamesSound
      <4>3. \E e \in Reach(fat, x) : fat[e] = Root
        BY <2>1, <2>2, <3>1, <4>2, ReachPred DEF x
      <4>4. PICK e \in Entries : fat[e] = Root
        BY <2>2, <4>3, ReachWithin
      <4> QED BY <2>2, <4>4, RootFacts DEF FatSound
    <3> QED BY <3>2, <3>3
  <2>11. ASSUME NEW l \in UsedIn(dat), l.cluster \in Reach(fat, x)
         PROVE  \E m \in 1..Len(list) : m >= 1 /\ list[m].name = AtIn(dat, l).name
    <3>1. PICK n \in Positions(ch) : Place(ch, n) = l
      BY <2>5, <2>11 DEF UsedIn
    <3> QED BY <2>6, <2>9, <3>1
  <2> QED BY <1>2, <2>8, <2>10, <2>11 DEF IsList, x
<1> QED BY <1>1, <1>2

\* The sector to be written is none that waits to be written.
LEMMA MarksApart ==
  ASSUME NEW fat, NEW dat, NEW td, NEW rt, Good(fat, dat, td, rt), NEW p, td[1].f = "delete_file", td[1].args[1] = p,
         NEW loc, Target(fat, dat, p, loc), NEW i \in 2..Len(td), td[i].f = "write_data"
  PROVE  td[i].args[1] # loc.cluster
<1> SUFFICES ASSUME td[i].args[1] = loc.cluster PROVE FALSE
  OBVIOUS
<1>1. /\ DiskSound(fat, dat) /\ AllSound(fat, dat, td, rt) /\ Len(td) \in Nat /\ loc.cluster \in Entries
      /\ Len(p) \in Nat \ {0} /\ p \in Seq(NamesOf) /\ p # <<>>
  BY GoodFacts, PlaceIs DEF Target
<1>2. i \in 1..Len(td) /\ 1 \in 1..Len(td) /\ i - 1 \in 1..Len(td) /\ i > 1 /\ 1 \in 1..i-1
  BY <1>1
<1>3. ~Calm(td)
  BY <1>2 DEF Calm
<1>4. td[i-1].f = "free_chain"
  <2>1. WriteOK(fat, dat, td, i)
    BY <1>1, <1>2 DEF AllSound, CallSound
  <2>2. ~Adds(fat, dat, td, i, td[i].args[1], td[i].args[2])
    BY <1>3 DEF Adds
  <2> QED BY <1>1, <1>2, <1>3, <2>1, <2>2 DEF WriteOK
<1>5. i - 1 # 1 /\ i \in 3..Len(td)
  <2>1. i - 1 # 1
    BY <1>4
  <2> QED BY <1>1, <2>1
<1>6. /\ i - 2 \in 1..Len(td) /\ i - 1 > 1 /\ (i - 1) - 1 = i - 2 /\ 1 \in 1..(i-1)-1
      /\ (i - 2) + 1 = i - 1 /\ (i - 2) + 2 = i
  BY <1>1, <1>5
<1>7. td[i-2].f = "delete_inside"
  <2>1. FreeOK(fat, dat, td, i - 1)
    BY <1>1, <1>2, <1>4 DEF AllSound, CallSound
  <2>2. ~FatCall(td[1])
    BY DEF FatCall
  <2> QED BY <1>6, <2>1, <2>2 DEF FreeOK
<1>8. i - 2 # 1 /\ i - 2 > 1 /\ 1 \in 1..(i-2)-1
  <2>1. i - 2 # 1
    BY <1>7
  <2> QED BY <1>1, <1>6, <2>1
<1> DEFINE q == td[i-2].args[1]
<1>9. /\ q \in AllPaths /\ Below(td, i - 2, q)
      /\ \E g \in [0..Len(q) -> Entries] : IsWay(fat, dat, g, q) /\ td[i].args[1] \in Reach(fat, g[Len(q)-1])
  <2>1. InsideOK(fat, dat, td, i - 2)
    BY <1>1, <1>6, <1>7 DEF AllSound, CallSound
  <2>2. /\ q \in AllPaths /\ Below(td, i - 2, q)
        /\ (i - 2) > 1 => td[i-2].args[2] # <<>>
        /\ td[i-2].args[2] # <<>> => \E g \in [0..Len(q) -> Entries] :
              IsWay(fat, dat, g, q) /\ td[(i-2)+2].args[1] \in Reach(fat, g[Len(q)-1])
    BY <2>1 DEF InsideOK
  <2> QED BY <1>6, <1>8, <2>2
<1>10. Len(p) > Len(q) /\ Len(q) \in Nat \ {0}
  <2>1. Len(p) > Len(q)
    BY <1>8, <1>9 DEF Below
  <2> QED BY <1>9, <2>1 DEF AllPaths
<1>11. PICK g \in [0..Len(q) -> Entries] : IsWay(fat, dat, g, q) /\ loc.cluster \in Reach(fat, g[Len(q)-1])
  BY <1>9
<1>12. PICK f : IsWay(fat, dat, f, Front(p)) /\ loc.cluster \in Reach(fat, f[Len(p)-1])
  BY DEF Target
<1>13. Len(Front(p)) = Len(p) - 1 /\ Len(Front(p)) \in Nat
  BY <1>1, FrontIs
<1> HIDE DEF q
<1>14. Len(q) - 1 \in 0..Len(q) /\ Len(p) - 1 \in 0..Len(Front(p))
  BY <1>1, <1>10, <1>13
<1>15. /\ g[Len(q)-1] \in Entries /\ \A c \in Entries : fat[c] # g[Len(q)-1]
       /\ f[Len(p)-1] \in Entries /\ \A c \in Entries : fat[c] # f[Len(p)-1]
  BY <1>1, <1>10, <1>11, <1>12, <1>13, <1>14, WayHeads
<1>16. g[Len(q)-1] = f[Len(p)-1]
  BY <1>1, <1>11, <1>12, <1>15, SoundFacts, HeadsMeet
<1>17. Len(q) - 1 = Len(p) - 1
  BY <1>1, <1>10, <1>11, <1>12, <1>13, <1>14, <1>16, WaysMeet
<1> QED BY <1>1, <1>10, <1>17

-----------------------------------------------------------------------------
\* The three things delete_file goes on with.
DeletesBy(dat, loc, p, list, cs) ==
  /\ Len(cs) = 3
  /\ cs[1].f = "delete_inside" /\ cs[1].args[1] = p /\ cs[1].args[2] = list /\ cs[1].args[3] = 1
  /\ cs[2].f = "free_chain" /\ cs[2].args[1] = AtIn(dat, loc).cluster
  /\ cs[3].f = "write_data" /\ cs[3].args[1] = loc.cluster /\ cs[3].args[2] = MarkOf(dat, loc)

\* The three calls take nothing on the way to a directory above.
LEMMA DeletesTaking ==
  ASSUME NEW fat, NEW dat, NEW td, NEW rt, Good(fat, dat, td, rt), NEW p, td[1].f = "delete_file", td[1].args[1] = p,
         NEW loc, Target(fat, dat, p, loc), NEW list, NEW cs, DeletesBy(dat, loc, p, list, cs)
  PROVE  KeepsWays(fat, dat, td, fat, dat, cs)
<1>1. DiskSound(fat, dat)
  BY GoodFacts
<1>2. \A l \in UsedIn(dat) : l.cluster = loc.cluster /\ ~InUse(RowFrom(MarkOf(dat, loc))[l.slot]) => l = loc
  BY <1>1, MarkIs
<1>3. \A j \in 1..Len(cs) : j = 1 \/ j = 2 \/ j = 3
  BY DEF DeletesBy
<1>4. ASSUME NEW j \in 1..Len(cs), NEW x, Takes(fat, dat, cs[j], x) PROVE x = AtIn(dat, loc).cluster
  <2>1. CASE j = 1
    BY <1>4, <2>1 DEF DeletesBy, Takes, Removes
  <2>2. CASE j = 2
    BY <1>4, <2>2 DEF DeletesBy, Takes, Removes
  <2>3. CASE j = 3
    <3>1. PICK l \in UsedIn(dat) : Removes(cs[3], l) /\ AtIn(dat, l).cluster = x
      BY <1>4, <2>3 DEF DeletesBy, Takes
    <3>2. l.cluster = loc.cluster /\ ~InUse(RowFrom(MarkOf(dat, loc))[l.slot])
      BY <3>1 DEF Removes, DeletesBy
    <3> QED BY <1>2, <3>1, <3>2
  <2> QED BY <1>3, <2>1, <2>2, <2>3
<1> SUFFICES ASSUME NEW w, NEW g, Len(w) \in Nat, IsWay(fat, dat, g, w), Len(p) > Len(w), NEW k \in 0..Len(w),
                    NEW j \in 1..Len(cs)
             PROVE  ~Takes(fat, dat, cs[j], g[k])
  BY DEF KeepsWays
<1>5. g[k] # AtIn(dat, loc).cluster
  BY <1>1, TargetOff
<1> QED BY <1>4, <1>5

\* They take away the entry that was to be deleted.
LEMMA DeletesHanded ==
  ASSUME DiskSound(fats[1], data), NEW td, NEW p, td[1].f = "delete_file", td[1].args[1] = p,
         NEW loc, Target(fats[1], data, p, loc), NEW list, NEW cs, DeletesBy(data, loc, p, list, cs)
  PROVE  HandsOn(fats[1], data, td, data, cs)
<1>1. \A l : ~Removes(td[1], l)
  BY DEF Removes
<1>2. ASSUME NEW w, NEW g, NEW l \in UsedIn(data), w \in Seq(NamesOf), IsWay(fats[1], data, g, w),
             l.cluster \in Reach(fats[1], g[Len(w)]), p = Append(w, AtIn(data, l).name)
      PROVE  Removes(cs[3], l)
  <2>1. AtIn(data, l).name \in NamesOf /\ AtIn(data, l).name \in Known
    BY NoUnused
  <2>2. Front(p) = w /\ Last(p) = AtIn(data, l).name /\ Len(p) = Len(w) + 1 /\ Len(w) \in Nat
    BY <1>2, <2>1, AppendIs
  <2>3. Len(p) - 1 = Len(w)
    BY <2>2
  <2>4. PICK f : IsWay(fats[1], data, f, Front(p)) /\ loc.cluster \in Reach(fats[1], f[Len(p)-1])
    BY DEF Target
  <2>5. IsWay(fats[1], data, f, w) /\ loc.cluster \in Reach(fats[1], f[Len(w)])
    BY <2>2, <2>3, <2>4
  <2>6. f[Len(w)] = g[Len(w)]
    <3>1. file_path_destination(w) = f[Len(w)] /\ file_path_destination(w) = g[Len(w)]
      BY <1>2, <2>5, Destination
    <3> QED BY <3>1
  <2>7. loc \in UsedIn(data) /\ AtIn(data, loc).name = AtIn(data, l).name
    BY <2>1, <2>2 DEF Target, UsedIn, InUse
  <2>8. g[Len(w)] \in Entries
    BY <1>2, <2>2 DEF IsWay
  <2>9. l = loc
    BY <1>2, <2>5, <2>6, <2>7, <2>8, SoundFacts DEF NamesSound
  <2> QED BY <2>9, MarkIs DEF DeletesBy, Removes
<1>3. Len(cs) = 3 /\ Len(cs) \in 1..Len(cs)
  BY DEF DeletesBy
<1> QED BY <1>1, <1>2, <1>3 DEF HandsOn

\* The three calls are sound.
LEMMA DeletesCalls ==
  ASSUME NEW fat, NEW dat, NEW td, NEW rt, Good(fat, dat, td, rt), NEW p, td[1].f = "delete_file", td[1].args[1] = p,
         NEW loc, Target(fat, dat, p, loc), NEW list, IsList(fat, dat, loc, list),
         NEW cs, DeletesBy(dat, loc, p, list, cs), NEW td2, Restacked(td2, td, cs), NEW m \in 1..Len(cs)
  PROVE  CallSound(fat, dat, td2, rt, m)
<1>1. DiskSound(fat, dat)
  BY GoodFacts
<1>2. /\ Len(cs) = 3 /\ \A j \in 1..Len(cs) : j = 1 \/ j = 2 \/ j = 3
      /\ cs[1].f = "delete_inside" /\ cs[1].args[1] = p /\ cs[1].args[2] = list /\ cs[1].args[3] = 1
      /\ cs[2].f = "free_chain" /\ cs[2].args[1] = AtIn(dat, loc).cluster
      /\ cs[3].f = "write_data" /\ cs[3].args[1] = loc.cluster /\ cs[3].args[2] = MarkOf(dat, loc)
  BY DEF DeletesBy
<1>3. td2[1] = cs[1] /\ td2[2] = cs[2] /\ td2[3] = cs[3] /\ 3 <= Len(td2) /\ Len(td2) \in Nat
  BY <1>2 DEF Restacked
<1>4. ~Calm(td2)
  BY <1>2, <1>3 DEF Calm
<1> DEFINE img == MarkOf(dat, loc)
           x == AtIn(dat, loc).cluster
<1>5. /\ img \in Rows /\ TextIsText(RowFrom(img)) /\ Thins(dat, loc.cluster, img)
      /\ (loc.cluster = Root /\ Kernel) => RowFrom(img)[1].name = "kernel"
      /\ ~InUse(RowFrom(img)[loc.slot])
  BY <1>1, MarkIs
<1> HIDE DEF img, x
<1>6. CASE m = 1
  <2>1. 1 + 1 = 2 /\ 1 + 2 = 3 /\ ~(1 > 1) /\ \A j \in 1..1-1 : FALSE
    OBVIOUS
  <2>2. p \in AllPaths /\ 1 \in Nat \ {0}
    BY DEF Target, AllPaths, NamesOf
  <2>3. /\ td2[1].args[1] = p /\ td2[1].args[2] = list /\ td2[1].args[3] = 1
        /\ td2[1+1] = cs[2] /\ td2[1+2] = cs[3] /\ 1 + 2 <= Len(td2)
    BY <1>2, <1>3, <2>1
  <2>4. Below(td2, 1, p)
    BY <2>1 DEF Below
  <2>5. list # <<>> => \E g \in [0..Len(p) -> Entries] :
          /\ IsWay(fat, dat, g, p) /\ g[Len(p)] = td2[1+1].args[1]
          /\ td2[1+2].args[1] \in Reach(fat, g[Len(p)-1])
          /\ \A j \in 1..1-1, k \in 0..Len(p) : ~Takes(fat, dat, td2[j], g[k])
    <3>1. SUFFICES ASSUME list # <<>> PROVE \E g \in [0..Len(p) -> Entries] :
             /\ IsWay(fat, dat, g, p) /\ g[Len(p)] = td2[1+1].args[1]
             /\ td2[1+2].args[1] \in Reach(fat, g[Len(p)-1])
      BY <2>1
    <3>2. AtIn(dat, loc).dir
      BY <3>1 DEF IsList
    <3> QED BY <1>1, <1>2, <2>3, <3>2, TargetWay
  <2>6. \A l \in UsedIn(dat) : l.cluster \in Reach(fat, td2[1+1].args[1]) =>
          \/ \E k \in 1..Len(list) : k >= 1 /\ list[k].name = AtIn(dat, l).name
          \/ Covered(dat, td2, 1, p, l)
    BY <1>2, <2>3 DEF IsList
  <2>7. list \in Seq(Range(list)) /\ \A k \in 1..Len(list) : list[k].name \in Known \cup Unused \cup {"text"} /\ list[k].name # "kernel"
    BY DEF IsList
  <2>8. InsideOK(fat, dat, td2, 1)
    BY ONLY <1>2, <2>1, <2>2, <2>3, <2>4, <2>5, <2>6, <2>7 DEF InsideOK
  <2> QED BY <1>2, <1>3, <1>6, <2>8 DEF CallSound
<1>7. CASE m = 2
  <2>1. 2 + 1 = 3 /\ 2 > 1 /\ 2 - 1 = 1
    OBVIOUS
  <2>2. x \in Links /\ x # Root /\ \A y \in Entries : ~(fat[y] = x /\ x \in Entries)
    BY DEF Target, x
  <2>3. \A l \in UsedIn(dat) : AtIn(dat, l).cluster = x => Removes(td2[3], l)
    <3>1. SUFFICES ASSUME NEW l \in UsedIn(dat), AtIn(dat, l).cluster = x PROVE Removes(td2[3], l)
      OBVIOUS
    <3>2. l = loc
      BY <3>1 DEF Target, x
    <3> QED BY <1>2, <1>3, <1>5, <3>2 DEF Removes, img
  <2>4. td2[2].args[1] = x /\ td2[2+1] = td2[3] /\ td2[2-1].f = "delete_inside" /\ td2[2+1].f = "write_data" /\ 2 + 1 <= Len(td2)
    BY <1>2, <1>3, <2>1 DEF x
  <2>5. FreeOK(fat, dat, td2, 2)
    BY ONLY <2>1, <2>2, <2>3, <2>4 DEF FreeOK
  <2> QED BY <1>2, <1>3, <1>7, <2>5 DEF CallSound
<1>8. CASE m = 3
  <2>1. 3 - 1 = 2 /\ \A j \in 1..3-1 : j = 1 \/ j = 2
    OBVIOUS
  <2>2. td2[3].args[1] = loc.cluster /\ td2[3].args[2] = img /\ td2[3-1].f = "free_chain"
    BY <1>2, <1>3, <2>1 DEF img
  <2>3. \A j \in 1..3-1 : td2[j].f # "write_data"
    BY <1>2, <1>3, <2>1
  <2>4. WriteOK(fat, dat, td2, 3)
    BY ONLY <1>4, <1>5, <2>2, <2>3 DEF WriteOK
  <2> QED BY <1>2, <1>3, <1>8, <2>4 DEF CallSound
<1> QED BY <1>2, <1>6, <1>7, <1>8

\* delete_file finds its target.
LEMMA Deleted ==
  ASSUME NEW td, NEW rt, Good(fats[1], data, td, rt), NEW td2, NEW cs,
         Moves(td2, td, "delete_file", cs), NEW p, td[1].args[1] = p, NEW loc, loc = Find(p), loc # NotFound,
         NEW list, list = IF AtIn(data, loc).dir THEN ListOf(fats[1], data, AtIn(data, loc).cluster) ELSE <<>>,
         DeletesBy(data, loc, p, list, cs)
  PROVE  Good(fats[1], data, td2, rt)
<1>1. /\ 1 \in 1..Len(td) /\ td[1].f = "delete_file" /\ rt \in Entries \cup {0, 1} /\ DiskSound(fats[1], data)
      /\ Restacked(td2, td, cs) /\ Fewer(data, data) /\ Cuts(fats[1], fats[1]) /\ AllSound(fats[1], data, td, rt)
  BY MovesStack, GoodFacts, FewerSame, CutsSame
<1>2. ~Calm(td) /\ ~FatCall(td[1])
  BY <1>1 DEF Calm, FatCall
<1>3. p \in AllPaths /\ Last(p) # "kernel"
  BY <1>1 DEF AllSound, CallSound
<1>4. Target(fats[1], data, p, loc)
  BY <1>1, <1>3, TargetIs
<1>5. IsList(fats[1], data, loc, list)
  BY <1>1, <1>4, Listed
<1>6. /\ KeepsWays(fats[1], data, td, fats[1], data, cs) /\ HandsOn(fats[1], data, td, data, cs)
      /\ \A m \in 1..Len(cs) : CallSound(fats[1], data, td2, rt, m)
  BY <1>1, <1>4, <1>5, DeletesTaking, DeletesHanded, DeletesCalls
<1>7. Debts(fats[1], data, td2)
  BY <1>1, StillNoDebts
<1>8. /\ Len(cs) = 3 /\ Len(cs) \in 1..Len(cs) /\ cs[Len(cs)].f = "write_data" /\ \A j \in 1..Len(cs) : j = 1 \/ j = 2 \/ j = 3
      /\ cs[1].f = "delete_inside" /\ cs[1].args[1] = p /\ cs[2].f = "free_chain"
      /\ cs[3].f = "write_data" /\ cs[3].args[1] = loc.cluster
  BY DEF DeletesBy
<1>9. Deeper(td, cs)
  <2>1. Len(p) \in Nat
    BY <1>4 DEF Target
  <2> QED BY <1>1, <1>8, <2>1 DEF Deeper
<1>10. \A j \in 1..Len(cs), i \in 2..Len(td) : cs[j].f = "write_data" /\ td[i].f = "write_data" => cs[j].args[1] # td[i].args[1]
  BY <1>1, <1>4, <1>8, MarksApart
<1>11. \A y \in Entries : ~Sets(fats[1], td[1], y, 0)
  BY <1>1 DEF Sets
<1>12. FreeingStep(fats[1], data, td, fats[1], data, cs)
  BY ONLY <1>1, <1>2, <1>6, <1>8, <1>9, <1>10, <1>11 DEF FreeingStep
<1> QED BY <1>1, <1>6, <1>7, <1>12, FreeingGood

-----------------------------------------------------------------------------
(* create_file *)

\* Calls with only the rest of the command below.
LEMMA RestAbove ==
  ASSUME NEW td2, NEW td, NEW cs, Restacked(td2, td, cs), Rest(td, 1)
  PROVE  /\ Rest(td2, Len(cs)) /\ (Calm(cs) => Calm(td2)) /\ Len(td2) \in Nat /\ Len(cs) <= Len(td2)
         /\ \A i \in 1..Len(cs) : td2[i] = cs[i]
<1>1. Len(cs) \in Nat /\ Len(td2) \in Nat /\ Len(cs) <= Len(td2) /\ \A i \in 1..Len(cs) : td2[i] = cs[i]
  BY DEF Restacked
<1>2. Calm(cs) => Calm(td2)
  BY MovesRest
<1>3. \A j \in 1..Len(td2) : j > Len(cs) => td2[j].f \in {"write_to_file", "look"}
  BY MovesRest
<1>4. Rest(td2, Len(cs))
  BY <1>1, <1>3 DEF Rest
<1> QED BY <1>1, <1>2, <1>4

\* A path and its last name.
LEMMA PathParts ==
  ASSUME NEW p \in Paths
  PROVE  /\ p \in Seq(NamesOf) /\ p # <<>> /\ p \in AllPaths /\ Last(p) \in Names /\ Last(p) \in Known /\ Last(p) # "kernel"
         /\ Len(p) \in Nat \ {0} /\ Len(Front(p)) = Len(p) - 1 /\ Len(Front(p)) \in Nat
         /\ Front(p) \in Seq(NamesOf)
         /\ p = Append(Front(p), Last(p))
<1>1. p \in Seq(Names) /\ p \in Seq(NamesOf) /\ p # <<>> /\ Last(p) \in Names
  BY PathIsSeq
<1>2. p \in AllPaths /\ Last(p) \in Known /\ Last(p) # "kernel"
  BY <1>1, KnownFacts DEF AllPaths, NamesOf, Known
<1>3. /\ Len(p) \in Nat \ {0} /\ Front(p) \in Seq(NamesOf) /\ Len(Front(p)) = Len(p) - 1 /\ Len(Front(p)) \in Nat
      /\ \A i \in 1..Len(p)-1 : Front(p)[i] = p[i]
      /\ Last(p) = p[Len(p)] /\ Last(p) \in NamesOf
  BY <1>1, FrontIs
<1>4. p = Append(Front(p), Last(p))
  <2>1. /\ Append(Front(p), Last(p)) \in Seq(NamesOf) /\ Len(Append(Front(p), Last(p))) = Len(p)
        /\ \A i \in 1..Len(p)-1 : Append(Front(p), Last(p))[i] = p[i]
        /\ Append(Front(p), Last(p))[Len(p)] = p[Len(p)]
    <3>1. /\ Append(Front(p), Last(p)) \in Seq(NamesOf) /\ Len(Append(Front(p), Last(p))) = Len(Front(p)) + 1
          /\ \A i \in 1..Len(Front(p)) : Append(Front(p), Last(p))[i] = Front(p)[i]
          /\ Append(Front(p), Last(p))[Len(Front(p))+1] = Last(p)
      BY <1>3, AppendIs
    <3>2. Len(Front(p)) + 1 = Len(p)
      BY <1>3
    <3> QED BY <1>3, <3>1, <3>2
  <2>2. \A i \in 1..Len(p) : Append(Front(p), Last(p))[i] = p[i]
    <3>1. \A i \in 1..Len(p) : i \in 1..Len(p)-1 \/ i = Len(p)
      BY <1>3
    <3> QED BY <2>1, <3>1
  <2> QED BY <1>1, <2>1, <2>2
<1> QED BY <1>1, <1>2, <1>3, <1>4

\* create_file deletes what has the name first.
LEMMA Created ==
  ASSUME NEW td, NEW rt, Good(fats[1], data, td, rt), NEW td2, NEW cs,
         Moves(td2, td, "create_file", cs), NEW p, td[1].args[1] = p, NEW d, td[1].args[2] = d,
         \/ Find(p) = NotFound /\ IsOne(cs, CreateAt(p, d))
         \/ Find(p) # NotFound /\ IsTwo(cs, delete_file(p), CreateAt(p, d))
  PROVE  Good(fats[1], data, td2, rt)
<1>1. /\ 1 \in 1..Len(td) /\ td[1].f = "create_file" /\ rt \in Entries \cup {0, 1} /\ DiskSound(fats[1], data)
      /\ Restacked(td2, td, cs) /\ AllSound(fats[1], data, td, rt)
  BY MovesStack, GoodFacts
<1>2. Rest(td, 1) /\ p \in Paths /\ d \in BOOLEAN
  BY <1>1 DEF AllSound, CallSound
<1>3. /\ p \in Seq(NamesOf) /\ p # <<>> /\ p \in AllPaths /\ Last(p) \in Names /\ Last(p) # "kernel"
      /\ Len(p) \in Nat \ {0} /\ Len(Front(p)) = Len(p) - 1 /\ Len(Front(p)) \in Nat
      /\ p = Append(Front(p), Last(p))
  BY <1>2, PathParts
<1>4. /\ Rest(td2, Len(cs)) /\ Len(td2) \in Nat /\ Len(cs) <= Len(td2)
      /\ \A i \in 1..Len(cs) : td2[i] = cs[i]
  BY <1>1, <1>2, RestAbove
<1>5. CASE Find(p) = NotFound
  <2>1. Len(cs) = 1 /\ cs[1] = CreateAt(p, d)
    BY <1>5 DEF IsOne
  <2>2. 1 \in 1..Len(cs) /\ \A m \in 1..Len(cs) : m = 1
    BY <2>1
  <2>3. td2[1].f = "find_new" /\ td2[1].args[1] = p /\ td2[1].args[2] = d
    BY <1>4, <2>1, <2>2, CallsAre
  <2>4. \A j \in 1..1-1 : FALSE
    OBVIOUS
  <2>5. Below(td2, 1, Front(p))
    BY <2>4 DEF Below
  <2>6. \A g : IsWay(fats[1], data, g, Front(p)) =>
           \A l \in UsedIn(data) : l.cluster \in Reach(fats[1], g[Len(p)-1]) => AtIn(data, l).name # Last(p)
    BY <1>1, <1>3, <1>5, Finding DEF UsedIn
  <2>7. CreateAtOK(fats[1], data, td2, 1)
    BY ONLY <1>2, <1>4, <2>1, <2>3, <2>5, <2>6 DEF CreateAtOK
  <2>8. CallSound(fats[1], data, td2, rt, 1)
    BY <2>3, <2>7 DEF CallSound
  <2> QED BY <1>1, <1>2, <2>2, <2>8, RestStep
<1>6. CASE Find(p) # NotFound
  <2>1. Len(cs) = 2 /\ cs[1] = delete_file(p) /\ cs[2] = CreateAt(p, d)
    BY <1>6 DEF IsTwo
  <2>2. 1 \in 1..Len(cs) /\ 2 \in 1..Len(cs) /\ \A m \in 1..Len(cs) : m = 1 \/ m = 2
    BY <2>1
  <2>3. /\ td2[1].f = "delete_file" /\ td2[1].args[1] = p
        /\ td2[2].f = "find_new" /\ td2[2].args[1] = p /\ td2[2].args[2] = d
    BY <1>4, <2>1, <2>2, CallsAre
  <2>4. 2 > 1 /\ 2 - 1 = 1 /\ \A j \in 1..2-1 : j = 1
    OBVIOUS
  <2>5. Below(td2, 2, Front(p))
    BY <1>3, <2>3, <2>4 DEF Below
  <2>6. \A l \in UsedIn(data) : AtIn(data, l).name = Last(p) => Covered(data, td2, 2, Front(p), l)
    <3>1. td2[2-1].f = "delete_file" /\ td2[2-1].args[1] = Append(Front(p), Last(p))
      BY <1>3, <2>3, <2>4
    <3> QED BY <2>4, <3>1 DEF Covered
  <2>7. CreateAtOK(fats[1], data, td2, 2)
    BY ONLY <1>2, <1>4, <2>1, <2>3, <2>5, <2>6 DEF CreateAtOK
  <2>8. CallSound(fats[1], data, td2, rt, 1)
    BY <1>3, <2>3 DEF CallSound
  <2>9. CallSound(fats[1], data, td2, rt, 2)
    BY <2>3, <2>7 DEF CallSound
  <2> QED BY <1>1, <1>2, <2>2, <2>8, <2>9, RestStep
<1> QED BY <1>5, <1>6

\* The place of the new entry, or a longer directory.
LEMMA NewPlace ==
  ASSUME NEW td, NEW rt, Good(fats[1], data, td, rt), NEW td2, NEW cs,
         Moves(td2, td, "find_new", cs), NEW p, td[1].args[1] = p, NEW d, td[1].args[2] = d,
         NEW c, c = file_path_destination(Front(p)),
         \/ c = -1 /\ IsNone(cs)
         \/ c # -1 /\ UnusedAt(c) # NotFound /\ IsOne(cs, PlaceAt(UnusedAt(c), p, d))
         \/ c # -1 /\ IsTwo(cs, extend_file(c), PlaceInNew(p, d))
  PROVE  Good(fats[1], data, td2, rt)
<1>1. /\ 1 \in 1..Len(td) /\ td[1].f = "find_new" /\ rt \in Entries \cup {0, 1} /\ DiskSound(fats[1], data)
      /\ Restacked(td2, td, cs) /\ AllSound(fats[1], data, td, rt)
  BY MovesStack, GoodFacts
<1>2. CreateAtOK(fats[1], data, td, 1)
  BY <1>1 DEF AllSound, CallSound
<1>3. /\ Rest(td, 1) /\ p \in Paths /\ d \in BOOLEAN
      /\ \A g \in [0..Len(p)-1 -> Entries] : IsWay(fats[1], data, g, Front(p)) =>
           \A l \in UsedIn(data) : l.cluster \in Reach(fats[1], g[Len(p)-1]) => AtIn(data, l).name # Last(p)
  <2>1. \A q, l : ~Covered(data, td, 1, q, l)
    BY DEF Covered
  <2> QED BY <1>2, <2>1 DEF CreateAtOK
<1>4. /\ Last(p) \in Names /\ Len(p) \in Nat \ {0} /\ Len(Front(p)) = Len(p) - 1 /\ Len(Front(p)) \in Nat
      /\ Front(p) \in Seq(NamesOf)
  BY <1>3, PathParts
<1>5. /\ Rest(td2, Len(cs)) /\ Len(td2) \in Nat /\ Len(cs) <= Len(td2) /\ (Calm(cs) => Calm(td2))
      /\ \A i \in 1..Len(cs) : td2[i] = cs[i]
  BY <1>1, <1>3, RestAbove
<1>6. CASE c = -1
  <2>1. Len(cs) = 0
    BY <1>6 DEF IsNone
  <2>2. \A m \in 1..Len(cs) : FALSE
    BY <2>1
  <2> QED BY <1>1, <1>3, <2>2, RestStep
<1>7. CASE c # -1
  <2>1. PICK g : IsWay(fats[1], data, g, Front(p))
    BY <1>1, <1>4, <1>7, Destination
  <2>2. c = g[Len(Front(p))]
    BY <1>1, <1>4, <2>1, Destination
  <2>3. Len(Front(p)) \in 0..Len(Front(p))
    BY <1>4
  <2>4. c \in Entries /\ DirHead(data, c)
    BY <1>1, <1>4, <2>1, <2>2, <2>3, WayHeads
  <2>5. NoName(fats[1], data, c, Last(p))
    <3>1. g \in [0..Len(p)-1 -> Entries] /\ c = g[Len(p)-1]
      BY <1>4, <2>1, <2>2 DEF IsWay
    <3> QED BY <1>3, <2>1, <3>1 DEF NoName
  <2>6. CASE UnusedAt(c) # NotFound /\ IsOne(cs, PlaceAt(UnusedAt(c), p, d))
    <3> DEFINE loc == UnusedAt(c)
    <3>1. loc \in Places /\ loc.cluster \in Reach(fats[1], c) /\ AtIn(data, loc).name \in Unused
      BY <1>1, <2>4, <2>6, SoundFacts, UnusedPlace
    <3> HIDE DEF loc
    <3>2. ~InUse(AtIn(data, loc))
      BY <3>1, KnownFacts DEF InUse, Unused
    <3>3. InDir(fats[1], data, loc.cluster, Last(p))
      BY <2>4, <2>5, <3>1 DEF InDir
    <3>4. Len(cs) = 1 /\ cs[1] = PlaceAt(loc, p, d)
      BY <2>6 DEF IsOne, loc
    <3>5. 1 \in 1..Len(cs) /\ \A m \in 1..Len(cs) : m = 1
      BY <3>4
    <3>6. cs[1].f = "new_entry" /\ cs[1].args[1] = loc /\ cs[1].args[2] = p /\ cs[1].args[3] = d /\ td2[1] = cs[1]
      BY <1>5, <3>4, <3>5, CallsAre
    <3>7. Calm(td2)
      <4>1. Calm(cs)
        BY <3>5, <3>6 DEF Calm
      <4> QED BY <1>5, <4>1
    <3>8. PlaceOK(fats[1], data, td2, 1)
      BY <1>3, <1>5, <3>1, <3>2, <3>3, <3>4, <3>6, <3>7 DEF PlaceOK
    <3>9. CallSound(fats[1], data, td2, rt, 1)
      BY <3>6, <3>8 DEF CallSound
    <3> QED BY <1>1, <1>3, <3>5, <3>9, RestStep
  <2>7. CASE IsTwo(cs, extend_file(c), PlaceInNew(p, d))
    <3>1. Len(cs) = 2 /\ cs[1] = extend_file(c) /\ cs[2] = PlaceInNew(p, d)
      BY <2>7 DEF IsTwo
    <3>2. 1 \in 1..Len(cs) /\ 2 \in 1..Len(cs) /\ \A m \in 1..Len(cs) : m = 1 \/ m = 2
      BY <3>1
    <3>3. /\ td2[1] = cs[1] /\ td2[2] = cs[2] /\ cs[1].f = "extend_file" /\ cs[1].args[1] = c
          /\ cs[2].f = "entry_in_new" /\ cs[2].args[1] = p /\ cs[2].args[2] = d
      BY <1>5, <3>1, <3>2, CallsAre
    <3>4. Calm(td2)
      <4>1. Calm(cs)
        BY <3>2, <3>3 DEF Calm
      <4> QED BY <1>5, <4>1
    <3>5. Rest(td2, 2) /\ 2 <= Len(td2)
      BY <1>5, <3>1
    <3>6. CallSound(fats[1], data, td2, rt, 1)
      BY <2>4, <3>3, <3>4, <3>5 DEF CallSound, Links
    <3>7. InNewOK(fats[1], data, td2, rt, 2)
      BY <1>3, <2>4, <2>5, <3>3, <3>4, <3>5 DEF InNewOK
    <3>8. CallSound(fats[1], data, td2, rt, 2)
      BY <3>3, <3>7 DEF CallSound
    <3> QED BY <1>1, <1>3, <3>2, <3>6, <3>8, RestStep
  <2> QED BY <1>7, <2>6, <2>7
<1> QED BY <1>6, <1>7

-----------------------------------------------------------------------------
(* The new entry *)

\* The cluster that was added to the directory takes the entry.
LEMMA NewTaken ==
  ASSUME NEW fat, NEW dat, NEW td, NEW rt, Good(fat, dat, td, rt), NEW td2, NEW cs,
         Moves(td2, td, "entry_in_new", cs), NEW p, td[1].args[1] = p, NEW d, td[1].args[2] = d,
         \/ rt = 1 /\ IsNone(cs)
         \/ rt # 1 /\ IsOne(cs, PlaceAt([cluster |-> rt, slot |-> 1], p, d))
  PROVE  Good(fat, dat, td2, rt)
<1>1. /\ 1 \in 1..Len(td) /\ td[1].f = "entry_in_new" /\ rt \in Entries \cup {0, 1} /\ DiskSound(fat, dat)
      /\ Restacked(td2, td, cs) /\ AllSound(fat, dat, td, rt)
  BY MovesStack, GoodFacts
<1>2. InNewOK(fat, dat, td, rt, 1)
  BY <1>1 DEF AllSound, CallSound
<1>3. /\ Rest(td, 1) /\ p \in Paths /\ d \in BOOLEAN
      /\ rt # 1 => InDir(fat, dat, rt, Last(p)) /\ \A l \in UsedIn(dat) : l.cluster # rt
  BY <1>2 DEF InNewOK
<1>4. /\ Rest(td2, Len(cs)) /\ (Calm(cs) => Calm(td2))
      /\ \A i \in 1..Len(cs) : td2[i] = cs[i]
  BY <1>1, <1>3, RestAbove
<1>5. CASE rt = 1
  <2>1. Len(cs) = 0
    BY <1>5 DEF IsNone
  <2>2. \A m \in 1..Len(cs) : FALSE
    BY <2>1
  <2> QED BY <1>1, <1>3, <2>2, RestStep
<1>6. CASE rt # 1
  <2> DEFINE loc == [cluster |-> rt, slot |-> 1]
  <2>1. Len(cs) = 1 /\ cs[1] = PlaceAt(loc, p, d)
    BY <1>6 DEF IsOne
  <2>2. rt \in Entries
    <3>1. PICK v \in Entries : rt \in Reach(fat, v)
      BY <1>3, <1>6 DEF InDir
    <3> QED BY <1>1, <3>1, SoundFacts, ReachWithin
  <2>3. loc \in Places /\ loc.cluster = rt
    BY <2>2, FatAssumption DEF Places
  <2> HIDE DEF loc
  <2>4. ~InUse(AtIn(dat, loc))
    BY <1>3, <1>6, <2>3 DEF UsedIn
  <2>5. 1 \in 1..Len(cs) /\ \A m \in 1..Len(cs) : m = 1
    BY <2>1
  <2>6. cs[1].f = "new_entry" /\ cs[1].args[1] = loc /\ cs[1].args[2] = p /\ cs[1].args[3] = d /\ td2[1] = cs[1]
    BY <1>4, <2>1, <2>5, CallsAre
  <2>7. Calm(td2)
    <3>1. Calm(cs)
      BY <2>5, <2>6 DEF Calm
    <3> QED BY <1>4, <3>1
  <2>8. PlaceOK(fat, dat, td2, 1)
    BY <1>3, <1>4, <1>6, <2>1, <2>3, <2>4, <2>6, <2>7 DEF PlaceOK
  <2>9. CallSound(fat, dat, td2, rt, 1)
    BY <2>6, <2>8 DEF CallSound
  <2> QED BY <1>1, <1>3, <2>5, <2>9, RestStep
<1> QED BY <1>5, <1>6

\* A cluster that is free is nobody's when there are no debts.
LEMMA FreeUnclaimed ==
  ASSUME NEW fat, NEW dat, NEW td, NEW rt, Good(fat, dat, td, rt),
         td[1].f \notin {"write_fat", "modify_fat", "free_chain", "write_data"},
         NEW new \in Entries, fat[new] = 0
  PROVE  Unclaimed(fat, dat, new)
<1>1. DiskSound(fat, dat) /\ Debts(fat, dat, td)
  BY GoodFacts
<1>2. /\ HeadsSound(fat, dat) /\ fat[Root] # 0
      /\ \A c \in Entries : fat[c] \in Entries => fat[fat[c]] # 0
  BY <1>1, SoundFacts, FatIsChained
<1>3. \A l \in UsedIn(dat) : fat[AtIn(dat, l).cluster] # 0
  BY <1>1, NoDebts
<1>4. \A l \in UsedIn(dat) : fat[l.cluster] # 0
  BY <1>2, HeadFacts
<1> QED BY <1>2, <1>3, <1>4 DEF Unclaimed

\* The clusters of a directory are in use.
LEMMA DirTaken ==
  ASSUME NEW fat, NEW dat, NEW td, NEW rt, Good(fat, dat, td, rt),
         td[1].f \notin {"write_fat", "modify_fat", "free_chain", "write_data"},
         NEW x, NEW n, InDir(fat, dat, x, n)
  PROVE  x \in Entries /\ fat[x] # 0
<1>1. DiskSound(fat, dat) /\ Debts(fat, dat, td)
  BY GoodFacts
<1>2. /\ fat[Root] # 0 /\ Chained(fat)
      /\ \A c \in Entries : fat[c] \in Entries => fat[fat[c]] # 0
  BY <1>1, SoundFacts, FatIsChained
<1>3. \A l \in UsedIn(dat) : fat[AtIn(dat, l).cluster] # 0
  BY <1>1, NoDebts
<1>4. PICK v \in Entries : DirHead(dat, v) /\ x \in Reach(fat, v)
  BY DEF InDir
<1>5. x \in Entries
  BY <1>2, <1>4, ReachWithin
<1>6. CASE x = v
  BY <1>2, <1>3, <1>4, <1>5, <1>6 DEF DirHead
<1>7. CASE x # v
  <2>1. PICK e \in Reach(fat, v) : fat[e] = x
    BY <1>2, <1>4, <1>7, ReachPred
  <2>2. e \in Entries
    BY <1>2, <1>4, ReachWithin
  <2> QED BY <1>2, <1>5, <2>1, <2>2
<1> QED BY <1>5, <1>6, <1>7

\* A cleared cluster holds no entry in use.
LEMMA ZeroIs ==
  Zero \in Rows /\ RowFrom(Zero) = Zero /\ TextIsText(Zero) /\ \A s \in 1..Slots : ~InUse(Zero[s])
<1>1. Blank \in [name : Names \cup Unused \cup {"kernel", "text"}, dir : BOOLEAN, cluster : Links]
  BY DEF Blank, Entry, Unused, Links
<1>2. Zero \in Rows
  BY <1>1 DEF Zero, Rows
<1>3. RowFrom(Zero) = Zero
  BY <1>2, TextAssumption DEF RowFrom
<1>4. \A s \in 1..Slots : Zero[s].name = "0x00"
  BY DEF Zero, Blank, Entry
<1> QED BY <1>2, <1>3, <1>4, KnownFacts DEF TextIsText, InUse

WithIn(dat, loc, p, d, new) == [RowFrom(dat[loc.cluster]) EXCEPT ![loc.slot] = Entry(Last(p), d, new)]

\* The sector with the new entry.
LEMMA WithIs ==
  ASSUME NEW fat, NEW dat, DiskSound(fat, dat), NEW loc \in Places, ~InUse(AtIn(dat, loc)),
         NEW p, Last(p) \in Names, NEW d \in BOOLEAN, NEW new \in Entries,
         NEW img, img = WithIn(dat, loc, p, d, new)
  PROVE  /\ img \in Rows /\ TextIsText(RowFrom(img))
         /\ (loc.cluster = Root /\ Kernel) => RowFrom(img)[1].name = "kernel"
<1> DEFINE row == RowFrom(dat[loc.cluster])
<1>1. RowsSound(dat) /\ NamesSound(fat, dat) /\ loc.cluster \in Entries /\ loc.slot \in 1..Slots
      /\ loc = [cluster |-> loc.cluster, slot |-> loc.slot]
  BY SoundFacts, PlaceIs
<1>2. row \in Rows /\ TextIsText(row)
  BY <1>1, RowIs DEF RowsSound
<1>3. AtIn(dat, loc) = row[loc.slot]
  BY DEF AtIn
<1> HIDE DEF row
<1>4. Entry(Last(p), d, new) \in [name : Names \cup Unused \cup {"kernel", "text"}, dir : BOOLEAN, cluster : Links]
      /\ Entry(Last(p), d, new).name = Last(p)
  BY DEF Entry, Links
<1>5. img = [row EXCEPT ![loc.slot] = Entry(Last(p), d, new)]
  BY DEF WithIn, row
<1>6. img \in Rows
  BY <1>2, <1>4, <1>5 DEF Rows
<1>7. RowFrom(img) = img
  BY <1>6, TextAssumption DEF RowFrom
<1>8. \A s \in 1..Slots : img[s] = IF s = loc.slot THEN Entry(Last(p), d, new) ELSE row[s]
  BY <1>2, <1>5 DEF Rows
<1>9. Last(p) # "text"
  BY KnownFacts DEF Known
<1>10. TextIsText(img)
  BY <1>2, <1>4, <1>8, <1>9 DEF TextIsText
<1>11. ASSUME loc.cluster = Root, Kernel PROVE img[1].name = "kernel"
  <2>1. AtIn(dat, [cluster |-> Root, slot |-> 1]).name = "kernel"
    BY <1>1, <1>11 DEF NamesSound
  <2>2. loc.slot # 1
    BY <1>1, <1>11, <2>1, KnownFacts DEF InUse
  <2>3. 1 \in 1..Slots
    BY FatAssumption
  <2>4. AtIn(dat, [cluster |-> Root, slot |-> 1]) = row[1]
    BY <1>11 DEF AtIn, row
  <2> QED BY <1>8, <2>1, <2>2, <2>3, <2>4
<1> QED BY <1>6, <1>7, <1>10, <1>11

\* The cluster is cleared, the entry written, the cluster marked.
LEMMA EntryMade ==
  ASSUME NEW fat, NEW dat, NEW td, NEW rt, Good(fat, dat, td, rt), NEW td2, NEW cs,
         Moves(td2, td, "new_entry", cs), NEW loc, td[1].args[1] = loc,
         NEW p, td[1].args[2] = p, NEW d, td[1].args[3] = d, NEW new \in Entries, fat[new] = 0,
         IsThree(cs, WriteData(new, Zero), WriteData(loc.cluster, WithIn(dat, loc, p, d, new)), modify_fat(new, EOC))
  PROVE  Good(fat, dat, td2, rt)
<1>1. /\ 1 \in 1..Len(td) /\ td[1].f = "new_entry" /\ rt \in Entries \cup {0, 1} /\ DiskSound(fat, dat)
      /\ Restacked(td2, td, cs) /\ AllSound(fat, dat, td, rt)
  BY MovesStack, GoodFacts
<1>2. PlaceOK(fat, dat, td, 1)
  BY <1>1 DEF AllSound, CallSound
<1>3. /\ Rest(td, 1) /\ p \in Paths /\ d \in BOOLEAN /\ loc \in Places
      /\ InDir(fat, dat, loc.cluster, Last(p)) /\ ~InUse(AtIn(dat, loc))
  BY <1>2 DEF PlaceOK
<1>4. /\ Rest(td2, Len(cs)) /\ (Calm(cs) => Calm(td2)) /\ Len(td2) \in Nat /\ Len(cs) <= Len(td2)
      /\ \A i \in 1..Len(cs) : td2[i] = cs[i]
  BY <1>1, <1>3, RestAbove
<1>5. Unclaimed(fat, dat, new) /\ fat[loc.cluster] # 0 /\ Last(p) \in Names
  BY <1>1, <1>3, FreeUnclaimed, DirTaken, PathParts
<1> DEFINE img == WithIn(dat, loc, p, d, new)
<1>6. img \in Rows /\ TextIsText(RowFrom(img)) /\ ((loc.cluster = Root /\ Kernel) => RowFrom(img)[1].name = "kernel")
  BY <1>1, <1>3, <1>5, WithIs
<1>7. img = [RowFrom(dat[loc.cluster]) EXCEPT ![loc.slot] = Entry(Last(p), d, new)]
  BY DEF WithIn
<1>8. Len(cs) = 3 /\ cs[1] = WriteData(new, Zero) /\ cs[2] = WriteData(loc.cluster, img) /\ cs[3] = modify_fat(new, EOC)
  BY DEF IsThree
<1> HIDE DEF img
<1>9. 1 \in 1..Len(cs) /\ 2 \in 1..Len(cs) /\ 3 \in 1..Len(cs) /\ \A m \in 1..Len(cs) : m = 1 \/ m = 2 \/ m = 3
  BY <1>8
<1>10. /\ td2[1] = cs[1] /\ td2[1].f = "write_data" /\ td2[1].args[1] = new /\ td2[1].args[2] = Zero
       /\ td2[2] = cs[2] /\ td2[2].f = "write_data" /\ td2[2].args[1] = loc.cluster /\ td2[2].args[2] = img
       /\ td2[3] = cs[3] /\ td2[3].f = "modify_fat" /\ td2[3].args[1] = new /\ td2[3].args[2] = EOC
       /\ td2[3] = modify_fat(new, EOC)
  BY <1>4, <1>8, <1>9, CallsAre
<1>11. Calm(td2)
  <2>1. Calm(cs)
    BY <1>9, <1>10 DEF Calm
  <2> QED BY <1>4, <2>1
<1>12. CallSound(fat, dat, td2, rt, 1)
  <2>1. \A j \in 1..1-1 : FALSE
    OBVIOUS
  <2>2. new # Root /\ \A l \in UsedIn(dat) : l.cluster # new
    BY <1>5 DEF Unclaimed
  <2>3. Thins(dat, new, Zero)
    BY ZeroIs DEF Thins
  <2>4. WriteOK(fat, dat, td2, 1)
    BY <1>10, <1>11, <2>1, <2>2, <2>3, ZeroIs DEF WriteOK
  <2> QED BY <1>10, <2>4 DEF CallSound
<1>13. CallSound(fat, dat, td2, rt, 2)
  <2>1. 2 + 1 = 3 /\ (\A j \in 1..2-1 : j = 1) /\ 3 <= Len(td2)
    BY <1>4, <1>8
  <2>2. loc.slot \in 1..Slots /\ loc = [cluster |-> loc.cluster, slot |-> loc.slot]
    BY <1>3, PlaceIs
  <2>3. Rest(td2, 2+1)
    BY <1>4, <1>8, <2>1
  <2>4. Adds(fat, dat, td2, 2, loc.cluster, img)
    <3>1. /\ ~InUse(AtIn(dat, [cluster |-> loc.cluster, slot |-> loc.slot]))
          /\ img = [RowFrom(dat[loc.cluster]) EXCEPT ![loc.slot] = Entry(Last(p), d, new)]
          /\ fat[new] = 0 /\ Unclaimed(fat, dat, new)
          /\ fat[loc.cluster] # 0 /\ InDir(fat, dat, loc.cluster, Last(p))
          /\ 2 + 1 <= Len(td2) /\ td2[2+1] = modify_fat(new, EOC)
          /\ Calm(td2) /\ Rest(td2, 2+1)
          /\ \A j \in 1..2-1 : td2[j].f = "write_data"
      BY <1>3, <1>5, <1>7, <1>10, <1>11, <2>1, <2>2, <2>3
    <3> QED BY <1>3, <1>5, <2>2, <3>1 DEF Adds
  <2>5. new # loc.cluster
    BY <1>5
  <2>6. \A j \in 1..2-1 : td2[j].f = "write_data" => td2[j].args[1] # loc.cluster
    BY <1>10, <2>1, <2>5
  <2>7. WriteOK(fat, dat, td2, 2)
    BY <1>6, <1>10, <2>4, <2>6 DEF WriteOK
  <2> QED BY <1>10, <2>7 DEF CallSound
<1>14. CallSound(fat, dat, td2, rt, 3)
  <2>1. EndOK(fat, td2, new)
    BY <1>11, TypeFacts DEF EndOK
  <2>2. EOC # 0 /\ EOC \notin Entries /\ EOC \in Links
    BY RootFacts
  <2>3. ChangeOK(fat, dat, td2, 3, new, EOC)
    BY <2>1, <2>2 DEF ChangeOK
  <2>4. ModifyOK(fat, dat, td2, 3)
    BY <1>10, <2>2, <2>3 DEF ModifyOK
  <2> QED BY <1>10, <2>4 DEF CallSound
<1> QED BY <1>1, <1>3, <1>9, <1>12, <1>13, <1>14, RestStep

\* The disk is full.
LEMMA EntryNotMade ==
  ASSUME NEW fat, NEW dat, NEW td, NEW rt, Good(fat, dat, td, rt), NEW td2, NEW cs,
         Moves(td2, td, "new_entry", cs), IsNone(cs)
  PROVE  Good(fat, dat, td2, rt)
<1>1. /\ 1 \in 1..Len(td) /\ td[1].f = "new_entry" /\ rt \in Entries \cup {0, 1} /\ AllSound(fat, dat, td, rt)
  BY MovesStack, GoodFacts
<1>2. Rest(td, 1)
  BY <1>1 DEF AllSound, CallSound, PlaceOK
<1>3. Len(cs) = 0
  BY DEF IsNone
<1>4. \A m \in 1..Len(cs) : FALSE
  BY <1>3
<1> QED BY <1>1, <1>2, <1>4, RestStep

-----------------------------------------------------------------------------
(* write_to_file *)

\* What goes on as one or two calls that wait for the rest of the command only.
LEMMA OneCall ==
  ASSUME NEW td2, NEW td, NEW cs, Restacked(td2, td, cs), Rest(td, 1), NEW a, IsOne(cs, a),
         a.f \notin {"delete_file", "delete_inside", "free_chain", "create_file", "find_new"}
  PROVE  /\ td2[1] = a /\ Calm(td2) /\ Rest(td2, 1) /\ 1 \in 1..Len(cs) /\ \A m \in 1..Len(cs) : m = 1
<1>1. Len(cs) = 1 /\ cs[1] = a
  BY DEF IsOne
<1>2. 1 \in 1..Len(cs) /\ \A m \in 1..Len(cs) : m = 1
  BY <1>1
<1>3. Calm(cs)
  BY <1>1, <1>2 DEF Calm
<1> QED BY <1>1, <1>2, <1>3, RestAbove

\* And two such calls.
LEMMA TwoCalls ==
  ASSUME NEW td2, NEW td, NEW cs, Restacked(td2, td, cs), Rest(td, 1), NEW a, NEW b, IsTwo(cs, a, b),
         a.f \notin {"delete_file", "delete_inside", "free_chain", "create_file", "find_new"},
         b.f \notin {"delete_file", "delete_inside", "free_chain", "create_file", "find_new"}
  PROVE  /\ td2[1] = a /\ td2[2] = b /\ Calm(td2) /\ Rest(td2, 2) /\ 2 <= Len(td2) /\ Len(td2) \in Nat
         /\ 1 \in 1..Len(cs) /\ 2 \in 1..Len(cs) /\ \A m \in 1..Len(cs) : m = 1 \/ m = 2
<1>1. Len(cs) = 2 /\ cs[1] = a /\ cs[2] = b
  BY DEF IsTwo
<1>2. 1 \in 1..Len(cs) /\ 2 \in 1..Len(cs) /\ \A m \in 1..Len(cs) : m = 1 \/ m = 2
  BY <1>1
<1>3. Calm(cs)
  BY <1>1, <1>2 DEF Calm
<1>4. Rest(td2, Len(cs)) /\ (Calm(cs) => Calm(td2)) /\ Len(td2) \in Nat /\ Len(cs) <= Len(td2)
      /\ \A i \in 1..Len(cs) : td2[i] = cs[i]
  BY RestAbove
<1> QED BY <1>1, <1>2, <1>3, <1>4

\* No call at all.
LEMMA NoCalls ==
  ASSUME NEW cs, IsNone(cs) PROVE \A m \in 1..Len(cs) : FALSE
<1>1. Len(cs) = 0
  BY DEF IsNone
<1> QED BY <1>1

\* A piece of text reads as entries that are not in use.
LEMMA TextIs ==
  ASSUME NEW t \in Texts
  PROVE  /\ t \in Seq(Pieces) /\ Len(t) \in Nat
         /\ \A i \in 1..Len(t) : /\ t[i] \in Pieces
                                 /\ \A s \in 1..Slots : RowFrom(t[i])[s] = TextEntry
<1>1. t \in Seq(Pieces) /\ Len(t) \in Nat /\ \A i \in 1..Len(t) : t[i] \in Pieces
  BY TextAssumption
<1> QED BY <1>1 DEF RowFrom

\* The text goes to the file that was found.
LEMMA FillSound ==
  ASSUME NEW fat, NEW dat, NEW td, NEW rt, NEW i, td[i].f = "fill", Rest(td, i), Calm(td),
         td[i].args[1] \in (Links \cup {-1}) \ {Root}, td[i].args[2] \in Nat \ {0}, td[i].args[3] \in Texts
  PROVE  CallSound(fat, dat, td, rt, i)
BY DEF CallSound

\* The chain grows first.
LEMMA ExtendSound ==
  ASSUME NEW fat, NEW dat, NEW td, NEW rt, td[1].f = "extend_file", Rest(td, 2), Calm(td), 2 <= Len(td),
         td[1].args[1] \in Links \cup {1}, td[2].f = "grow",
         td[2].args[1] \in Nat, td[2].args[2] \in Texts, td[2].args[3] \in Links \ {Root}
  PROVE  CallSound(fat, dat, td, rt, 1) /\ CallSound(fat, dat, td, rt, 2)
BY DEF CallSound

\* write_to_file: the chain is cut, grows or fits.
LEMMA TextToWrite ==
  ASSUME NEW td, NEW rt, Good(fats[1], data, td, rt), NEW td2, NEW cs,
         Moves(td2, td, "write_to_file", cs), NEW p, td[1].args[1] = p, NEW t, td[1].args[2] = t,
         NEW start, start = AtIn(data, Find(p)).cluster, NEW size, size = Len(Chain(start)),
         \/ Find(p) = NotFound /\ IsNone(cs)
         \/ Find(p) # NotFound /\ IsTwo(cs, modify_fat(LastOf(start), EOC), Fill(start, 1, t))
         \/ Find(p) # NotFound /\ size < Len(t) /\ IsTwo(cs, extend_file(start), Grow(Len(t) - size - 1, t, start))
         \/ Find(p) # NotFound /\ IsOne(cs, Fill(start, 1, t))
  PROVE  Good(fats[1], data, td2, rt)
<1>1. /\ 1 \in 1..Len(td) /\ td[1].f = "write_to_file" /\ rt \in Entries \cup {0, 1} /\ DiskSound(fats[1], data)
      /\ Restacked(td2, td, cs) /\ AllSound(fats[1], data, td, rt)
  BY MovesStack, GoodFacts
<1>2. Rest(td, 1) /\ p \in Paths /\ t \in Texts
  BY <1>1 DEF AllSound, CallSound
<1>3. CASE Find(p) = NotFound /\ IsNone(cs)
  BY <1>1, <1>2, <1>3, NoCalls, RestStep
<1>4. CASE Find(p) # NotFound
  <2>1. p \in AllPaths /\ Last(p) # "kernel"
    BY <1>2, PathParts
  <2>2. start \in Links \ {Root}
    BY <1>1, <1>4, <2>1, TargetIs DEF Target
  <2>3. Fill(start, 1, t).f = "fill" /\ Fill(start, 1, t).args[1] = start /\ Fill(start, 1, t).args[2] = 1 /\ Fill(start, 1, t).args[3] = t
    BY CallsAre
  <2>4. CASE IsOne(cs, Fill(start, 1, t))
    <3>1. td2[1] = Fill(start, 1, t) /\ Calm(td2) /\ Rest(td2, 1) /\ \A m \in 1..Len(cs) : m = 1
      BY <1>1, <1>2, <2>3, <2>4, OneCall
    <3>2. CallSound(fats[1], data, td2, rt, 1)
      BY <1>2, <2>2, <2>3, <3>1, FillSound
    <3> QED BY <1>1, <1>2, <3>1, <3>2, RestStep
  <2>5. CASE IsTwo(cs, modify_fat(LastOf(start), EOC), Fill(start, 1, t))
    <3> DEFINE c == LastOf(start)
    <3>1. modify_fat(c, EOC).f = "modify_fat" /\ modify_fat(c, EOC).args[1] = c /\ modify_fat(c, EOC).args[2] = EOC
      BY CallsAre
    <3>2. c \in Entries \cup {0} /\ (c \in Entries => fats[1][c] \notin Entries)
      <4>1. CASE InChain(start)
        <5>1. start \in Entries
          BY <2>2, <4>1, ChainOrNone
        <5>2. Chained(fats[1])
          BY <1>1, SoundFacts
        <5>3. c = Last(ChainIn(fats[1], start))
          BY <4>1 DEF LastOf, Chain
        <5>4. c \in Reach(fats[1], start) /\ fats[1][c] \notin Entries
          BY <5>1, <5>2, <5>3, ReachLast
        <5> QED BY <5>1, <5>2, <5>4, ReachWithin
      <4>2. CASE ~InChain(start)
        BY <4>2, RootFacts DEF LastOf
      <4> QED BY <4>1, <4>2
    <3> HIDE DEF c
    <3>3. td2[1] = modify_fat(c, EOC) /\ td2[2] = Fill(start, 1, t) /\ Calm(td2) /\ Rest(td2, 2) /\ \A m \in 1..Len(cs) : m = 1 \/ m = 2
      BY <1>1, <1>2, <2>3, <2>5, <3>1, TwoCalls DEF c
    <3>4. CallSound(fats[1], data, td2, rt, 2)
      BY <1>2, <2>2, <2>3, <3>3, FillSound
    <3>5. CallSound(fats[1], data, td2, rt, 1)
      <4>1. EOC # 0 /\ EOC \notin Entries /\ EOC \in Links
        BY RootFacts
      <4>2. ChangeOK(fats[1], data, td2, 1, c, EOC)
        BY <3>2, <3>3, <4>1 DEF ChangeOK, EndOK
      <4>3. ModifyOK(fats[1], data, td2, 1)
        BY <3>1, <3>2, <3>3, <4>1, <4>2 DEF ModifyOK
      <4> QED BY <3>1, <3>3, <4>3 DEF CallSound
    <3> QED BY <1>1, <1>2, <3>3, <3>4, <3>5, RestStep
  <2>6. CASE size < Len(t) /\ IsTwo(cs, extend_file(start), Grow(Len(t) - size - 1, t, start))
    <3> DEFINE n == Len(t) - size - 1
    <3>1. n \in Nat
      <4>1. Chained(fats[1])
        BY <1>1, SoundFacts
      <4>2. size \in Nat
        <5>1. CASE start \in Entries
          BY <4>1, <5>1, ChainShape DEF Chained, Shape, Chain
        <5>2. CASE start \notin Entries
          <6>1. Chain(start) = <<>>
            BY <2>2, <4>1, <5>2, ReachNone DEF Chain
          <6> QED BY <6>1
        <5> QED BY <5>1, <5>2
      <4>3. Len(t) \in Nat
        BY <1>2, TextIs
      <4> QED BY <2>6, <4>2, <4>3
    <3>11. IsTwo(cs, extend_file(start), Grow(n, t, start))
      BY <2>6
    <3> HIDE DEF n
    <3>2. /\ extend_file(start).f = "extend_file" /\ extend_file(start).args[1] = start
          /\ Grow(n, t, start).f = "grow" /\ Grow(n, t, start).args[1] = n /\ Grow(n, t, start).args[2] = t
          /\ Grow(n, t, start).args[3] = start
      BY CallsAre
    <3>3. /\ td2[1] = extend_file(start) /\ td2[2] = Grow(n, t, start) /\ Calm(td2) /\ Rest(td2, 2) /\ 2 <= Len(td2)
          /\ \A m \in 1..Len(cs) : m = 1 \/ m = 2
      BY <1>1, <1>2, <3>11, <3>2, TwoCalls
    <3>4. CallSound(fats[1], data, td2, rt, 1) /\ CallSound(fats[1], data, td2, rt, 2)
      BY <1>2, <2>2, <3>1, <3>2, <3>3, ExtendSound
    <3> QED BY <1>1, <1>2, <3>3, <3>4, RestStep
  <2> QED BY <1>4, <2>4, <2>5, <2>6
<1> QED BY <1>3, <1>4

\* One cluster more, or the text.
LEMMA Grown ==
  ASSUME NEW fat, NEW dat, NEW td, NEW rt, Good(fat, dat, td, rt), NEW td2, NEW cs,
         Moves(td2, td, "grow", cs), NEW n, td[1].args[1] = n, NEW t, td[1].args[2] = t, NEW c, td[1].args[3] = c,
         \/ n > 0 /\ IsTwo(cs, extend_file(rt), Grow(n - 1, t, c))
         \/ IsNone(cs)
         \/ IsOne(cs, Fill(c, 1, t))
  PROVE  Good(fat, dat, td2, rt)
<1>1. /\ 1 \in 1..Len(td) /\ td[1].f = "grow" /\ rt \in Entries \cup {0, 1}
      /\ Restacked(td2, td, cs) /\ AllSound(fat, dat, td, rt)
  BY MovesStack, GoodFacts
<1>2. Rest(td, 1) /\ n \in Nat /\ t \in Texts /\ c \in Links \ {Root}
  BY <1>1 DEF AllSound, CallSound
<1>3. CASE IsNone(cs)
  BY <1>1, <1>2, <1>3, NoCalls, RestStep
<1>4. CASE IsOne(cs, Fill(c, 1, t))
  <2>1. Fill(c, 1, t).f = "fill" /\ Fill(c, 1, t).args[1] = c /\ Fill(c, 1, t).args[2] = 1 /\ Fill(c, 1, t).args[3] = t
    BY CallsAre
  <2>2. td2[1] = Fill(c, 1, t) /\ Calm(td2) /\ Rest(td2, 1) /\ \A m \in 1..Len(cs) : m = 1
    BY <1>1, <1>2, <1>4, <2>1, OneCall
  <2>3. CallSound(fat, dat, td2, rt, 1)
    BY <1>2, <2>1, <2>2, FillSound
  <2> QED BY <1>1, <1>2, <2>2, <2>3, RestStep
<1>5. CASE n > 0 /\ IsTwo(cs, extend_file(rt), Grow(n - 1, t, c))
  <2> DEFINE k == n - 1
  <2>1. k \in Nat
    BY <1>2, <1>5
  <2> HIDE DEF k
  <2>2. /\ extend_file(rt).f = "extend_file" /\ extend_file(rt).args[1] = rt
        /\ Grow(k, t, c).f = "grow" /\ Grow(k, t, c).args[1] = k /\ Grow(k, t, c).args[2] = t
        /\ Grow(k, t, c).args[3] = c
    BY CallsAre
  <2>3. /\ td2[1] = extend_file(rt) /\ td2[2] = Grow(k, t, c) /\ Calm(td2) /\ Rest(td2, 2) /\ 2 <= Len(td2)
        /\ \A m \in 1..Len(cs) : m = 1 \/ m = 2
    BY <1>1, <1>2, <1>5, <2>2, TwoCalls DEF k
  <2>4. rt \in Links \cup {1}
    BY <1>1 DEF Links
  <2>5. CallSound(fat, dat, td2, rt, 1) /\ CallSound(fat, dat, td2, rt, 2)
    BY <1>2, <2>1, <2>2, <2>3, <2>4, ExtendSound
  <2> QED BY <1>1, <1>2, <2>3, <2>5, RestStep
<1> QED BY <1>3, <1>4, <1>5

\* One piece of the text.
LEMMA Filled ==
  ASSUME NEW fat, NEW dat, NEW td, NEW rt, Good(fat, dat, td, rt), NEW td2, NEW cs,
         Moves(td2, td, "fill", cs), NEW c, td[1].args[1] = c, NEW i, td[1].args[2] = i, NEW t, td[1].args[3] = t,
         \/ IsNone(cs)
         \/ ~(i > Len(t)) /\ IsTwo(cs, WriteData(c, t[i]), Fill(EntryIn(fat, c), i + 1, t))
  PROVE  Good(fat, dat, td2, rt)
<1>1. /\ 1 \in 1..Len(td) /\ td[1].f = "fill" /\ rt \in Entries \cup {0, 1} /\ DiskSound(fat, dat)
      /\ Restacked(td2, td, cs) /\ AllSound(fat, dat, td, rt)
  BY MovesStack, GoodFacts
<1>2. Rest(td, 1) /\ i \in Nat \ {0} /\ t \in Texts /\ c \in (Links \cup {-1}) \ {Root}
  BY <1>1 DEF AllSound, CallSound
<1>3. CASE IsNone(cs)
  BY <1>1, <1>2, <1>3, NoCalls, RestStep
<1>4. CASE ~(i > Len(t)) /\ IsTwo(cs, WriteData(c, t[i]), Fill(EntryIn(fat, c), i + 1, t))
  <2> DEFINE k == i + 1
             x == t[i]
             e == EntryIn(fat, c)
  <2>1. k \in Nat \ {0}
    BY <1>2
  <2>2. x \in Pieces /\ \A s \in 1..Slots : RowFrom(x)[s] = TextEntry
    <3>1. i \in 1..Len(t)
      BY <1>2, <1>4, TextIs
    <3> QED BY <1>2, <3>1, TextIs
  <2>3. e \in (Links \cup {-1}) \ {Root}
    <3>1. fat \in [Entries -> Links] /\ \A d \in Entries : fat[d] \in Entries => fat[d] # Root
      BY <1>1, SoundFacts, FatIsChained
    <3>2. -1 # Root /\ 0 # Root /\ EOC # Root
      BY RootFacts, TypeFacts
    <3>3. c \in Entries => fat[c] \in Links /\ fat[c] # Root
      BY <3>1, <3>2 DEF Links
    <3> QED BY <3>2, <3>3 DEF EntryIn
  <2> HIDE DEF k, x, e
  <2>4. /\ WriteData(c, x).f = "write_data" /\ WriteData(c, x).args[1] = c /\ WriteData(c, x).args[2] = x
        /\ Fill(e, k, t).f = "fill" /\ Fill(e, k, t).args[1] = e /\ Fill(e, k, t).args[2] = k
        /\ Fill(e, k, t).args[3] = t
    BY CallsAre
  <2>5. /\ td2[1] = WriteData(c, x) /\ td2[2] = Fill(e, k, t) /\ Calm(td2) /\ Rest(td2, 2) /\ 2 <= Len(td2)
        /\ Len(td2) \in Nat /\ \A m \in 1..Len(cs) : m = 1 \/ m = 2
    BY <1>1, <1>2, <1>4, <2>4, TwoCalls DEF k, x, e
  <2>6. CallSound(fat, dat, td2, rt, 2)
    BY <1>2, <2>1, <2>3, <2>4, <2>5, FillSound
  <2>7. CallSound(fat, dat, td2, rt, 1)
    <3>1. Lone(td2, 1)
      <4>1. \A j \in 1+1..Len(td2) : j = 2 \/ j \in 2+1..Len(td2)
        BY <2>5
      <4> QED BY <2>4, <2>5, <4>1 DEF Lone, Rest
    <3>2. TextEntry.name = "text" /\ TextEntry.cluster = EOC /\ TextEntry.dir = FALSE
      BY DEF TextEntry, Entry
    <3>3. TextIsText(RowFrom(x))
      BY <2>2, <3>2 DEF TextIsText
    <3>4. Thins(dat, c, x)
      BY <2>2, <3>2, KnownFacts DEF Thins, InUse
    <3>5. \A j \in 1..1-1 : FALSE
      OBVIOUS
    <3>6. WriteOK(fat, dat, td2, 1)
      BY <1>2, <2>2, <2>4, <2>5, <3>1, <3>3, <3>4, <3>5 DEF WriteOK
    <3> QED BY <2>4, <2>5, <3>6 DEF CallSound
  <2> QED BY <1>1, <1>2, <2>5, <2>6, <2>7, RestStep
<1> QED BY <1>3, <1>4

-----------------------------------------------------------------------------
(* extend_file *)

\* Below extend_file wait the call that needs the cluster and the rest.
LEMMA ExtendWaits ==
  ASSUME NEW fat, NEW dat, NEW td, NEW rt, Good(fat, dat, td, rt), NEW td2, NEW cs,
         Moves(td2, td, "extend_file", cs)
  PROVE  /\ Restacked(td2, td, cs) /\ Calm(td) /\ td[1].args[1] \in Links \cup {1} /\ Rest(td, 2)
         /\ 2 \in 2..Len(td) /\ td[2].f \in {"entry_in_new", "grow"}
         /\ td[2].f = "entry_in_new" =>
              /\ td[2].args[1] \in Paths /\ td[2].args[2] \in BOOLEAN
              /\ td[1].args[1] \in Entries /\ DirHead(dat, td[1].args[1])
              /\ NoName(fat, dat, td[1].args[1], Last(td[2].args[1]))
<1>1. /\ 1 \in 1..Len(td) /\ td[1].f = "extend_file" /\ Restacked(td2, td, cs) /\ AllSound(fat, dat, td, rt)
      /\ Len(td) \in Nat
  BY MovesStack, GoodFacts
<1>2. /\ Calm(td) /\ td[1].args[1] \in Links \cup {1} /\ Rest(td, 2)
      /\ 2 <= Len(td) /\ td[2].f \in {"entry_in_new", "grow"}
  BY <1>1 DEF AllSound, CallSound
<1>3. 2 \in 2..Len(td) /\ 2 \in 1..Len(td) /\ 2 - 1 = 1 /\ 2 > 1
  BY <1>1, <1>2
<1>4. ASSUME td[2].f = "entry_in_new"
      PROVE  /\ td[2].args[1] \in Paths /\ td[2].args[2] \in BOOLEAN
             /\ td[1].args[1] \in Entries /\ DirHead(dat, td[1].args[1])
             /\ NoName(fat, dat, td[1].args[1], Last(td[2].args[1]))
  <2>1. InNewOK(fat, dat, td, rt, 2)
    BY <1>1, <1>3, <1>4 DEF AllSound, CallSound
  <2> QED BY <1>1, <1>3, <2>1 DEF InNewOK
<1> QED BY <1>1, <1>2, <1>3, <1>4

\* The calls below, when the call that needs the cluster is sound.
LEMMA ExtendOn ==
  ASSUME NEW fat, NEW dat, NEW td, NEW rt, Good(fat, dat, td, rt), NEW td2, NEW cs,
         Moves(td2, td, "extend_file", cs), Calm(cs), NEW rt2 \in Entries \cup {0, 1},
         \A m \in 1..Len(cs) : CallSound(fat, dat, td2, rt2, m),
         \A m : Lower(td2, td, cs, 2, m) /\ td[2].f = "entry_in_new" => CallSound(fat, dat, td2, rt2, m)
  PROVE  Good(fat, dat, td2, rt2)
<1>1. /\ 1 \in 1..Len(td) /\ td[1].f = "extend_file" /\ Restacked(td2, td, cs) /\ AllSound(fat, dat, td, rt)
      /\ DiskSound(fat, dat) /\ td2 \in Seq(Range(td2))
  BY MovesStack, GoodFacts
<1>2. Calm(td) /\ Rest(td, 2) /\ 2 \in 2..Len(td) /\ td[2].f \in {"entry_in_new", "grow"}
  BY ExtendWaits
<1>3. Calm(td2)
  BY <1>1, <1>2, CalmKept
<1>4. ASSUME NEW i, NEW m, Lower(td2, td, cs, i, m) PROVE CallSound(fat, dat, td2, rt2, m)
  <2>1. i \in 2..Len(td) /\ i \in 1..Len(td) /\ (i = 2 \/ i \in 2+1..Len(td))
    BY <1>4 DEF Lower
  <2>2. CallSound(fat, dat, td, rt, i)
    BY <1>1, <2>1 DEF AllSound
  <2>3. td[i].f \in {"write_to_file", "look", "grow"} \/ (i = 2 /\ td[2].f = "entry_in_new")
    BY <1>2, <2>1 DEF Rest
  <2>4. CASE td[i].f \in {"write_to_file", "look", "grow"}
    BY <1>3, <1>4, <2>2, <2>4, LowerPlain
  <2>5. CASE i = 2 /\ td[2].f = "entry_in_new"
    BY <1>4, <2>5
  <2> QED BY <2>3, <2>4, <2>5
<1>5. AllSound(fat, dat, td2, rt2)
  BY <1>1, <1>4, AllSoundKept
<1>6. Debts(fat, dat, td2)
  BY <1>1, StillNoDebts
<1> QED BY <1>1, <1>5, <1>6 DEF Good

\* The chain does not end in an end mark.
LEMMA NotExtended ==
  ASSUME NEW fat, NEW dat, NEW td, NEW rt, Good(fat, dat, td, rt), NEW td2, NEW cs,
         Moves(td2, td, "extend_file", cs), IsNone(cs), NEW rt2, rt2 = 1
  PROVE  Good(fat, dat, td2, rt2)
<1>1. /\ Restacked(td2, td, cs) /\ Rest(td, 2) /\ Calm(td)
      /\ td[2].f = "entry_in_new" => td[2].args[1] \in Paths /\ td[2].args[2] \in BOOLEAN
  BY ExtendWaits
<1>2. Len(cs) = 0 /\ ~(Len(cs) \in 1..Len(cs)) /\ \A m \in 1..Len(cs) : FALSE
  <2>1. Len(cs) = 0
    BY DEF IsNone
  <2> QED BY <2>1
<1>3. Calm(cs)
  BY <1>2 DEF Calm
<1>4. Calm(td2)
  BY <1>1, <1>3, CalmKept
<1>5. ASSUME NEW m, Lower(td2, td, cs, 2, m), td[2].f = "entry_in_new" PROVE CallSound(fat, dat, td2, rt2, m)
  <2>1. m = 1 /\ td2[m] = td[2] /\ Rest(td2, m)
    <3>1. m = 1 /\ td2[m] = td[2]
      BY <1>2, <1>5 DEF Lower
    <3> QED BY <1>1, <1>5, <3>1, LowerParts
  <2>2. InNewOK(fat, dat, td2, rt2, 1)
    BY <1>1, <1>4, <1>5, <2>1 DEF InNewOK
  <2> QED BY <1>5, <2>1, <2>2 DEF CallSound
<1> QED BY <1>2, <1>3, <1>5, ExtendOn

\* A cluster is marked, linked to, cleared and returned.
LEMMA Extended ==
  ASSUME NEW td, NEW rt, Good(fats[1], data, td, rt), NEW td2, NEW cs,
         Moves(td2, td, "extend_file", cs), NEW new \in Entries, fats[1][new] = 0,
         NEW c, c = LastOf(td[1].args[1]), c # new,
         IsFour(cs, modify_fat(new, EOC), modify_fat(c, new), WriteData(new, Zero), Returns(new))
  PROVE  Good(fats[1], data, td2, rt)
<1> DEFINE fat == fats[1]
           x == td[1].args[1]
<1>1. /\ Restacked(td2, td, cs) /\ Calm(td) /\ x \in Links \cup {1} /\ Rest(td, 2)
      /\ td[2].f = "entry_in_new" =>
              /\ td[2].args[1] \in Paths /\ td[2].args[2] \in BOOLEAN
              /\ x \in Entries /\ DirHead(data, x) /\ NoName(fat, data, x, Last(td[2].args[1]))
  BY ExtendWaits
<1>2. td[1].f = "extend_file" /\ DiskSound(fat, data) /\ rt \in Entries \cup {0, 1}
  BY MovesStack, GoodFacts
<1>3. Unclaimed(fat, data, new)
  BY <1>2, FreeUnclaimed
<1>4. /\ c \in Entries \cup {0} /\ (c \in Entries => fat[c] \notin Entries)
      /\ x \in Entries => c \in Entries /\ c \in Reach(fat, x)
  <2>1. CASE x \in Entries
    <3>1. InChain(x) /\ Chained(fat)
      BY <1>2, <2>1, ChainOrNone, SoundFacts
    <3>2. c = Last(ChainIn(fat, x))
      BY <3>1 DEF LastOf, Chain
    <3> HIDE DEF fat, x
    <3>3. c \in Reach(fat, x) /\ fat[c] \notin Entries
      BY <2>1, <3>1, <3>2, ReachLast
    <3>4. c \in Entries
      BY <2>1, <3>1, <3>3, ReachWithin
    <3> QED BY <3>3, <3>4
  <2>2. CASE x \notin Entries
    <3>1. ~InChain(x)
      <4>1. CASE x \in Links
        BY <2>2, <4>1, ChainOrNone
      <4>2. CASE x = 1
        BY <4>2 DEF InChain, Root
      <4> QED BY <1>1, <4>1, <4>2
    <3>2. c = 0
      BY <3>1 DEF LastOf
    <3> QED BY <2>2, <3>2, RootFacts
  <2> QED BY <2>1, <2>2
<1> HIDE DEF x
<1>5. Len(cs) = 4 /\ cs[1] = modify_fat(new, EOC) /\ cs[2] = modify_fat(c, new) /\ cs[3] = WriteData(new, Zero) /\ cs[4] = Returns(new)
  BY DEF IsFour
<1>6. /\ 1 \in 1..Len(cs) /\ 2 \in 1..Len(cs) /\ 3 \in 1..Len(cs) /\ 4 \in 1..Len(cs)
      /\ \A m \in 1..Len(cs) : m = 1 \/ m = 2 \/ m = 3 \/ m = 4
  BY <1>5
<1>7. /\ cs[1].f = "modify_fat" /\ cs[1].args[1] = new /\ cs[1].args[2] = EOC
      /\ cs[2].f = "modify_fat" /\ cs[2].args[1] = c /\ cs[2].args[2] = new
      /\ cs[3].f = "write_data" /\ cs[3].args[1] = new /\ cs[3].args[2] = Zero
      /\ cs[4].f = "return" /\ cs[4].args[1] = new
  BY <1>5, CallsAre
<1>8. td2[1] = cs[1] /\ td2[2] = cs[2] /\ td2[3] = cs[3] /\ td2[4] = cs[4] /\ Len(td2) \in Nat /\ 4 <= Len(td2)
      /\ Len(td2) + 1 = 4 + Len(td) /\ Len(td) \in Nat \ {0} /\ \A i \in 1..Len(td)-1 : td2[i+4] = td[i+1]
  BY <1>1, <1>5, <1>6 DEF Restacked
<1>9. Calm(cs)
  BY <1>6, <1>7 DEF Calm
<1>10. Calm(td2)
  BY <1>1, <1>9, CalmKept
<1>11. EOC # 0 /\ EOC \notin Entries /\ EOC \in Links /\ 0 \notin Entries
  BY RootFacts
<1> HIDE DEF fat
<1>12. fat[new] = 0
  BY DEF fat
<1>13. CallSound(fat, data, td2, rt, 1)
  <2>1. ChangeOK(fat, data, td2, 1, new, EOC)
    BY <1>10, <1>11, <1>12 DEF ChangeOK, EndOK
  <2>2. ModifyOK(fat, data, td2, 1)
    BY <1>7, <1>8, <1>11, <2>1 DEF ModifyOK
  <2> QED BY <1>7, <1>8, <2>2 DEF CallSound
<1>14. CallSound(fat, data, td2, rt, 2)
  <2>1. \A j \in 2+1..Len(td2) : td2[j].f # "modify_fat"
    <3>1. SUFFICES ASSUME NEW j \in 2+1..Len(td2) PROVE td2[j].f # "modify_fat"
      OBVIOUS
    <3>2. CASE j = 3 \/ j = 4
      BY <1>7, <1>8, <3>2
    <3>3. CASE j > 4
      <4>1. j - 4 \in 1..Len(td)-1 /\ j - 4 + 4 = j /\ (j - 4 + 1 = 2 \/ j - 4 + 1 \in 2+1..Len(td))
        BY <1>8, <3>3
      <4>2. td2[j] = td[j - 4 + 1]
        <5> DEFINE k == j - 4
        <5>1. k \in 1..Len(td)-1 /\ k + 4 = j
          BY <4>1
        <5> HIDE DEF k
        <5>2. td2[k+4] = td[k+1]
          BY <1>8, <5>1
        <5> QED BY <5>1, <5>2 DEF k
      <4>3. td[2].f # "modify_fat"
        BY ExtendWaits
      <4> QED BY <1>1, <4>1, <4>2, <4>3 DEF Rest
    <3> QED BY <3>2, <3>3
  <2>2. LinkOn(fat, data, td2, 2, c, new)
    BY <1>3, <1>4, <1>10, <1>11, <1>12, <2>1 DEF LinkOn, fat
  <2>3. new \in Links /\ new # EOC /\ new # 0
    BY <1>11 DEF Links
  <2>4. ChangeOK(fat, data, td2, 2, c, new)
    BY <2>2, <2>3 DEF ChangeOK
  <2>5. \E j \in 1..2-1 : Sets(fat, td2[j], new, EOC)
    <3>1. 1 \in 1..2-1
      OBVIOUS
    <3>2. Sets(fat, td2[1], new, EOC)
      BY <1>7, <1>8 DEF Sets
    <3> QED BY <3>1, <3>2
  <2>6. ModifyOK(fat, data, td2, 2)
    BY <1>4, <1>7, <1>8, <2>3, <2>4, <2>5 DEF ModifyOK, fat
  <2> QED BY <1>7, <1>8, <2>6 DEF CallSound
<1>15. CallSound(fat, data, td2, rt, 3)
  <2>1. \A j \in 1..3-1 : j = 1 \/ j = 2
    OBVIOUS
  <2>2. new # Root /\ \A l \in UsedIn(data) : l.cluster # new
    BY <1>3 DEF Unclaimed
  <2>3. Thins(data, new, Zero)
    BY ZeroIs DEF Thins
  <2>4. \A j \in 1..3-1 : td2[j].f # "write_data"
    BY <1>7, <1>8, <2>1
  <2>5. WriteOK(fat, data, td2, 3)
    BY <1>7, <1>8, <1>10, <2>2, <2>3, <2>4, ZeroIs DEF WriteOK
  <2> QED BY <1>7, <1>8, <2>5 DEF CallSound
<1>16. CallSound(fat, data, td2, rt, 4)
  BY <1>7, <1>8, <1>10 DEF CallSound
<1>17. ASSUME NEW m, Lower(td2, td, cs, 2, m), td[2].f = "entry_in_new" PROVE CallSound(fat, data, td2, rt, m)
  <2>1. m = 5 /\ td2[5] = td[2] /\ Rest(td2, 5)
    <3>1. m - 1 = 4 /\ m \in Nat /\ td2[m] = td[2]
      BY <1>5, <1>17 DEF Lower
    <3>2. m = 5
      BY <3>1
    <3> QED BY <1>1, <1>17, <3>1, <3>2, LowerParts
  <2>2. 5 > 1 /\ 5 - 1 = 4 /\ 5 # 1 /\ 2 \in 1..5-1
    OBVIOUS
  <2> DEFINE n == Last(td[2].args[1])
  <2>3. InDir(fat, data, c, n)
    BY <1>1, <1>4, <1>17 DEF InDir, fat
  <2>4. Sets(fat, td2[2], c, new)
    BY <1>7, <1>8 DEF Sets
  <2>5. ToNew(fat, data, td2, 5, n, new)
    BY <1>1, <1>4, <1>17, <2>2, <2>3, <2>4 DEF ToNew
  <2>6. \A l \in UsedIn(data) : l.cluster # new
    BY <1>3 DEF Unclaimed
  <2>7. td2[5-1].f = "return" /\ td2[5-1].args[1] = new
    BY <1>7, <1>8, <2>2
  <2>8. InNewOK(fat, data, td2, rt, 5)
    BY <1>1, <1>10, <1>17, <2>1, <2>2, <2>5, <2>6, <2>7 DEF InNewOK
  <2> QED BY <1>17, <2>1, <2>8 DEF CallSound
<1>18. \A m \in 1..Len(cs) : CallSound(fat, data, td2, rt, m)
  BY <1>6, <1>13, <1>14, <1>15, <1>16
<1> QED BY <1>2, <1>9, <1>17, <1>18, ExtendOn DEF fat

\* The look at the tree.
LEMMA Looked ==
  ASSUME NEW fat, NEW dat, NEW td, NEW rt, Good(fat, dat, td, rt), NEW td2, NEW cs,
         Moves(td2, td, "look", cs), IsNone(cs)
  PROVE  Good(fat, dat, td2, rt)
<1>1. /\ 1 \in 1..Len(td) /\ td[1].f = "look" /\ rt \in Entries \cup {0, 1} /\ AllSound(fat, dat, td, rt)
  BY MovesStack, GoodFacts
<1>2. Rest(td, 1)
  BY <1>1 DEF AllSound, CallSound
<1> QED BY <1>1, <1>2, NoCalls, RestStep
=============================================================================
