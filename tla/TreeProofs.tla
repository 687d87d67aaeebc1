----------------------------- MODULE TreeProofs -----------------------------
(***************************************************************************)
(* Without lost writes and crashes, and until a cluster behind the         *)
(* partition is handed out, no cluster belongs to two files or directories,*)
(* between commands no directory holds text and no cluster is lost, and no *)
(* command touches a path that does not lie under its own: Good, of        *)
(* FatProofs, with TidyTree, OwnTree and Others is inductive.              *)
(***************************************************************************)
EXTENDS FatProofs

-----------------------------------------------------------------------------
(* Directories.  What the chain of a directory holds are rows of entries,   *)
(* or else the write that clears it is still to be made (Tidied); each call *)
(* still to be made keeps it so (TidyCall): together with Good this is the  *)
(* inductive invariant behind DirsHoldEntries.                              *)

\* No entry reads as text.
Tidy(x) == \A s \in 1..Slots : RowFrom(x)[s].name # "text"

\* The call that clears the cluster x.
Zeroes(t, x) == t.f = "write_data" /\ t.args[1] = x /\ t.args[2] = Zero
Clears(td, x) == \E i \in 1..Len(td) : Zeroes(td[i], x)
ClearsBelow(td, i, x) == \E j \in i+1..Len(td) : Zeroes(td[j], x)
ClearsBefore(td, i, x) == \E j \in 1..i-1 : Zeroes(td[j], x)

Tidied(fat, dat, td) ==
  \A v, x \in Entries : DirHead(dat, v) /\ x \in Reach(fat, v) => Tidy(dat[x]) \/ Clears(td, x)

\* c belongs to a file.
InFile(fat, dat, c) ==
  \E l \in UsedIn(dat) : ~AtIn(dat, l).dir /\ c \in Reach(fat, AtIn(dat, l).cluster)

\* The call writes an entry for a directory that is not there yet, in slot s.
NewDir(dat, t, s) ==
  LET e == RowFrom(t.args[2])[s]
  IN  /\ t.f = "write_data" /\ t.args[1] \in Entries
      /\ InUse(e) /\ e.dir /\ e # AtIn(dat, [cluster |-> t.args[1], slot |-> s])

\* No other call writes to a cluster.
NoOther(td) == \A j \in 2..Len(td) : td[j].f # "write_data"

\* Text is only written to files, and at once; a directory begins cleared.
TidyWrite(fat, dat, td, i) ==
  LET c == td[i].args[1]  img == td[i].args[2]
  IN  c \in Entries =>
      /\ Tidy(img) \/ (i = 1 /\ InFile(fat, dat, c) /\ NoOther(td))
      /\ \A s \in 1..Slots : NewDir(dat, td[i], s) =>
           Tidy(dat[RowFrom(img)[s].cluster]) \/ ClearsBefore(td, i, RowFrom(img)[s].cluster)
      /\ img = Zero => Calm(td)

\* What is linked to is cleared next.
TidyModify(td, i) == td[i].args[2] \in Entries => ClearsBelow(td, i, td[i].args[2])
TidyFat(fat, td, i) ==
  td[i].args[1] = 1 => \A y \in Entries : td[i].args[2][y] \in Entries /\ td[i].args[2][y] # fat[y] =>
                                            Clears(td, td[i].args[2][y])

\* There is no directory at the path p.
NoDir(fat, dat, p) == \A g : ~IsWay(fat, dat, g, p)

\* The call makes no directory.
MakesNone(dat, t) ==
  /\ t.f = "entry_in_new" => ~t.args[2]
  /\ t.f = "new_entry" => ~t.args[3]
  /\ \A s \in 1..Slots : ~NewDir(dat, t, s)

\* The call will make the file p.
MakesFile(t, p) == t.f \in {"create_file", "find_new"} /\ t.args[1] = p /\ ~t.args[2]

\* Before a text is written its file is made, or no directory is where it goes.
TidySave(fat, dat, td, i) ==
  LET p == td[i].args[1]
  IN  \/ \E k \in 1..i-1 : MakesFile(td[k], p)
      \/ NoDir(fat, dat, p) /\ Calm(td) /\ \A k \in 1..i-1 : MakesNone(dat, td[k])

\* The call changes no entry.
Inert(dat, t) == t.f = "write_data" => /\ \A l \in UsedIn(dat) : l.cluster # t.args[1]
                                       /\ \A s \in 1..Slots : ~InUse(RowFrom(t.args[2])[s])

\* c belongs to a file, and what is written first changes no entry.
TidyText(fat, dat, td, i, c) ==
  c \in Entries => InFile(fat, dat, c) /\ \A j \in 1..i-1 : Inert(dat, td[j])

TidyCall(fat, dat, td, i) ==
  LET f == td[i].f  a == td[i].args IN
  /\ f = "write_data" => TidyWrite(fat, dat, td, i)
  /\ f = "modify_fat" => TidyModify(td, i)
  /\ f = "write_fat" => TidyFat(fat, td, i)
  /\ f = "write_to_file" => TidySave(fat, dat, td, i)
  /\ f = "grow" => TidyText(fat, dat, td, i, a[3])
  /\ f = "fill" => TidyText(fat, dat, td, i, a[1])

AllTidy(fat, dat, td) == \A i \in 1..Len(td) : TidyCall(fat, dat, td, i)
TidyTree(fat, dat, td) == Tidied(fat, dat, td) /\ AllTidy(fat, dat, td)
-----------------------------------------------------------------------------
\* The parts of TidyTree.
LEMMA TidyFacts ==
  ASSUME NEW fat, NEW dat, NEW td, TidyTree(fat, dat, td)
  PROVE  /\ Tidied(fat, dat, td) /\ AllTidy(fat, dat, td)
         /\ \A i \in 1..Len(td) : TidyCall(fat, dat, td, i)
BY DEF TidyTree, AllTidy

\* A cluster that links nowhere is a chain of its own.
LEMMA ReachAlone ==
  ASSUME NEW fat, Chained(fat), NEW y \in Entries, fat[y] \notin Entries
  PROVE  Reach(fat, y) \subseteq {y}
<1>1. y \in {y} /\ Closed(fat, {y})
  BY DEF Closed
<1> QED BY <1>1, ReachLeast

\* A new entry for a directory leads to a cluster that nobody has.
LEMMA NewDirIs ==
  ASSUME NEW fat, NEW dat, RowsSound(dat), NEW td, NEW i, WriteOK(fat, dat, td, i), NEW s \in 1..Slots, NewDir(dat, td[i], s)
  PROVE  /\ RowFrom(td[i].args[2])[s].cluster \in Entries /\ fat[RowFrom(td[i].args[2])[s].cluster] = 0
         /\ td[i].args[1] \in Entries /\ fat[td[i].args[1]] # 0
<1> DEFINE c == td[i].args[1]
           img == td[i].args[2]
<1>1. c \in Entries /\ InUse(RowFrom(img)[s]) /\ RowFrom(img)[s] # AtIn(dat, [cluster |-> c, slot |-> s])
  BY DEF NewDir
<1>2. img \in Rows \cup Pieces /\ (Thins(dat, c, img) \/ Adds(fat, dat, td, i, c, img))
  BY <1>1 DEF WriteOK
<1> HIDE DEF c, img
<1>3. ~Thins(dat, c, img)
  BY <1>1 DEF Thins
<1>4. PICK a \in 1..Slots, n \in Names, d \in BOOLEAN, new \in Entries :
        img = [RowFrom(dat[c]) EXCEPT ![a] = Entry(n, d, new)] /\ fat[new] = 0 /\ fat[c] # 0
  <2>1. Adds(fat, dat, td, i, c, img)
    BY <1>2, <1>3
  <2> QED BY ONLY <2>1 DEF Adds
<1>5. RowFrom(dat[c]) \in Rows
  BY <1>1, RowIs
<1>6. Entry(n, d, new) \in [name : Names \cup Unused \cup {"kernel", "text"}, dir : BOOLEAN, cluster : Links]
      /\ Entry(n, d, new).cluster = new
  BY DEF Entry, Links
<1>7. img \in Rows /\ img[a] = Entry(n, d, new) /\ \A k \in 1..Slots : k # a => img[k] = RowFrom(dat[c])[k]
  BY ONLY <1>4, <1>5, <1>6 DEF Rows
<1>8. RowFrom(img) = img
  BY ONLY <1>7, TextAssumption DEF RowFrom
<1>9. AtIn(dat, [cluster |-> c, slot |-> s]) = RowFrom(dat[c])[s]
  BY DEF AtIn
<1>10. s = a
  BY <1>1, <1>7, <1>8, <1>9
<1>11. RowFrom(img)[s].cluster = new
  BY ONLY <1>6, <1>7, <1>8, <1>10
<1> QED BY <1>1, <1>4, <1>11 DEF c, img

\* What clears a cluster goes on waiting.
LEMMA ClearsOn ==
  ASSUME NEW td2, NEW td, NEW cs, Restacked(td2, td, cs), NEW x, Clears(td, x), ~Zeroes(td[1], x)
  PROVE  Clears(td2, x)
<1>1. PICK i \in 1..Len(td) : Zeroes(td[i], x)
  BY DEF Clears
<1>2. i \in 2..Len(td) /\ Len(cs) \in Nat /\ i \in Nat
  BY <1>1 DEF Restacked
<1>3. PICK m \in Nat : i + Len(cs) = m + 1
  <2>1. i + Len(cs) - 1 \in Nat /\ i + Len(cs) = (i + Len(cs) - 1) + 1
    BY <1>2
  <2> QED BY <2>1
<1>4. Lower(td2, td, cs, i, m) /\ m \in 1..Len(td2)
  BY <1>2, <1>3, LowerAt
<1> QED BY <1>1, <1>4 DEF Lower, Clears

\* What belongs to a file belongs to no directory,
LEMMA FileNoDir ==
  ASSUME NEW fat, NEW dat, DiskSound(fat, dat), NEW c, InFile(fat, dat, c), NEW v, DirHead(dat, v), c \in Reach(fat, v)
  PROVE  FALSE
<1>1. PICK l \in UsedIn(dat) : ~AtIn(dat, l).dir /\ c \in Reach(fat, AtIn(dat, l).cluster)
  BY DEF InFile
<1>2. /\ AtIn(dat, l).cluster \in Entries \ {Root} /\ \A d \in Entries : fat[d] # AtIn(dat, l).cluster
      /\ \A k, m \in UsedIn(dat) : AtIn(dat, k).cluster = AtIn(dat, m).cluster => k = m
  BY <1>1, SoundFacts, HeadFacts
<1>3. v \in Entries /\ \A d \in Entries : fat[d] # v
  BY DirHeadFacts
<1>4. FatSound(fat)
  BY SoundFacts
<1>5. AtIn(dat, l).cluster = v
  BY <1>1, <1>2, <1>3, <1>4, HeadsMeet
<1>6. PICK k \in UsedIn(dat) : AtIn(dat, k).dir /\ AtIn(dat, k).cluster = v
  BY <1>2, <1>5 DEF DirHead
<1>7. k = l
  BY <1>1, <1>2, <1>5, <1>6
<1> QED BY <1>1, <1>6, <1>7

\* and holds no entries.
LEMMA FileHoldsNone ==
  ASSUME NEW fat, NEW dat, DiskSound(fat, dat), NEW c, InFile(fat, dat, c), NEW l \in UsedIn(dat)
  PROVE  l.cluster # c
BY SoundFacts DEF InFile, HeadsSound

\* A sound disk keeps its text apart from its rows.
LEMMA TidyRow ==
  /\ Tidy(Zero) /\ \A s \in 1..Slots : ~InUse(RowFrom(Zero)[s])
  /\ \A x \in Rows : RowFrom(x) = x /\ x \notin Pieces
  /\ \A x \in Pieces : \A s \in 1..Slots : ~InUse(RowFrom(x)[s])
<1>1. Zero \in Rows /\ RowFrom(Zero) = Zero /\ \A s \in 1..Slots : ~InUse(Zero[s])
  BY ZeroIs
<1>2. \A s \in 1..Slots : Zero[s].name = "0x00"
  BY DEF Zero, Blank, Entry
<1>3. \A x \in Rows : RowFrom(x) = x /\ x \notin Pieces
  BY TextAssumption DEF RowFrom
<1>4. ASSUME NEW x \in Pieces, NEW s \in 1..Slots PROVE ~InUse(RowFrom(x)[s])
  <2>1. RowFrom(x)[s].name = "text"
    BY DEF RowFrom, TextEntry, Entry
  <2> QED BY <2>1, KnownFacts DEF InUse
<1> QED BY <1>1, <1>2, <1>3, <1>4 DEF Tidy
-----------------------------------------------------------------------------
\* A step of the first call disturbs nothing that the waiting calls rely on.
KeepsTidy(fat, dat, td, fat2, dat2) ==
  /\ Calm(td) /\ Inert(dat, td[1]) => /\ \A x : InFile(fat, dat, x) => InFile(fat2, dat2, x)
                                      /\ UsedIn(dat2) \subseteq UsedIn(dat)
  /\ Calm(td) /\ MakesNone(dat, td[1]) => \A p : Len(p) \in Nat /\ NoDir(fat, dat, p) => NoDir(fat2, dat2, p)
  /\ \A c \in Entries : dat2[c] = dat[c] \/ (td[1].f = "write_data" /\ td[1].args[1] = c)
  /\ \A y \in Entries : Tidy(dat[y]) => Tidy(dat2[y]) \/ NoOther(td)
  /\ \A y \in Entries : Zeroes(td[1], y) => Tidy(dat2[y])

\* Nor do the calls that take its place.
HandsTidy(fat2, dat, dat2, td, cs) ==
  /\ Calm(td) => Calm(cs)
  /\ Calm(td) /\ MakesNone(dat, td[1]) => \A j \in 1..Len(cs) : MakesNone(dat2, cs[j])
  /\ Calm(td) /\ Inert(dat, td[1]) /\ ~Rest(td, 1) => \A j \in 1..Len(cs) : Inert(dat2, cs[j])
  /\ \A p : MakesFile(td[1], p) =>
       \/ \E j \in 1..Len(cs) : MakesFile(cs[j], p)
       \/ NoDir(fat2, dat2, p) /\ Calm(cs) /\ Rest(td, 1) /\ \A j \in 1..Len(cs) : MakesNone(dat2, cs[j])

\* When only the calls change, nothing is disturbed.
LEMMA KeepsSame ==
  ASSUME NEW fat, NEW dat, NEW td, \A y \in Entries : ~Zeroes(td[1], y)
  PROVE  KeepsTidy(fat, dat, td, fat, dat)
BY DEF KeepsTidy

\* A write to a cluster that waits,
LEMMA LowerTidyWrite ==
  ASSUME NEW fat, NEW dat, RowsSound(dat), NEW td, NEW i, WriteOK(fat, dat, td, i), TidyWrite(fat, dat, td, i),
         td[i].f = "write_data",
         NEW fat2, NEW dat2, KeepsTidy(fat, dat, td, fat2, dat2),
         NEW td2, NEW cs, NEW m, Lower(td2, td, cs, i, m), Calm(td) => Calm(td2)
  PROVE  TidyWrite(fat2, dat2, td2, m)
<1> DEFINE c == td[i].args[1]
           img == td[i].args[2]
<1>1. td2[m] = td[i] /\ i \in 2..Len(td) /\ Len(td) \in Nat
  BY DEF Lower
<1> SUFFICES ASSUME c \in Entries
             PROVE  /\ Tidy(img)
                    /\ \A s \in 1..Slots : NewDir(dat2, td2[m], s) =>
                         Tidy(dat2[RowFrom(img)[s].cluster]) \/ ClearsBefore(td2, m, RowFrom(img)[s].cluster)
                    /\ img = Zero => Calm(td2)
  BY <1>1 DEF TidyWrite
<1>2. /\ Tidy(img) /\ (img = Zero => Calm(td2))
      /\ \A s \in 1..Slots : NewDir(dat, td[i], s) =>
           Tidy(dat[RowFrom(img)[s].cluster]) \/ ClearsBefore(td, i, RowFrom(img)[s].cluster)
  BY <1>1 DEF TidyWrite
<1>3. ~(td[1].f = "write_data" /\ td[1].args[1] = c)
  BY <1>1 DEF WriteOK
<1>4. dat2[c] = dat[c]
  BY <1>3 DEF KeepsTidy
<1>5. ASSUME NEW s \in 1..Slots, NewDir(dat2, td2[m], s)
      PROVE  Tidy(dat2[RowFrom(img)[s].cluster]) \/ ClearsBefore(td2, m, RowFrom(img)[s].cluster)
  <2> DEFINE y == RowFrom(img)[s].cluster
  <2>1. AtIn(dat2, [cluster |-> c, slot |-> s]) = AtIn(dat, [cluster |-> c, slot |-> s])
    BY <1>4 DEF AtIn
  <2>2. NewDir(dat, td[i], s)
    BY <1>1, <1>5, <2>1 DEF NewDir
  <2>3. y \in Entries
    BY <2>2, NewDirIs
  <2>4. CASE Tidy(dat[y])
    <3>1. ~NoOther(td)
      BY <1>1 DEF NoOther
    <3> QED BY <2>3, <2>4, <3>1 DEF KeepsTidy
  <2>5. CASE ClearsBefore(td, i, y)
    <3>1. PICK j \in 1..i-1 : Zeroes(td[j], y)
      BY <2>5 DEF ClearsBefore
    <3>2. CASE j = 1
      BY <2>3, <3>1, <3>2 DEF KeepsTidy
    <3>3. CASE j # 1
      <4>1. j \in 2..i-1
        BY <1>1, <3>3
      <4>2. \E k \in 1..m-1 : td2[k] = td[j]
        BY <4>1 DEF Lower
      <4> QED BY <3>1, <4>2 DEF ClearsBefore
    <3> QED BY <3>2, <3>3
  <2> QED BY <1>2, <2>2, <2>4, <2>5
<1> QED BY <1>2, <1>5

\* a text that waits to be written,
LEMMA LowerTidySave ==
  ASSUME NEW fat, NEW dat, NEW td, NEW i, TidySave(fat, dat, td, i), Len(td[i].args[1]) \in Nat,
         NEW fat2, NEW dat2, NEW td2, NEW cs, NEW m, Lower(td2, td, cs, i, m), Restacked(td2, td, cs),
         KeepsTidy(fat, dat, td, fat2, dat2), HandsTidy(fat2, dat, dat2, td, cs),
         \A k \in 2..i-1 : td[k].f = "write_data" => WriteOK(fat, dat, td, k)
  PROVE  TidySave(fat2, dat2, td2, m)
<1> DEFINE p == td[i].args[1]
<1>1. td2[m] = td[i] /\ i \in 2..Len(td) /\ Len(td) \in Nat /\ Len(cs) \in Nat /\ Len(td2) \in Nat /\ m \in 1..Len(td2)
  BY DEF Lower
<1>2. /\ \A j \in 1..m-1 : (j \in 1..Len(cs) /\ td2[j] = cs[j]) \/ \E k \in 2..i-1 : td2[j] = td[k]
      /\ \A j \in 1..Len(cs) : j \in 1..m-1 /\ td2[j] = cs[j]
      /\ \A k \in 2..i-1 : \E j \in 1..m-1 : td2[j] = td[k]
  BY DEF Lower
<1>3. CASE \E k \in 1..i-1 : MakesFile(td[k], p)
  <2>1. PICK k \in 1..i-1 : MakesFile(td[k], p)
    BY <1>3
  <2>2. CASE k # 1
    <3>1. k \in 2..i-1
      BY <1>1, <2>2
    <3> QED BY <1>1, <1>2, <2>1, <3>1 DEF TidySave
  <2>3. CASE k = 1
    <3>1. CASE \E j \in 1..Len(cs) : MakesFile(cs[j], p)
      <4>1. \E j \in 1..m-1 : MakesFile(td2[j], p)
        BY <1>2, <3>1
      <4> QED BY <1>1, <4>1 DEF TidySave
    <3>2. CASE NoDir(fat2, dat2, p) /\ Calm(cs) /\ Rest(td, 1) /\ \A j \in 1..Len(cs) : MakesNone(dat2, cs[j])
      <4>1. Calm(td2)
        BY <3>2, MovesRest
      <4>2. ASSUME NEW j \in 1..m-1 PROVE MakesNone(dat2, td2[j])
        <5>1. CASE j \in 1..Len(cs) /\ td2[j] = cs[j]
          BY <3>2, <5>1
        <5>2. CASE \E n \in 2..i-1 : td2[j] = td[n]
          <6>1. PICK n \in 2..i-1 : td2[j] = td[n]
            BY <5>2
          <6>2. n \in 1+1..Len(td)
            BY <1>1
          <6>3. td2[j].f \in {"write_to_file", "look"}
            BY <3>2, <6>1, <6>2 DEF Rest
          <6> QED BY <6>3 DEF MakesNone, NewDir
        <5> QED BY <1>2, <5>1, <5>2
      <4> QED BY <1>1, <3>2, <4>1, <4>2 DEF TidySave
    <3> QED BY <2>1, <2>3, <3>1, <3>2 DEF HandsTidy
  <2> QED BY <2>2, <2>3
<1>4. CASE NoDir(fat, dat, p) /\ Calm(td) /\ \A k \in 1..i-1 : MakesNone(dat, td[k])
  <2>1. MakesNone(dat, td[1])
    BY <1>1, <1>4
  <2>2. NoDir(fat2, dat2, p)
    BY <1>4, <2>1 DEF KeepsTidy
  <2>3. Calm(td2)
    BY <1>4, CalmKept DEF HandsTidy
  <2>4. ASSUME NEW j \in 1..m-1 PROVE MakesNone(dat2, td2[j])
    <3>1. CASE j \in 1..Len(cs) /\ td2[j] = cs[j]
      BY <1>4, <2>1, <3>1 DEF HandsTidy
    <3>2. CASE \E n \in 2..i-1 : td2[j] = td[n]
      <4>1. PICK n \in 2..i-1 : td2[j] = td[n]
        BY <3>2
      <4>2. n \in 1..i-1 /\ 1 \in 1..n-1
        BY <1>1
      <4>3. MakesNone(dat, td[n])
        BY <1>4, <4>2
      <4>4. ASSUME NEW s \in 1..Slots, NewDir(dat2, td[n], s) PROVE FALSE
        <5> DEFINE c == td[n].args[1]
        <5>1. td[n].f = "write_data" /\ c \in Entries
          BY <4>4 DEF NewDir
        <5>2. ~(td[1].f = "write_data" /\ td[1].args[1] = c)
          BY <4>2, <5>1 DEF WriteOK
        <5>3. dat2[c] = dat[c]
          BY <5>1, <5>2 DEF KeepsTidy
        <5>4. NewDir(dat, td[n], s)
          BY <4>4, <5>3 DEF NewDir, AtIn
        <5> QED BY <4>3, <5>4 DEF MakesNone
      <4> QED BY <4>1, <4>3, <4>4 DEF MakesNone
    <3> QED BY <1>2, <3>1, <3>2
  <2> QED BY <1>1, <2>2, <2>3, <2>4 DEF TidySave
<1> QED BY <1>3, <1>4 DEF TidySave

\* and a text being written.
LEMMA LowerTidyText ==
  ASSUME NEW fat, NEW dat, NEW td, NEW i, NEW c, TidyText(fat, dat, td, i, c), Calm(td), td[i].f \in {"grow", "fill"},
         NEW fat2, NEW dat2, NEW td2, NEW cs, NEW m, Lower(td2, td, cs, i, m),
         KeepsTidy(fat, dat, td, fat2, dat2), HandsTidy(fat2, dat, dat2, td, cs)
  PROVE  TidyText(fat2, dat2, td2, m, c)
<1>1. td2[m] = td[i] /\ i \in 2..Len(td) /\ Len(td) \in Nat
      /\ \A j \in 1..m-1 : (j \in 1..Len(cs) /\ td2[j] = cs[j]) \/ \E k \in 2..i-1 : td2[j] = td[k]
  BY DEF Lower
<1> SUFFICES ASSUME c \in Entries PROVE InFile(fat2, dat2, c) /\ \A j \in 1..m-1 : Inert(dat2, td2[j])
  BY DEF TidyText
<1>2. InFile(fat, dat, c) /\ \A j \in 1..i-1 : Inert(dat, td[j])
  BY DEF TidyText
<1>3. Inert(dat, td[1])
  BY <1>1, <1>2
<1>4. InFile(fat2, dat2, c) /\ UsedIn(dat2) \subseteq UsedIn(dat)
  BY <1>2, <1>3 DEF KeepsTidy
<1>5. ~Rest(td, 1)
  <2>1. i \in 1+1..Len(td)
    BY <1>1
  <2> QED BY <2>1 DEF Rest
<1>6. ASSUME NEW j \in 1..m-1 PROVE Inert(dat2, td2[j])
  <2>1. CASE j \in 1..Len(cs) /\ td2[j] = cs[j]
    BY <1>3, <1>5, <2>1 DEF HandsTidy
  <2>2. CASE \E k \in 2..i-1 : td2[j] = td[k]
    <3>1. PICK k \in 2..i-1 : td2[j] = td[k]
      BY <2>2
    <3>2. k \in 1..i-1
      BY <1>1
    <3>3. Inert(dat, td[k])
      BY <1>2, <3>2
    <3> QED BY <1>4, <3>1, <3>3 DEF Inert
  <2> QED BY <1>1, <2>1, <2>2
<1> QED BY <1>4, <1>6

\* A call that waits stays one that keeps the directories tidy.
LEMMA LowerTidy ==
  ASSUME NEW fat, NEW dat, NEW td, NEW rt, Good(fat, dat, td, rt), AllTidy(fat, dat, td),
         NEW fat2, NEW dat2, NEW td2, NEW cs, Restacked(td2, td, cs),
         KeepsTidy(fat, dat, td, fat2, dat2), HandsTidy(fat2, dat, dat2, td, cs),
         NEW i, NEW m, Lower(td2, td, cs, i, m)
  PROVE  TidyCall(fat2, dat2, td2, m)
<1>1. i \in 1..Len(td) /\ i \in 2..Len(td) /\ td2[m] = td[i] /\ Len(td) \in Nat
  BY DEF Lower
<1>2. DiskSound(fat, dat) /\ RowsSound(dat) /\ AllSound(fat, dat, td, rt)
  BY GoodFacts, SoundFacts
<1>3. TidyCall(fat, dat, td, i) /\ CallSound(fat, dat, td, rt, i)
  BY <1>1, <1>2 DEF AllTidy, AllSound
<1>4. Calm(td) => Calm(td2)
  BY CalmKept DEF HandsTidy
<1>5. ASSUME td[i].f = "write_data" PROVE TidyWrite(fat2, dat2, td2, m)
  <2>1. WriteOK(fat, dat, td, i) /\ TidyWrite(fat, dat, td, i)
    BY <1>3, <1>5 DEF CallSound, TidyCall
  <2> QED BY <1>2, <1>4, <1>5, <2>1, LowerTidyWrite
<1>6. ASSUME td[i].f = "modify_fat" PROVE TidyModify(td2, m)
  <2>1. TidyModify(td, i)
    BY <1>3, <1>6 DEF TidyCall
  <2>2. \A k \in i+1..Len(td) : \E j \in m+1..Len(td2) : td2[j] = td[k]
    BY DEF Lower
  <2> QED BY <1>1, <2>1, <2>2 DEF TidyModify, ClearsBelow
<1>7. ASSUME td[i].f = "write_fat" PROVE TidyFat(fat2, td2, m)
  <2>1. WriteFatOK(fat, dat, td, i)
    BY <1>3, <1>7 DEF CallSound
  <2>2. td[i].args[1] # 1
    BY <1>1, <2>1 DEF WriteFatOK
  <2> QED BY <1>1, <2>2 DEF TidyFat
<1>8. ASSUME td[i].f = "write_to_file" PROVE TidySave(fat2, dat2, td2, m)
  <2>1. TidySave(fat, dat, td, i) /\ td[i].args[1] \in Paths
    BY <1>3, <1>8 DEF TidyCall, CallSound
  <2>2. Len(td[i].args[1]) \in Nat
    BY <2>1, PathParts
  <2>3. ASSUME NEW k \in 2..i-1, td[k].f = "write_data" PROVE WriteOK(fat, dat, td, k)
    <3>1. k \in 1..Len(td)
      BY <1>1
    <3>2. CallSound(fat, dat, td, rt, k)
      BY <1>2, <3>1 DEF AllSound
    <3> QED BY <2>3, <3>2 DEF CallSound
  <2> QED BY <2>1, <2>2, <2>3, LowerTidySave
<1>9. ASSUME td[i].f = "grow" PROVE TidyText(fat2, dat2, td2, m, td[i].args[3])
  <2>1. TidyText(fat, dat, td, i, td[i].args[3]) /\ Calm(td)
    BY <1>3, <1>9 DEF TidyCall, CallSound
  <2> QED BY <1>9, <2>1, LowerTidyText
<1>10. ASSUME td[i].f = "fill" PROVE TidyText(fat2, dat2, td2, m, td[i].args[1])
  <2>1. TidyText(fat, dat, td, i, td[i].args[1]) /\ Calm(td)
    BY <1>3, <1>10 DEF TidyCall, CallSound
  <2> QED BY <1>10, <2>1, LowerTidyText
<1> QED BY <1>1, <1>5, <1>6, <1>7, <1>8, <1>9, <1>10 DEF TidyCall

\* All calls after a step keep the directories tidy.
LEMMA AllTidyKept ==
  ASSUME NEW fat, NEW dat, NEW td, NEW rt, Good(fat, dat, td, rt), AllTidy(fat, dat, td),
         NEW fat2, NEW dat2, NEW td2, NEW cs, Restacked(td2, td, cs),
         KeepsTidy(fat, dat, td, fat2, dat2), HandsTidy(fat2, dat, dat2, td, cs),
         \A m \in 1..Len(cs) : TidyCall(fat2, dat2, td2, m)
  PROVE  AllTidy(fat2, dat2, td2)
<1>1. ASSUME NEW m \in 1..Len(td2) PROVE TidyCall(fat2, dat2, td2, m)
  <2>1. \/ m \in 1..Len(cs) /\ td2[m] = cs[m]
        \/ \E i \in 2..Len(td) : Lower(td2, td, cs, i, m)
    BY LowerIs
  <2>2. CASE m \in 1..Len(cs)
    BY <2>2
  <2>3. CASE \E i \in 2..Len(td) : Lower(td2, td, cs, i, m)
    BY <2>3, LowerTidy
  <2> QED BY <2>1, <2>2, <2>3
<1> QED BY <1>1 DEF AllTidy

\* A step that changes nothing but the calls.
LEMMA TidyStep ==
  ASSUME NEW fat, NEW dat, NEW td, NEW rt, Good(fat, dat, td, rt), TidyTree(fat, dat, td),
         NEW td2, NEW f, NEW cs, Moves(td2, td, f, cs), \A y \in Entries : ~Zeroes(td[1], y),
         HandsTidy(fat, dat, dat, td, cs),
         \A m \in 1..Len(cs) : TidyCall(fat, dat, td2, m)
  PROVE  TidyTree(fat, dat, td2)
<1>1. Restacked(td2, td, cs)
  BY MovesStack
<1>2. Tidied(fat, dat, td) /\ AllTidy(fat, dat, td)
  BY TidyFacts
<1>3. AllTidy(fat, dat, td2)
  BY <1>1, <1>2, KeepsSame, AllTidyKept
<1>4. \A x \in Entries : Clears(td, x) => Clears(td2, x)
  BY <1>1, ClearsOn
<1>5. Tidied(fat, dat, td2)
  BY <1>2, <1>4 DEF Tidied
<1> QED BY <1>3, <1>5 DEF TidyTree
-----------------------------------------------------------------------------
\* A call that makes no directory, deletes nothing and changes no entry.
Mild(dat, t) == /\ t.f \notin {"delete_file", "delete_inside", "free_chain", "create_file", "find_new"}
                /\ MakesNone(dat, t) /\ Inert(dat, t)

\* Calls that are mild by their kind.
LEMMA MildKinds ==
  ASSUME NEW dat, NEW t,
         t.f \in {"modify_fat", "write_fat", "return", "extend_file", "grow", "fill", "look", "write_to_file"}
  PROVE  Mild(dat, t)
BY DEF Mild, MakesNone, Inert, NewDir

\* What goes on as mild calls hands all of it on.
LEMMA HandsMild ==
  ASSUME NEW fat, NEW dat, NEW td, NEW cs, td[1].f \notin {"create_file", "find_new"},
         \A j \in 1..Len(cs) : Mild(dat, cs[j])
  PROVE  HandsTidy(fat, dat, dat, td, cs)
BY DEF HandsTidy, Mild, Calm, MakesFile

\* A deletion has nothing to hand on.
LEMMA HandsUncalm ==
  ASSUME NEW fat, NEW dat, NEW dat2, NEW td, 1 \in 1..Len(td), td[1].f \in {"delete_file", "delete_inside", "free_chain"}, NEW cs
  PROVE  HandsTidy(fat, dat, dat2, td, cs)
<1>1. ~Calm(td)
  BY DEF Calm
<1>2. \A p : ~MakesFile(td[1], p)
  BY DEF MakesFile
<1> QED BY <1>1, <1>2 DEF HandsTidy

\* Calls of which nothing is asked.
LEMMA TidyPlain ==
  ASSUME NEW fat, NEW dat, NEW td, NEW i,
         td[i].f \notin {"write_data", "modify_fat", "write_fat", "write_to_file", "grow", "fill"}
  PROVE  TidyCall(fat, dat, td, i)
BY DEF TidyCall

\* An end or a free mark.
LEMMA TidyMark ==
  ASSUME NEW fat, NEW dat, NEW td, NEW i, td[i].f = "modify_fat", td[i].args[2] \notin Entries
  PROVE  TidyCall(fat, dat, td, i)
BY DEF TidyCall, TidyModify

\* A call that is done and changes nothing.
LEMMA TidyPop ==
  ASSUME NEW fat, NEW dat, NEW td, NEW rt, Good(fat, dat, td, rt), TidyTree(fat, dat, td),
         NEW td2, NEW f, NEW cs, Moves(td2, td, f, cs), IsNone(cs), f \notin {"create_file", "find_new"},
         \A y \in Entries : ~Zeroes(td[1], y)
  PROVE  TidyTree(fat, dat, td2)
<1>1. \A m \in 1..Len(cs) : FALSE
  BY NoCalls
<1>2. td[1].f = f
  BY MovesStack
<1>3. HandsTidy(fat, dat, dat, td, cs)
  BY <1>1, <1>2, HandsMild
<1> QED BY <1>1, <1>3, TidyStep

\* modify_fat goes on as one write for each copy.
LEMMA TidyModified ==
  ASSUME NEW fat, NEW dat, NEW td, NEW rt, Good(fat, dat, td, rt), TidyTree(fat, dat, td), NEW td2, NEW cs,
         Moves(td2, td, "modify_fat", cs), NEW c \in Entries, NEW w, td[1].args[2] = w,
         NEW img, Puts(fat, img, c, w), IsWrites(cs, img)
  PROVE  TidyTree(fat, dat, td2)
<1>1. Restacked(td2, td, cs) /\ td[1].f = "modify_fat" /\ 1 \in 1..Len(td) /\ Len(td) \in Nat
  BY MovesStack
<1>2. \A k \in 1..Len(cs) : cs[k].f = "write_fat" /\ cs[k].args[1] = k /\ cs[k].args[2] = img /\ td2[k] = cs[k]
  BY <1>1 DEF IsWrites, Restacked
<1>3. \A y \in Entries : ~Zeroes(td[1], y)
  BY <1>1 DEF Zeroes
<1>4. HandsTidy(fat, dat, dat, td, cs)
  <2>1. \A j \in 1..Len(cs) : Mild(dat, cs[j])
    BY <1>2, MildKinds
  <2> QED BY <1>1, <2>1, HandsMild
<1>5. ASSUME w \in Entries PROVE Clears(td2, w)
  <2>1. TidyModify(td, 1)
    BY <1>1, TidyFacts DEF TidyCall
  <2>2. Clears(td, w)
    BY <1>1, <1>5, <2>1 DEF TidyModify, ClearsBelow, Clears
  <2> QED BY <1>1, <1>3, <1>5, <2>2, ClearsOn
<1>6. fat \in [Entries -> Links]
  BY GoodFacts, SoundFacts, FatIsChained
<1>7. ASSUME NEW m \in 1..Len(cs) PROVE TidyCall(fat, dat, td2, m)
  <2>1. ASSUME NEW y \in Entries, img[y] \in Entries, img[y] # fat[y] PROVE Clears(td2, img[y])
    <3>1. y = c /\ img[y] = w
      BY <1>6, <2>1 DEF Puts
    <3> QED BY <1>5, <2>1, <3>1
  <2>2. TidyFat(fat, td2, m)
    BY <1>2, <2>1 DEF TidyFat
  <2> QED BY <1>2, <2>2 DEF TidyCall
<1> QED BY <1>3, <1>4, <1>7, TidyStep

\* The first cluster of the chain is freed, then the rest.
LEMMA TidyFreed ==
  ASSUME NEW fat, NEW dat, NEW td, NEW rt, Good(fat, dat, td, rt), TidyTree(fat, dat, td), NEW td2, NEW cs,
         Moves(td2, td, "free_chain", cs), NEW c, NEW x, IsTwo(cs, modify_fat(c, 0), FreeFrom(x))
  PROVE  TidyTree(fat, dat, td2)
<1>1. Restacked(td2, td, cs) /\ td[1].f = "free_chain" /\ 1 \in 1..Len(td)
  BY MovesStack
<1>2. \A y \in Entries : ~Zeroes(td[1], y)
  BY <1>1 DEF Zeroes
<1>3. HandsTidy(fat, dat, dat, td, cs)
  BY <1>1, HandsUncalm
<1>4. Len(cs) = 2 /\ cs[1] = modify_fat(c, 0) /\ cs[2] = FreeFrom(x)
  BY DEF IsTwo
<1>5. ASSUME NEW m \in 1..Len(cs) PROVE TidyCall(fat, dat, td2, m)
  <2>1. td2[m] = cs[m] /\ (m = 1 \/ m = 2)
    BY <1>1, <1>4 DEF Restacked
  <2>2. CASE m = 1
    <3>1. td2[m].f = "modify_fat" /\ td2[m].args[2] = 0
      BY <1>4, <2>1, <2>2, CallsAre
    <3> QED BY <3>1, TidyMark, RootFacts
  <2>3. CASE m = 2
    <3>1. td2[m].f = "free_chain"
      BY <1>4, <2>1, <2>3, CallsAre
    <3> QED BY <3>1, TidyPlain
  <2> QED BY <2>1, <2>2, <2>3
<1> QED BY <1>2, <1>3, <1>5, TidyStep

\* What is in a directory is deleted, entry by entry.
LEMMA TidyInside ==
  ASSUME NEW fat, NEW dat, NEW td, NEW rt, Good(fat, dat, td, rt), TidyTree(fat, dat, td), NEW td2, NEW cs,
         Moves(td2, td, "delete_inside", cs), \A j \in 1..Len(cs) : cs[j].f \in {"delete_file", "delete_inside"}
  PROVE  TidyTree(fat, dat, td2)
<1>1. Restacked(td2, td, cs) /\ td[1].f = "delete_inside" /\ 1 \in 1..Len(td)
  BY MovesStack
<1>2. \A y \in Entries : ~Zeroes(td[1], y)
  BY <1>1 DEF Zeroes
<1>3. HandsTidy(fat, dat, dat, td, cs)
  BY <1>1, HandsUncalm
<1>4. \A m \in 1..Len(cs) : td2[m] = cs[m]
  BY <1>1 DEF Restacked
<1>5. \A m \in 1..Len(cs) : TidyCall(fat, dat, td2, m)
  BY <1>4, TidyPlain
<1> QED BY <1>2, <1>3, <1>5, TidyStep
-----------------------------------------------------------------------------
\* A directory whose clearing no call is waiting to do is cleared already.
LEMMA TidyNow ==
  ASSUME NEW fat, NEW dat, NEW td, Tidied(fat, dat, td), NEW v \in Entries, DirHead(dat, v),
         NEW x \in Entries, x \in Reach(fat, v), ~Clears(td, x)
  PROVE  Tidy(dat[x])
BY DEF Tidied

\* Nothing is cleared while something is deleted,
LEMMA NoClears ==
  ASSUME NEW fat, NEW dat, NEW td, AllTidy(fat, dat, td), ~Calm(td), NEW x \in Entries
  PROVE  ~Clears(td, x)
<1>1. ASSUME NEW i \in 1..Len(td), Zeroes(td[i], x) PROVE FALSE
  <2>1. TidyWrite(fat, dat, td, i)
    BY <1>1 DEF AllTidy, TidyCall, Zeroes
  <2>2. td[i].args[1] = x /\ td[i].args[2] = Zero
    BY <1>1 DEF Zeroes
  <2> QED BY <2>1, <2>2 DEF TidyWrite
<1> QED BY <1>1 DEF Clears

\* nor when only the rest of the command waits.
LEMMA RestClears ==
  ASSUME NEW td, Len(td) \in Nat, Rest(td, 1), td[1].f # "write_data", NEW x
  PROVE  ~Clears(td, x)
<1>1. ASSUME NEW i \in 1..Len(td), Zeroes(td[i], x) PROVE FALSE
  <2>1. i = 1 \/ i \in 1+1..Len(td)
    OBVIOUS
  <2> QED BY <1>1, <2>1 DEF Rest, Zeroes
<1> QED BY <1>1 DEF Clears

\* What delete_file writes last is a row of entries again.
LEMMA MarkTidy ==
  ASSUME NEW dat, RowsSound(dat), NEW loc \in Places, Tidy(dat[loc.cluster]), NEW img, img = MarkOf(dat, loc)
  PROVE  Tidy(img) /\ img # Zero
<1>1. loc.cluster \in Entries /\ loc.slot \in 1..Slots
  BY PlaceIs
<1> DEFINE row == RowFrom(dat[loc.cluster])
<1>2. row \in Rows /\ \A s \in 1..Slots : row[s].name # "text"
  BY <1>1, RowIs DEF Tidy
<1>3. img = [row EXCEPT ![loc.slot].name = "0xE5"]
  BY DEF MarkOf
<1> HIDE DEF row
<1>4. img \in Rows /\ img[loc.slot].name = "0xE5" /\ \A s \in 1..Slots : s # loc.slot => img[s] = row[s]
  BY <1>1, <1>2, <1>3 DEF Rows, Unused
<1>5. RowFrom(img) = img
  BY <1>4, TextAssumption DEF RowFrom
<1>6. Zero[loc.slot].name = "0x00"
  BY <1>1 DEF Zero, Blank, Entry
<1> QED BY <1>2, <1>4, <1>5, <1>6 DEF Tidy

\* delete_file goes on with what is inside, the chain and the entry.
LEMMA TidyDeleted ==
  ASSUME NEW fat, NEW dat, NEW td, NEW rt, Good(fat, dat, td, rt), TidyTree(fat, dat, td), NEW td2, NEW cs,
         Moves(td2, td, "delete_file", cs), NEW p, NEW loc, Target(fat, dat, p, loc), NEW list,
         DeletesBy(dat, loc, p, list, cs)
  PROVE  TidyTree(fat, dat, td2)
<1>1. Restacked(td2, td, cs) /\ td[1].f = "delete_file" /\ 1 \in 1..Len(td)
  BY MovesStack
<1>2. \A y \in Entries : ~Zeroes(td[1], y)
  BY <1>1 DEF Zeroes
<1>3. HandsTidy(fat, dat, dat, td, cs)
  BY <1>1, HandsUncalm
<1>4. /\ Len(cs) = 3 /\ cs[1].f = "delete_inside" /\ cs[2].f = "free_chain"
      /\ cs[3].f = "write_data" /\ cs[3].args[1] = loc.cluster /\ cs[3].args[2] = MarkOf(dat, loc)
      /\ \A m \in 1..Len(cs) : td2[m] = cs[m] /\ (m = 1 \/ m = 2 \/ m = 3)
  BY <1>1 DEF DeletesBy, Restacked
<1>5. DiskSound(fat, dat) /\ RowsSound(dat) /\ Tidied(fat, dat, td) /\ AllTidy(fat, dat, td) /\ ~Calm(td)
  BY <1>1, GoodFacts, SoundFacts, TidyFacts DEF Calm
<1>6. loc \in Places /\ loc.cluster \in Entries
  BY PlaceIs DEF Target
<1>7. Tidy(dat[loc.cluster])
  <2>1. p \in Seq(NamesOf) /\ p # <<>> /\ Len(p) \in Nat \ {0}
    BY DEF Target
  <2>2. PICK g : IsWay(fat, dat, g, Front(p)) /\ loc.cluster \in Reach(fat, g[Len(p)-1])
    BY DEF Target
  <2>3. Len(Front(p)) = Len(p) - 1 /\ Len(p) - 1 \in Nat
    BY <2>1, FrontIs
  <2>4. Len(p) - 1 \in 0..Len(Front(p)) /\ Len(Front(p)) \in Nat
    BY <2>3
  <2>5. g[Len(p)-1] \in Entries /\ DirHead(dat, g[Len(p)-1])
    BY <1>5, <2>2, <2>4, WayHeads
  <2>6. ~Clears(td, loc.cluster)
    BY <1>5, <1>6, NoClears
  <2> QED BY <1>5, <1>6, <2>2, <2>5, <2>6, TidyNow
<1>8. Tidy(MarkOf(dat, loc)) /\ MarkOf(dat, loc) # Zero /\ Thins(dat, loc.cluster, MarkOf(dat, loc))
  BY <1>5, <1>6, <1>7, MarkTidy, MarkIs
<1>9. ASSUME NEW m \in 1..Len(cs) PROVE TidyCall(fat, dat, td2, m)
  <2>1. CASE m = 1 \/ m = 2
    BY <1>4, <2>1, TidyPlain
  <2>2. CASE m = 3
    <3>1. td2[3].f = "write_data" /\ td2[3].args[1] = loc.cluster /\ td2[3].args[2] = MarkOf(dat, loc)
      BY <1>4, <2>2
    <3>2. \A s \in 1..Slots : ~NewDir(dat, td2[3], s)
      BY <1>8, <3>1 DEF NewDir, Thins
    <3>3. TidyWrite(fat, dat, td2, 3)
      BY <1>8, <3>1, <3>2 DEF TidyWrite
    <3> QED BY <2>2, <3>1, <3>3 DEF TidyCall
  <2> QED BY <1>4, <2>1, <2>2
<1> QED BY <1>2, <1>3, <1>9, TidyStep

\* create_file deletes what has the name first.
LEMMA TidyCreated ==
  ASSUME NEW fat, NEW dat, NEW td, NEW rt, Good(fat, dat, td, rt), TidyTree(fat, dat, td), NEW td2, NEW cs,
         Moves(td2, td, "create_file", cs), NEW p, td[1].args[1] = p, NEW d, td[1].args[2] = d,
         IsOne(cs, CreateAt(p, d)) \/ IsTwo(cs, delete_file(p), CreateAt(p, d))
  PROVE  TidyTree(fat, dat, td2)
<1>1. Restacked(td2, td, cs) /\ td[1].f = "create_file" /\ 1 \in 1..Len(td)
  BY MovesStack
<1>2. \A y \in Entries : ~Zeroes(td[1], y)
  BY <1>1 DEF Zeroes
<1>3. /\ \A m \in 1..Len(cs) : cs[m].f \in {"find_new", "delete_file"} /\ td2[m] = cs[m]
      /\ \E j \in 1..Len(cs) : cs[j].f = "find_new" /\ cs[j].args[1] = p /\ cs[j].args[2] = d
  <2>1. \A m \in 1..Len(cs) : td2[m] = cs[m]
    BY <1>1 DEF Restacked
  <2>2. CASE IsOne(cs, CreateAt(p, d))
    <3>1. Len(cs) = 1 /\ cs[1] = CreateAt(p, d)
      BY <2>2 DEF IsOne
    <3>2. 1 \in 1..Len(cs) /\ \A m \in 1..Len(cs) : m = 1
      BY <3>1
    <3> QED BY <2>1, <3>1, <3>2, CallsAre
  <2>3. CASE IsTwo(cs, delete_file(p), CreateAt(p, d))
    <3>1. Len(cs) = 2 /\ cs[1] = delete_file(p) /\ cs[2] = CreateAt(p, d)
      BY <2>3 DEF IsTwo
    <3>2. 2 \in 1..Len(cs) /\ \A m \in 1..Len(cs) : m = 1 \/ m = 2
      BY <3>1
    <3> QED BY <2>1, <3>1, <3>2, CallsAre
  <2> QED BY <2>2, <2>3
<1>4. ~Calm(td)
  BY <1>1 DEF Calm
<1>5. ASSUME NEW q, MakesFile(td[1], q) PROVE \E j \in 1..Len(cs) : MakesFile(cs[j], q)
  BY <1>3, <1>5 DEF MakesFile
<1>6. HandsTidy(fat, dat, dat, td, cs)
  BY <1>4, <1>5 DEF HandsTidy
<1>7. \A m \in 1..Len(cs) : TidyCall(fat, dat, td2, m)
  BY <1>3, TidyPlain
<1> QED BY <1>2, <1>6, <1>7, TidyStep

\* No directory has the path of the file that is about to be made.
LEMMA NoDirThere ==
  ASSUME NEW fat, NEW dat, NEW td, CreateAtOK(fat, dat, td, 1)
  PROVE  NoDir(fat, dat, td[1].args[1])
<1> DEFINE p == td[1].args[1]
<1>1. /\ p \in Paths
      /\ \A g \in [0..Len(p)-1 -> Entries] : IsWay(fat, dat, g, Front(p)) =>
           \A l \in UsedIn(dat) : l.cluster \in Reach(fat, g[Len(p)-1]) => AtIn(dat, l).name # Last(p)
  <2>1. \A q, l : ~Covered(dat, td, 1, q, l)
    BY DEF Covered
  <2> QED BY <2>1 DEF CreateAtOK
<1>2. /\ p \in Seq(NamesOf) /\ p # <<>> /\ Len(p) \in Nat \ {0} /\ Len(Front(p)) = Len(p) - 1
      /\ Last(p) = p[Len(p)] /\ \A i \in 1..Len(p)-1 : Front(p)[i] = p[i]
  <2>1. p \in Seq(NamesOf) /\ p # <<>>
    BY <1>1, PathParts
  <2> QED BY <2>1, FrontIs
<1> HIDE DEF p
<1>3. SUFFICES ASSUME NEW h, IsWay(fat, dat, h, p) PROVE FALSE
  BY DEF NoDir, p
<1>4. /\ h \in [0..Len(p) -> Entries] /\ h[0] = Root
      /\ \A k \in 1..Len(p) : Leads(fat, dat, h[k-1], p[k], h[k])
  BY <1>3 DEF IsWay
<1> DEFINE g == [k \in 0..Len(p)-1 |-> h[k]]
<1>5. g \in [0..Len(p)-1 -> Entries] /\ \A k \in 0..Len(p)-1 : g[k] = h[k]
  BY <1>2, <1>4
<1> HIDE DEF g
<1>6. 0 \in 0..Len(p)-1 /\ Len(p)-1 \in 0..Len(p)-1 /\ Len(p) \in 1..Len(p)
  BY <1>2
<1>7. ASSUME NEW k \in 1..Len(p)-1 PROVE Leads(fat, dat, g[k-1], Front(p)[k], g[k])
  <2>1. k \in 1..Len(p) /\ k - 1 \in 0..Len(p)-1 /\ k \in 0..Len(p)-1
    BY <1>2
  <2> QED BY <1>2, <1>4, <1>5, <2>1
<1>8. IsWay(fat, dat, g, Front(p))
  BY <1>2, <1>4, <1>5, <1>6, <1>7 DEF IsWay
<1>9. Leads(fat, dat, g[Len(p)-1], Last(p), h[Len(p)])
  BY <1>2, <1>4, <1>5, <1>6
<1>10. PICK l \in UsedIn(dat) : l.cluster \in Reach(fat, g[Len(p)-1]) /\ AtIn(dat, l).name = Last(p)
  BY <1>9 DEF Leads
<1> QED BY <1>1, <1>5, <1>8, <1>10

\* The place of the new entry, or a longer directory.
LEMMA TidyPlaced ==
  ASSUME NEW fat, NEW dat, NEW td, NEW rt, Good(fat, dat, td, rt), TidyTree(fat, dat, td), NEW td2, NEW cs,
         Moves(td2, td, "find_new", cs), NEW p, td[1].args[1] = p, NEW d, td[1].args[2] = d, NEW c, NEW loc,
         IsNone(cs) \/ IsOne(cs, PlaceAt(loc, p, d)) \/ IsTwo(cs, extend_file(c), PlaceInNew(p, d))
  PROVE  TidyTree(fat, dat, td2)
<1>1. Restacked(td2, td, cs) /\ td[1].f = "find_new" /\ 1 \in 1..Len(td)
  BY MovesStack
<1>2. \A y \in Entries : ~Zeroes(td[1], y)
  BY <1>1 DEF Zeroes
<1>3. CreateAtOK(fat, dat, td, 1)
  BY <1>1, GoodFacts DEF AllSound, CallSound
<1>4. Rest(td, 1) /\ NoDir(fat, dat, p)
  BY <1>3, NoDirThere DEF CreateAtOK
<1>5. \A m \in 1..Len(cs) : /\ cs[m].f \in {"new_entry", "extend_file", "entry_in_new"} /\ td2[m] = cs[m]
                            /\ cs[m].f = "entry_in_new" => cs[m].args[2] = d
                            /\ cs[m].f = "new_entry" => cs[m].args[3] = d
  <2>1. \A m \in 1..Len(cs) : td2[m] = cs[m]
    BY <1>1 DEF Restacked
  <2>2. CASE IsNone(cs)
    BY <2>2, NoCalls
  <2>3. CASE IsOne(cs, PlaceAt(loc, p, d))
    <3>1. Len(cs) = 1 /\ cs[1] = PlaceAt(loc, p, d)
      BY <2>3 DEF IsOne
    <3>2. \A m \in 1..Len(cs) : m = 1
      BY <3>1
    <3> QED BY <2>1, <3>1, <3>2, CallsAre
  <2>4. CASE IsTwo(cs, extend_file(c), PlaceInNew(p, d))
    <3>1. Len(cs) = 2 /\ cs[1] = extend_file(c) /\ cs[2] = PlaceInNew(p, d)
      BY <2>4 DEF IsTwo
    <3>2. \A m \in 1..Len(cs) : m = 1 \/ m = 2
      BY <3>1
    <3> QED BY <2>1, <3>1, <3>2, CallsAre
  <2> QED BY <2>2, <2>3, <2>4
<1>6. ~Calm(td) /\ Calm(cs)
  BY <1>1, <1>5 DEF Calm
<1>7. ASSUME NEW q, MakesFile(td[1], q)
      PROVE  NoDir(fat, dat, q) /\ \A j \in 1..Len(cs) : MakesNone(dat, cs[j])
  <2>1. q = p /\ ~d
    BY <1>1, <1>7 DEF MakesFile
  <2>2. \A j \in 1..Len(cs) : MakesNone(dat, cs[j])
    BY <1>5, <2>1 DEF MakesNone, NewDir
  <2> QED BY <1>4, <2>1, <2>2
<1>8. HandsTidy(fat, dat, dat, td, cs)
  BY <1>4, <1>6, <1>7 DEF HandsTidy
<1>9. \A m \in 1..Len(cs) : TidyCall(fat, dat, td2, m)
  BY <1>5, TidyPlain
<1> QED BY <1>2, <1>8, <1>9, TidyStep
-----------------------------------------------------------------------------
\* The cluster that was added to the directory takes the entry.
LEMMA TidyTaken ==
  ASSUME NEW fat, NEW dat, NEW td, NEW rt, Good(fat, dat, td, rt), TidyTree(fat, dat, td), NEW td2, NEW cs,
         Moves(td2, td, "entry_in_new", cs), NEW p, NEW d, td[1].args[2] = d, NEW loc,
         IsNone(cs) \/ IsOne(cs, PlaceAt(loc, p, d))
  PROVE  TidyTree(fat, dat, td2)
<1>1. Restacked(td2, td, cs) /\ td[1].f = "entry_in_new" /\ 1 \in 1..Len(td)
  BY MovesStack
<1>2. \A y \in Entries : ~Zeroes(td[1], y)
  BY <1>1 DEF Zeroes
<1>3. \A m \in 1..Len(cs) : cs[m].f = "new_entry" /\ cs[m].args[3] = d /\ td2[m] = cs[m]
  <2>1. CASE IsNone(cs)
    BY <2>1, NoCalls
  <2>2. CASE IsOne(cs, PlaceAt(loc, p, d))
    <3>1. Len(cs) = 1 /\ cs[1] = PlaceAt(loc, p, d)
      BY <2>2 DEF IsOne
    <3>2. \A m \in 1..Len(cs) : m = 1 /\ td2[m] = cs[m]
      BY <1>1, <3>1 DEF Restacked
    <3> QED BY <3>1, <3>2, CallsAre
  <2> QED BY <2>1, <2>2
<1>4. Calm(cs)
  BY <1>3 DEF Calm
<1>5. MakesNone(dat, td[1]) => \A j \in 1..Len(cs) : MakesNone(dat, cs[j])
  <2>1. MakesNone(dat, td[1]) => ~d
    BY <1>1 DEF MakesNone
  <2> QED BY <1>3, <2>1 DEF MakesNone, NewDir
<1>6. \A j \in 1..Len(cs) : Inert(dat, cs[j])
  BY <1>3 DEF Inert
<1>7. HandsTidy(fat, dat, dat, td, cs)
  BY <1>1, <1>4, <1>5, <1>6 DEF HandsTidy, MakesFile
<1>8. \A m \in 1..Len(cs) : TidyCall(fat, dat, td2, m)
  BY <1>3, TidyPlain
<1> QED BY <1>2, <1>7, <1>8, TidyStep

\* Clearing a cluster that nobody has.
LEMMA ZeroMild ==
  ASSUME NEW fat, NEW dat, NEW new, Unclaimed(fat, dat, new), NEW t,
         t.f = "write_data", t.args[1] = new, t.args[2] = Zero
  PROVE  MakesNone(dat, t) /\ Inert(dat, t) /\ Mild(dat, t)
<1>1. \A s \in 1..Slots : ~InUse(RowFrom(Zero)[s])
  BY TidyRow
<1>2. \A l \in UsedIn(dat) : l.cluster # new
  BY DEF Unclaimed
<1> QED BY <1>1, <1>2 DEF MakesNone, Inert, Mild, NewDir

\* Clearing a cluster asks for nothing while nothing is deleted.
LEMMA ZeroTidy ==
  ASSUME NEW fat, NEW dat, NEW td, NEW i, td[i].f = "write_data", td[i].args[2] = Zero, Calm(td)
  PROVE  TidyCall(fat, dat, td, i)
<1>1. Tidy(Zero) /\ \A s \in 1..Slots : ~InUse(RowFrom(Zero)[s])
  BY TidyRow
<1>2. TidyWrite(fat, dat, td, i)
  BY <1>1 DEF TidyWrite, NewDir
<1> QED BY <1>2 DEF TidyCall

\* The sector with the new entry differs from the old in that.
LEMMA WithTidy ==
  ASSUME NEW dat, RowsSound(dat), NEW loc \in Places, NEW p, Last(p) \in Names, NEW d \in BOOLEAN, NEW new \in Entries,
         NEW img, img = WithIn(dat, loc, p, d, new)
  PROVE  /\ Tidy(dat[loc.cluster]) => Tidy(img)
         /\ \A s \in 1..Slots : RowFrom(img)[s] = AtIn(dat, [cluster |-> loc.cluster, slot |-> s])
                                \/ (RowFrom(img)[s].cluster = new /\ RowFrom(img)[s].dir = d)
<1> DEFINE row == RowFrom(dat[loc.cluster])
<1>1. loc.cluster \in Entries /\ loc.slot \in 1..Slots
  BY PlaceIs
<1>2. row \in Rows
  BY <1>1, RowIs
<1>3. img = [row EXCEPT ![loc.slot] = Entry(Last(p), d, new)] /\ (Tidy(dat[loc.cluster]) <=> \A s \in 1..Slots : row[s].name # "text")
  BY DEF WithIn, Tidy
<1>4. \A s \in 1..Slots : AtIn(dat, [cluster |-> loc.cluster, slot |-> s]) = row[s]
  BY DEF AtIn
<1> HIDE DEF row
<1>5. Entry(Last(p), d, new) \in [name : Names \cup Unused \cup {"kernel", "text"}, dir : BOOLEAN, cluster : Links]
      /\ Entry(Last(p), d, new).name = Last(p) /\ Entry(Last(p), d, new).cluster = new /\ Entry(Last(p), d, new).dir = d
  BY DEF Entry, Links
<1>6. img \in Rows
  BY <1>2, <1>3, <1>5 DEF Rows
<1>7. RowFrom(img) = img
  BY <1>6, TextAssumption DEF RowFrom
<1>8. \A s \in 1..Slots : img[s] = IF s = loc.slot THEN Entry(Last(p), d, new) ELSE row[s]
  BY <1>2, <1>3 DEF Rows
<1>9. Last(p) # "text"
  BY KnownFacts DEF Known
<1>10. Tidy(dat[loc.cluster]) => Tidy(img)
  <2>1. SUFFICES ASSUME Tidy(dat[loc.cluster]), NEW s \in 1..Slots PROVE img[s].name # "text"
    BY <1>7 DEF Tidy
  <2> QED BY <1>3, <1>5, <1>8, <1>9, <2>1
<1>11. ASSUME NEW s \in 1..Slots
       PROVE  RowFrom(img)[s] = AtIn(dat, [cluster |-> loc.cluster, slot |-> s])
              \/ (RowFrom(img)[s].cluster = new /\ RowFrom(img)[s].dir = d)
  <2>1. CASE s = loc.slot
    <3>1. RowFrom(img)[s] = Entry(Last(p), d, new)
      BY <1>7, <1>8, <2>1
    <3> QED BY <1>5, <3>1
  <2>2. CASE s # loc.slot
    <3>1. RowFrom(img)[s] = row[s]
      BY <1>7, <1>8, <2>2
    <3> QED BY <1>4, <3>1
  <2> QED BY <2>1, <2>2
<1> QED BY <1>10, <1>11

\* The cluster is cleared, the entry written, the cluster marked.
LEMMA TidyMade ==
  ASSUME NEW fat, NEW dat, NEW td, NEW rt, Good(fat, dat, td, rt), TidyTree(fat, dat, td), NEW td2, NEW cs,
         Moves(td2, td, "new_entry", cs), NEW loc, td[1].args[1] = loc,
         NEW p, td[1].args[2] = p, NEW d, td[1].args[3] = d, NEW new \in Entries, fat[new] = 0,
         IsThree(cs, WriteData(new, Zero), WriteData(loc.cluster, WithIn(dat, loc, p, d, new)), modify_fat(new, EOC))
  PROVE  TidyTree(fat, dat, td2)
<1>1. Restacked(td2, td, cs) /\ td[1].f = "new_entry" /\ 1 \in 1..Len(td) /\ Len(td) \in Nat
  BY MovesStack
<1>2. \A y \in Entries : ~Zeroes(td[1], y)
  BY <1>1 DEF Zeroes
<1>3. PlaceOK(fat, dat, td, 1)
  BY <1>1, GoodFacts DEF AllSound, CallSound
<1>4. /\ Calm(td) /\ Rest(td, 1) /\ p \in Paths /\ d \in BOOLEAN /\ loc \in Places
      /\ InDir(fat, dat, loc.cluster, Last(p)) /\ Last(p) \in Names
  BY <1>3, PathParts DEF PlaceOK
<1>5. DiskSound(fat, dat) /\ RowsSound(dat) /\ Tidied(fat, dat, td) /\ Unclaimed(fat, dat, new) /\ loc.cluster \in Entries
  BY <1>1, <1>4, GoodFacts, SoundFacts, TidyFacts, FreeUnclaimed, PlaceIs
<1> DEFINE img == WithIn(dat, loc, p, d, new)
<1>6. Tidy(dat[loc.cluster])
  <2>1. PICK v \in Entries : DirHead(dat, v) /\ loc.cluster \in Reach(fat, v)
    BY <1>4 DEF InDir
  <2>2. ~Clears(td, loc.cluster)
    BY <1>1, <1>4, RestClears
  <2> QED BY <1>5, <2>1, <2>2, TidyNow
<1>7. /\ Tidy(img)
      /\ \A s \in 1..Slots : RowFrom(img)[s] = AtIn(dat, [cluster |-> loc.cluster, slot |-> s])
                             \/ (RowFrom(img)[s].cluster = new /\ RowFrom(img)[s].dir = d)
  BY <1>4, <1>5, <1>6, WithTidy
<1>8. Len(cs) = 3 /\ cs[1] = WriteData(new, Zero) /\ cs[2] = WriteData(loc.cluster, img) /\ cs[3] = modify_fat(new, EOC)
  BY DEF IsThree
<1> HIDE DEF img
<1>9. /\ \A m \in 1..Len(cs) : td2[m] = cs[m] /\ (m = 1 \/ m = 2 \/ m = 3)
      /\ 1 \in 1..Len(cs) /\ 2 \in 1..Len(cs) /\ 3 \in 1..Len(cs)
  BY <1>1, <1>8 DEF Restacked
<1>10. /\ cs[1].f = "write_data" /\ cs[1].args[1] = new /\ cs[1].args[2] = Zero
       /\ cs[2].f = "write_data" /\ cs[2].args[1] = loc.cluster /\ cs[2].args[2] = img
       /\ cs[3].f = "modify_fat" /\ cs[3].args[2] = EOC
  BY <1>8, CallsAre
<1>11. Calm(cs)
  BY <1>9, <1>10 DEF Calm
<1>12. Calm(td2)
  BY <1>1, <1>4, <1>11, CalmKept
<1>13. MakesNone(dat, td[1]) => \A j \in 1..Len(cs) : MakesNone(dat, cs[j])
  <2>1. SUFFICES ASSUME ~d PROVE \A j \in 1..Len(cs) : MakesNone(dat, cs[j])
    BY <1>1 DEF MakesNone
  <2>2. MakesNone(dat, cs[1])
    BY <1>5, <1>10, ZeroMild
  <2>3. MakesNone(dat, cs[2])
    BY <1>7, <1>10, <2>1 DEF MakesNone, NewDir
  <2>4. MakesNone(dat, cs[3])
    BY <1>10 DEF MakesNone, NewDir
  <2> QED BY <1>9, <2>2, <2>3, <2>4
<1>14. HandsTidy(fat, dat, dat, td, cs)
  BY <1>1, <1>4, <1>11, <1>13 DEF HandsTidy, MakesFile
<1>15. TidyCall(fat, dat, td2, 1)
  BY <1>9, <1>10, <1>12, ZeroTidy
<1>16. TidyCall(fat, dat, td2, 2)
  <2>1. td2[2].f = "write_data" /\ td2[2].args[1] = loc.cluster /\ td2[2].args[2] = img
    BY <1>9, <1>10
  <2>2. ClearsBefore(td2, 2, new)
    <3>1. 1 \in 1..2-1 /\ Zeroes(td2[1], new)
      BY <1>9, <1>10 DEF Zeroes
    <3> QED BY <3>1 DEF ClearsBefore
  <2>3. \A s \in 1..Slots : NewDir(dat, td2[2], s) => RowFrom(img)[s].cluster = new
    BY <1>7, <2>1 DEF NewDir
  <2>4. TidyWrite(fat, dat, td2, 2)
    BY <1>7, <1>12, <2>1, <2>2, <2>3 DEF TidyWrite
  <2> QED BY <2>1, <2>4 DEF TidyCall
<1>17. TidyCall(fat, dat, td2, 3)
  BY <1>9, <1>10, TidyMark, RootFacts
<1> QED BY <1>2, <1>9, <1>14, <1>15, <1>16, <1>17, TidyStep

\* A cluster is marked, linked to, cleared and returned.
LEMMA TidyExtended ==
  ASSUME NEW fat, NEW dat, NEW td, NEW rt, Good(fat, dat, td, rt), TidyTree(fat, dat, td), NEW td2, NEW cs,
         Moves(td2, td, "extend_file", cs), NEW new \in Entries, fat[new] = 0, NEW c,
         IsFour(cs, modify_fat(new, EOC), modify_fat(c, new), WriteData(new, Zero), Returns(new))
  PROVE  TidyTree(fat, dat, td2)
<1>1. Restacked(td2, td, cs) /\ td[1].f = "extend_file" /\ 1 \in 1..Len(td) /\ Calm(td) /\ Unclaimed(fat, dat, new)
  BY MovesStack, ExtendWaits, FreeUnclaimed
<1>2. \A y \in Entries : ~Zeroes(td[1], y)
  BY <1>1 DEF Zeroes
<1>3. /\ Len(cs) = 4 /\ cs[1] = modify_fat(new, EOC) /\ cs[2] = modify_fat(c, new)
      /\ cs[3] = WriteData(new, Zero) /\ cs[4] = Returns(new)
  BY DEF IsFour
<1>4. \A m \in 1..Len(cs) : td2[m] = cs[m] /\ m \in 1..Len(td2) /\ (m = 1 \/ m = 2 \/ m = 3 \/ m = 4)
  BY <1>1, <1>3 DEF Restacked
<1>5. /\ cs[1].f = "modify_fat" /\ cs[1].args[2] = EOC
      /\ cs[2].f = "modify_fat" /\ cs[2].args[2] = new
      /\ cs[3].f = "write_data" /\ cs[3].args[1] = new /\ cs[3].args[2] = Zero
      /\ cs[4].f = "return"
  BY <1>3, CallsAre
<1>6. \A m \in 1..Len(cs) : Mild(dat, cs[m])
  <2>1. Mild(dat, cs[1]) /\ Mild(dat, cs[2]) /\ Mild(dat, cs[4])
    BY <1>5, MildKinds
  <2>2. Mild(dat, cs[3])
    BY <1>1, <1>5, ZeroMild
  <2> QED BY <1>4, <2>1, <2>2
<1>7. HandsTidy(fat, dat, dat, td, cs)
  BY <1>1, <1>6, HandsMild
<1>8. Calm(cs)
  BY <1>6 DEF Mild, Calm
<1>9. Calm(td2)
  BY <1>1, <1>8, CalmKept
<1>10. 1 \in 1..Len(cs) /\ 2 \in 1..Len(cs) /\ 3 \in 1..Len(cs) /\ 4 \in 1..Len(cs)
  BY <1>3
<1>11. TidyCall(fat, dat, td2, 1)
  BY <1>4, <1>5, <1>10, TidyMark, RootFacts
<1>12. TidyCall(fat, dat, td2, 2)
  <2>1. 3 \in 2+1..Len(td2) /\ Zeroes(td2[3], new)
    <3>1. 3 \in 1..Len(td2) /\ Len(td2) \in Nat
      BY <1>1, <1>4, <1>10 DEF Restacked
    <3> QED BY <1>4, <1>5, <1>10, <3>1 DEF Zeroes
  <2>2. td2[2].f = "modify_fat" /\ td2[2].args[2] = new
    BY <1>4, <1>5, <1>10
  <2>3. TidyModify(td2, 2)
    BY <2>1, <2>2 DEF TidyModify, ClearsBelow
  <2> QED BY <2>2, <2>3 DEF TidyCall
<1>13. TidyCall(fat, dat, td2, 3)
  BY <1>4, <1>5, <1>9, <1>10, ZeroTidy
<1>14. TidyCall(fat, dat, td2, 4)
  BY <1>4, <1>5, <1>10, TidyPlain
<1>15. \A m \in 1..Len(cs) : TidyCall(fat, dat, td2, m)
  BY <1>4, <1>11, <1>12, <1>13, <1>14
<1> QED BY <1>2, <1>7, <1>15, TidyStep
-----------------------------------------------------------------------------
\* The calls of write_to_file, and of what it goes on as.
LEMMA TidyTexts ==
  ASSUME NEW fat, NEW dat, NEW td, NEW i, td[i].f \in {"grow", "fill"},
         NEW c, td[i].f = "grow" => c = td[i].args[3], td[i].f = "fill" => c = td[i].args[1],
         c \in Entries => InFile(fat, dat, c) /\ \A j \in 1..i-1 : Inert(dat, td[j])
  PROVE  TidyCall(fat, dat, td, i)
<1>1. TidyText(fat, dat, td, i, c)
  BY DEF TidyText
<1> QED BY <1>1 DEF TidyCall

\* A call that only the rest of the command waits for goes on as calls of which
\* all but the last change no entry.
LEMMA TidyWriting ==
  ASSUME NEW fat, NEW dat, NEW td, NEW rt, Good(fat, dat, td, rt), TidyTree(fat, dat, td),
         NEW td2, NEW f, NEW cs, Moves(td2, td, f, cs), f \in {"write_to_file", "grow"},
         NEW c, c \in Entries => InFile(fat, dat, c),
         NEW a, NEW b,
         \/ IsNone(cs)
         \/ IsOne(cs, b)
         \/ IsTwo(cs, a, b),
         a.f = "extend_file" \/ (a.f = "modify_fat" /\ a.args[2] = EOC),
         b.f \in {"grow", "fill"}, b.f = "grow" => c = b.args[3], b.f = "fill" => c = b.args[1]
  PROVE  TidyTree(fat, dat, td2)
<1>1. Restacked(td2, td, cs) /\ td[1].f = f /\ 1 \in 1..Len(td)
  BY MovesStack
<1>2. \A y \in Entries : ~Zeroes(td[1], y)
  BY <1>1 DEF Zeroes
<1>3. CASE IsNone(cs)
  BY <1>2, <1>3, TidyPop
<1>4. CASE IsOne(cs, b)
  <2>1. Len(cs) = 1 /\ cs[1] = b
    BY <1>4 DEF IsOne
  <2>2. \A m \in 1..Len(cs) : td2[m] = b /\ cs[m] = b /\ m = 1
    BY <1>1, <2>1 DEF Restacked
  <2>3. HandsTidy(fat, dat, dat, td, cs)
    BY <1>1, <2>2, MildKinds, HandsMild
  <2>4. \A j \in 1..1-1 : FALSE
    OBVIOUS
  <2>5. \A m \in 1..Len(cs) : TidyCall(fat, dat, td2, m)
    BY <2>2, <2>4, TidyTexts
  <2> QED BY <1>2, <2>3, <2>5, TidyStep
<1>5. CASE IsTwo(cs, a, b)
  <2>1. Len(cs) = 2 /\ cs[1] = a /\ cs[2] = b
    BY <1>5 DEF IsTwo
  <2>2. \A m \in 1..Len(cs) : td2[m] = cs[m] /\ (m = 1 \/ m = 2)
    BY <1>1, <2>1 DEF Restacked
  <2>3. 1 \in 1..Len(cs) /\ 2 \in 1..Len(cs)
    BY <2>1
  <2>4. Mild(dat, a) /\ Mild(dat, b)
    BY MildKinds
  <2>5. HandsTidy(fat, dat, dat, td, cs)
    BY <1>1, <2>1, <2>2, <2>4, HandsMild
  <2>6. TidyCall(fat, dat, td2, 1)
    <3>1. td2[1] = a
      BY <2>1, <2>2, <2>3
    <3> QED BY <3>1, TidyPlain, TidyMark, RootFacts
  <2>7. TidyCall(fat, dat, td2, 2)
    <3>1. td2[2] = b /\ td2[1] = a
      BY <2>1, <2>2, <2>3
    <3>2. \A j \in 1..2-1 : Inert(dat, td2[j])
      <4>1. \A j \in 1..2-1 : j = 1
        OBVIOUS
      <4> QED BY <2>4, <3>1, <4>1 DEF Mild
    <3> QED BY <3>1, <3>2, TidyTexts
  <2> QED BY <1>2, <2>2, <2>5, <2>6, <2>7, TidyStep
<1> QED BY <1>3, <1>4, <1>5

\* What write_to_file finds is a file.
LEMMA FileFound ==
  ASSUME NEW fat, NEW dat, NEW td, NEW rt, Good(fat, dat, td, rt), TidyTree(fat, dat, td), 1 \in 1..Len(td),
         td[1].f = "write_to_file", NEW loc, Target(fat, dat, td[1].args[1], loc), AtIn(dat, loc).cluster \in Entries
  PROVE  InFile(fat, dat, AtIn(dat, loc).cluster)
<1> DEFINE p == td[1].args[1]
<1>1. DiskSound(fat, dat) /\ Chained(fat)
  BY GoodFacts, SoundFacts
<1>2. NoDir(fat, dat, p)
  <2>1. TidySave(fat, dat, td, 1)
    BY TidyFacts DEF TidyCall
  <2>2. \A k \in 1..1-1 : FALSE
    OBVIOUS
  <2> QED BY <2>1, <2>2 DEF TidySave
<1>3. ~AtIn(dat, loc).dir
  <2>1. SUFFICES ASSUME AtIn(dat, loc).dir PROVE FALSE
    OBVIOUS
  <2>2. \E h : IsWay(fat, dat, h, p)
    BY <1>1, <2>1, TargetWay
  <2> QED BY <1>2, <2>2 DEF NoDir
<1>4. loc \in UsedIn(dat)
  BY RootFacts DEF Target
<1>5. AtIn(dat, loc).cluster \in Reach(fat, AtIn(dat, loc).cluster)
  BY <1>1, ReachClosed
<1> QED BY <1>3, <1>4, <1>5 DEF InFile

\* One piece of the text.
LEMMA TidyFilled ==
  ASSUME NEW fat, NEW dat, NEW td, NEW rt, Good(fat, dat, td, rt), TidyTree(fat, dat, td), NEW td2, NEW cs,
         Moves(td2, td, "fill", cs), NEW c, td[1].args[1] = c, NEW x \in Pieces, NEW k, NEW t,
         IsTwo(cs, WriteData(c, x), Fill(EntryIn(fat, c), k, t))
  PROVE  TidyTree(fat, dat, td2)
<1> DEFINE e == EntryIn(fat, c)
<1>1. Restacked(td2, td, cs) /\ td[1].f = "fill" /\ 1 \in 1..Len(td) /\ Len(td) \in Nat
  BY MovesStack
<1>2. \A y \in Entries : ~Zeroes(td[1], y)
  BY <1>1 DEF Zeroes
<1>3. Calm(td) /\ Rest(td, 1) /\ DiskSound(fat, dat) /\ Chained(fat)
  BY <1>1, GoodFacts, SoundFacts DEF AllSound, CallSound
<1>4. c \in Entries => InFile(fat, dat, c)
  BY <1>1, TidyFacts DEF TidyCall, TidyText
<1>5. e \in Entries => c \in Entries /\ InFile(fat, dat, e)
  <2>1. SUFFICES ASSUME e \in Entries PROVE c \in Entries /\ InFile(fat, dat, e)
    OBVIOUS
  <2>2. c \in Entries /\ e = fat[c]
    BY <2>1, ChainOrNone DEF EntryIn
  <2>3. PICK l \in UsedIn(dat) : ~AtIn(dat, l).dir /\ c \in Reach(fat, AtIn(dat, l).cluster)
    BY <1>4, <2>2 DEF InFile
  <2>4. AtIn(dat, l).cluster \in Entries
    BY <1>3, <2>3, SoundFacts, HeadFacts
  <2>5. e \in Reach(fat, AtIn(dat, l).cluster)
    BY <1>3, <2>1, <2>2, <2>3, <2>4, ReachClosed DEF Closed
  <2> QED BY <2>2, <2>3, <2>5 DEF InFile
<1> HIDE DEF e
<1>6. Len(cs) = 2 /\ cs[1] = WriteData(c, x) /\ cs[2] = Fill(e, k, t)
  BY DEF IsTwo, e
<1>7. /\ \A m \in 1..Len(cs) : td2[m] = cs[m] /\ (m = 1 \/ m = 2)
      /\ 1 \in 1..Len(cs) /\ 2 \in 1..Len(cs) /\ Len(td2) \in Nat
  BY <1>1, <1>6 DEF Restacked
<1>8. /\ td2[1] = cs[1] /\ cs[1].f = "write_data" /\ cs[1].args[1] = c /\ cs[1].args[2] = x
      /\ td2[2] = cs[2] /\ cs[2].f = "fill" /\ cs[2].args[1] = e
  BY <1>6, <1>7, CallsAre
<1>9. Calm(cs)
  BY <1>7, <1>8 DEF Calm
<1>10. Calm(td2) /\ Rest(td2, 2)
  BY <1>1, <1>3, <1>6, <1>9, RestAbove
<1>11. \A s \in 1..Slots : ~InUse(RowFrom(x)[s])
  BY TidyRow
<1>12. HandsTidy(fat, dat, dat, td, cs)
  <2>1. \A j \in 1..Len(cs) : MakesNone(dat, cs[j])
    BY <1>7, <1>8, <1>11 DEF MakesNone, NewDir
  <2> QED BY <1>1, <1>3, <1>9, <2>1 DEF HandsTidy, MakesFile
<1>13. NoOther(td2)
  <2>1. \A j \in 2..Len(td2) : j = 2 \/ j \in 2+1..Len(td2)
    BY <1>7
  <2> QED BY <1>8, <1>10, <2>1 DEF NoOther, Rest
<1>14. TidyCall(fat, dat, td2, 1)
  <2>1. \A s \in 1..Slots : ~NewDir(dat, td2[1], s)
    BY <1>8, <1>11 DEF NewDir
  <2>2. TidyWrite(fat, dat, td2, 1)
    BY <1>4, <1>8, <1>10, <1>13, <2>1 DEF TidyWrite
  <2> QED BY <1>8, <2>2 DEF TidyCall
<1>15. TidyCall(fat, dat, td2, 2)
  <2>1. ASSUME e \in Entries, NEW j \in 1..2-1 PROVE Inert(dat, td2[j])
    <3>1. j = 1
      BY <2>1
    <3>2. \A l \in UsedIn(dat) : l.cluster # c
      BY <1>3, <1>4, <1>5, <2>1, FileHoldsNone
    <3> QED BY <1>8, <1>11, <3>1, <3>2 DEF Inert
  <2> QED BY <1>5, <1>8, <2>1, TidyTexts
<1> QED BY <1>2, <1>7, <1>12, <1>14, <1>15, TidyStep
-----------------------------------------------------------------------------
\* Where no directory gets anything more to lead to, no path gets a directory.
LEMMA NoDirKept ==
  ASSUME NEW fat, NEW dat, NEW fat2, NEW dat2,
         \A v \in Entries : \A n, x : Leads(fat2, dat2, v, n, x) => Leads(fat, dat, v, n, x),
         NEW p, Len(p) \in Nat, NoDir(fat, dat, p)
  PROVE  NoDir(fat2, dat2, p)
<1> SUFFICES ASSUME NEW g, IsWay(fat2, dat2, g, p) PROVE FALSE
  BY DEF NoDir
<1>1. g \in [0..Len(p) -> Entries] /\ g[0] = Root /\ \A k \in 1..Len(p) : Leads(fat2, dat2, g[k-1], p[k], g[k])
  BY DEF IsWay
<1>2. ASSUME NEW k \in 1..Len(p) PROVE Leads(fat, dat, g[k-1], p[k], g[k])
  <2>1. k - 1 \in 0..Len(p)
    OBVIOUS
  <2>2. g[k-1] \in Entries
    BY <1>1, <2>1
  <2> QED BY <1>1, <2>2
<1>3. IsWay(fat, dat, g, p)
  BY <1>1, <1>2 DEF IsWay
<1> QED BY <1>3 DEF NoDir

\* What a write of the FAT must leave as it is.
FatTidy(fat, dat, td, fat2) ==
  /\ Calm(td) => /\ \A x : InFile(fat, dat, x) => InFile(fat2, dat, x)
                 /\ \A v \in Entries : \A n, x : Leads(fat2, dat, v, n, x) => Leads(fat, dat, v, n, x)
  /\ \A v, x \in Entries : x \in Reach(fat2, v) => x \in Reach(fat, v) \/ Clears(td, x)

\* An end mark changes no chain,
LEMMA EndTidy ==
  ASSUME NEW fat, NEW dat, DiskSound(fat, dat), NEW td, NEW c \in Entries, EndOK(fat, td, c),
         NEW fat2, Puts(fat, fat2, c, EOC)
  PROVE  FatTidy(fat, dat, td, fat2)
<1>1. FatSound(fat) /\ HeadsSound(fat, dat) /\ fat[c] \notin Entries
  BY SoundFacts DEF EndOK
<1>2. \A v \in Entries : Reach(fat2, v) = Reach(fat, v)
  BY <1>1, EndSame
<1>3. \A l \in UsedIn(dat) : AtIn(dat, l).cluster \in Entries
  BY <1>1, HeadFacts
<1>4. \A x : InFile(fat, dat, x) => InFile(fat2, dat, x)
  BY <1>2, <1>3 DEF InFile
<1>5. \A v \in Entries : \A n, x : Leads(fat2, dat, v, n, x) => Leads(fat, dat, v, n, x)
  BY <1>2 DEF Leads
<1> QED BY <1>2, <1>4, <1>5 DEF FatTidy

\* a free mark makes one shorter,
LEMMA ZeroTidied ==
  ASSUME NEW fat, NEW dat, DiskSound(fat, dat), NEW td, NEW c \in Entries, ZeroOK(fat, dat, td, c),
         NEW fat2, Puts(fat, fat2, c, 0)
  PROVE  FatTidy(fat, dat, td, fat2)
<1>1. FatSound(fat) /\ ~Calm(td) /\ c \in Entries \ {Root} /\ \A d \in Entries : fat[d] # c
  BY SoundFacts DEF ZeroOK
<1>2. \A v \in Entries : Reach(fat2, v) \subseteq Reach(fat, v)
  BY <1>1, FreeLess
<1> QED BY <1>1, <1>2 DEF FatTidy

\* and a link makes one longer by a cluster that is to be cleared.
LEMMA LinkTidy ==
  ASSUME NEW fat, NEW dat, DiskSound(fat, dat), NEW td, NEW c \in Entries, NEW w \in Entries,
         LinkOn(fat, dat, td, 1, c, w), fat[w] # 0, Clears(td, w), NEW fat2, Puts(fat, fat2, c, w)
  PROVE  FatTidy(fat, dat, td, fat2)
<1>1. /\ FatSound(fat) /\ HeadsSound(fat, dat) /\ fat[c] \notin Entries /\ fat[w] \notin Entries /\ w # c
      /\ w \in Entries \ {Root} /\ (\A d \in Entries : fat[d] # w) /\ \A l \in UsedIn(dat) : l.cluster # w
  BY SoundFacts DEF LinkOn, Unclaimed
<1>2. \A v \in Entries : Reach(fat, v) \subseteq Reach(fat2, v) /\ Reach(fat2, v) \subseteq Reach(fat, v) \cup {w}
  BY <1>1, LinkAdds
<1>3. \A l \in UsedIn(dat) : AtIn(dat, l).cluster \in Entries
  BY <1>1, HeadFacts
<1>4. \A x : InFile(fat, dat, x) => InFile(fat2, dat, x)
  BY <1>2, <1>3 DEF InFile
<1>5. \A v \in Entries : \A n, x : Leads(fat2, dat, v, n, x) => Leads(fat, dat, v, n, x)
  BY <1>1, <1>2 DEF Leads
<1> QED BY <1>2, <1>4, <1>5 DEF FatTidy

\* So the directories stay tidy when the FAT is written.
LEMMA TidyFatWritten ==
  ASSUME NEW fat, NEW dat, NEW td, NEW rt, Good(fat, dat, td, rt), TidyTree(fat, dat, td), NEW fat2, NEW td2, NEW cs,
         Moves(td2, td, "write_fat", cs), IsNone(cs), td[1].args[1] = 1, td[1].args[2] = fat2
  PROVE  TidyTree(fat2, dat, td2)
<1>1. Restacked(td2, td, cs) /\ td[1].f = "write_fat" /\ 1 \in 1..Len(td)
  BY MovesStack
<1>2. DiskSound(fat, dat) /\ AllSound(fat, dat, td, rt) /\ Tidied(fat, dat, td) /\ AllTidy(fat, dat, td)
  BY GoodFacts, TidyFacts
<1>3. \A y \in Entries : ~Zeroes(td[1], y)
  BY <1>1 DEF Zeroes
<1>4. WriteFatOK(fat, dat, td, 1) /\ TidyFat(fat, td, 1)
  BY <1>1, <1>2 DEF AllSound, CallSound, AllTidy, TidyCall
<1>5. PICK c \in Entries, w \in Links : /\ fat2 = [fat EXCEPT ![c] = w]
                                        /\ ChangeOK(fat, dat, td, 1, c, w)
                                        /\ w \in Entries => fat[w] # 0
  BY <1>4 DEF WriteFatOK
<1>6. Puts(fat, fat2, c, w) /\ fat \in [Entries -> Links]
  BY <1>2, <1>5, SoundFacts, FatIsChained DEF Puts
<1>7. FatTidy(fat, dat, td, fat2)
  <2>1. CASE w = EOC
    BY <1>2, <1>5, <1>6, <2>1, EndTidy DEF ChangeOK
  <2>2. CASE w = 0
    BY <1>2, <1>5, <1>6, <2>2, ZeroTidied DEF ChangeOK
  <2>3. CASE w \in Entries
    <3>1. LinkOn(fat, dat, td, 1, c, w) /\ fat[w] # 0
      BY <1>5, <2>3 DEF ChangeOK
    <3>2. fat2[c] = w /\ fat[c] # w
      BY <1>5, <1>6, <2>3, <3>1 DEF LinkOn
    <3>3. Clears(td, w)
      BY <1>4, <2>3, <3>2 DEF TidyFat
    <3> QED BY <1>2, <1>6, <2>3, <3>1, <3>3, LinkTidy
  <2> QED BY <2>1, <2>2, <2>3 DEF Links
<1>8. KeepsTidy(fat, dat, td, fat2, dat)
  <2>1. ASSUME Calm(td) PROVE \A p : Len(p) \in Nat /\ NoDir(fat, dat, p) => NoDir(fat2, dat, p)
    BY <1>7, <2>1, NoDirKept DEF FatTidy
  <2> QED BY <1>3, <1>7, <2>1 DEF FatTidy, KeepsTidy
<1>9. HandsTidy(fat2, dat, dat, td, cs) /\ \A m \in 1..Len(cs) : TidyCall(fat2, dat, td2, m)
  BY <1>1, NoCalls DEF HandsTidy, MakesFile, Calm
<1>10. AllTidy(fat2, dat, td2)
  BY <1>1, <1>2, <1>8, <1>9, AllTidyKept
<1>11. Tidied(fat2, dat, td2)
  <2>1. \A x \in Entries : Clears(td, x) => Clears(td2, x)
    BY <1>1, <1>3, ClearsOn
  <2> QED BY <1>2, <1>7, <2>1 DEF FatTidy, Tidied
<1> QED BY <1>10, <1>11 DEF TidyTree
-----------------------------------------------------------------------------
\* An entry for a directory was there before a cluster was written, or is new.
LEMMA DirWritten ==
  ASSUME NEW dat, RowsSound(dat), NEW t, NEW c \in Entries, NEW img \in Rows \cup Pieces, TextIsText(RowFrom(img)),
         t.f = "write_data", t.args[1] = c, t.args[2] = img, NEW dat2, Puts(dat, dat2, c, img),
         NEW l \in UsedIn(dat2), AtIn(dat2, l).dir
  PROVE  \/ l \in UsedIn(dat) /\ AtIn(dat2, l) = AtIn(dat, l)
         \/ l.slot \in 1..Slots /\ NewDir(dat, t, l.slot) /\ RowFrom(img)[l.slot] = AtIn(dat2, l)
<1>1. l \in Places /\ InUse(AtIn(dat2, l)) /\ l = [cluster |-> l.cluster, slot |-> l.slot] /\ l.slot \in 1..Slots
  BY PlaceIs DEF UsedIn
<1>2. /\ l.cluster # c => AtIn(dat2, l) = AtIn(dat, l)
      /\ l.cluster = c => AtIn(dat2, l) = RowFrom(img)[l.slot]
  BY <1>1, WriteIs
<1>3. CASE AtIn(dat2, l) = AtIn(dat, l)
  BY <1>1, <1>3 DEF UsedIn
<1>4. CASE AtIn(dat2, l) # AtIn(dat, l)
  <2>1. l.cluster = c /\ AtIn(dat2, l) = RowFrom(img)[l.slot] /\ l = [cluster |-> c, slot |-> l.slot]
    BY <1>1, <1>2, <1>4
  <2>2. NewDir(dat, t, l.slot)
    BY <1>1, <1>4, <2>1 DEF NewDir
  <2> QED BY <1>1, <2>1, <2>2
<1> QED BY <1>3, <1>4

\* A write to a cluster disturbs nothing that the waiting calls rely on.
LEMMA WriteKeeps ==
  ASSUME NEW fat, NEW dat, RowsSound(dat), NEW td, NEW c \in Entries, NEW img \in Rows \cup Pieces,
         TextIsText(RowFrom(img)), td[1].f = "write_data", td[1].args[1] = c, td[1].args[2] = img,
         NEW dat2, Puts(dat, dat2, c, img), Tidy(img) \/ NoOther(td)
  PROVE  KeepsTidy(fat, dat, td, fat, dat2)
<1>1. /\ \A l \in Places : l.cluster # c => AtIn(dat2, l) = AtIn(dat, l)
      /\ \A l \in Places : l.cluster = c => AtIn(dat2, l) = RowFrom(img)[l.slot]
      /\ \A d \in Entries : d # c => dat2[d] = dat[d]
  BY WriteIs
<1>0. dat2[c] = img
  BY DEF Puts, RowsSound
<1>2. ASSUME Inert(dat, td[1])
      PROVE  /\ \A x : InFile(fat, dat, x) => InFile(fat, dat2, x)
             /\ UsedIn(dat2) \subseteq UsedIn(dat)
  <2>1. (\A l \in UsedIn(dat) : l.cluster # c) /\ \A s \in 1..Slots : ~InUse(RowFrom(img)[s])
    BY <1>2 DEF Inert
  <2>2. ASSUME NEW l \in UsedIn(dat) PROVE l \in UsedIn(dat2) /\ AtIn(dat2, l) = AtIn(dat, l)
    BY <1>1, <2>1 DEF UsedIn
  <2>3. ASSUME NEW l \in UsedIn(dat2) PROVE l \in UsedIn(dat)
    <3>1. l \in Places /\ InUse(AtIn(dat2, l)) /\ l.slot \in 1..Slots
      BY PlaceIs DEF UsedIn
    <3>2. l.cluster # c
      BY <1>1, <2>1, <3>1
    <3> QED BY <1>1, <3>1, <3>2 DEF UsedIn
  <2> QED BY <2>2, <2>3 DEF InFile
<1>3. ASSUME MakesNone(dat, td[1]) PROVE \A p : Len(p) \in Nat /\ NoDir(fat, dat, p) => NoDir(fat, dat2, p)
  <2>1. \A s \in 1..Slots : ~NewDir(dat, td[1], s)
    BY <1>3 DEF MakesNone
  <2>2. ASSUME NEW l \in UsedIn(dat2), AtIn(dat2, l).dir PROVE l \in UsedIn(dat) /\ AtIn(dat2, l) = AtIn(dat, l)
    BY <2>1, <2>2, DirWritten
  <2>3. \A v \in Entries : \A n, x : Leads(fat, dat2, v, n, x) => Leads(fat, dat, v, n, x)
    BY <2>2 DEF Leads
  <2> QED BY <2>3, NoDirKept
<1>4. \A y \in Entries : Zeroes(td[1], y) => Tidy(dat2[y])
  BY <1>0, TidyRow DEF Zeroes
<1> QED BY <1>0, <1>1, <1>2, <1>3, <1>4 DEF KeepsTidy

\* So the directories stay tidy when a cluster is written.
LEMMA TidyDataWritten ==
  ASSUME NEW fat, NEW dat, NEW td, NEW rt, Good(fat, dat, td, rt), TidyTree(fat, dat, td), NEW dat2, NEW td2, NEW cs,
         Moves(td2, td, "write_data", cs), IsNone(cs),
         NEW c \in Entries, td[1].args[1] = c, Puts(dat, dat2, c, td[1].args[2])
  PROVE  TidyTree(fat, dat2, td2)
<1> DEFINE img == td[1].args[2]
<1>1. Restacked(td2, td, cs) /\ td[1].f = "write_data" /\ 1 \in 1..Len(td)
  BY MovesStack
<1>2. /\ DiskSound(fat, dat) /\ AllSound(fat, dat, td, rt) /\ Tidied(fat, dat, td) /\ AllTidy(fat, dat, td)
      /\ RowsSound(dat) /\ Chained(fat)
  BY GoodFacts, TidyFacts, SoundFacts
<1>3. WriteOK(fat, dat, td, 1) /\ TidyWrite(fat, dat, td, 1)
  BY <1>1, <1>2 DEF AllSound, CallSound, AllTidy, TidyCall
<1>4. img \in Rows \cup Pieces /\ TextIsText(RowFrom(img))
  BY <1>3 DEF WriteOK
<1>5. /\ Tidy(img) \/ (InFile(fat, dat, c) /\ NoOther(td))
      /\ \A s \in 1..Slots : NewDir(dat, td[1], s) => Tidy(dat[RowFrom(img)[s].cluster])
  BY <1>3 DEF TidyWrite, ClearsBefore
<1>6. (\A d \in Entries : d # c => dat2[d] = dat[d]) /\ dat2[c] = img
  BY <1>2 DEF Puts, RowsSound
<1>7. KeepsTidy(fat, dat, td, fat, dat2)
  BY <1>1, <1>2, <1>4, <1>5, WriteKeeps
<1>8. HandsTidy(fat, dat, dat2, td, cs) /\ \A m \in 1..Len(cs) : TidyCall(fat, dat2, td2, m)
  BY <1>1, NoCalls DEF HandsTidy, MakesFile, Calm
<1>9. AllTidy(fat, dat2, td2)
  BY <1>1, <1>2, <1>7, <1>8, AllTidyKept
<1>10. ASSUME NEW v \in Entries, NEW x \in Entries, DirHead(dat2, v), x \in Reach(fat, v)
       PROVE  Tidy(dat2[x]) \/ Clears(td2, x)
  <2>1. CASE DirHead(dat, v)
    <3>1. Tidy(dat[x]) \/ Clears(td, x)
      BY <1>2, <1>10, <2>1 DEF Tidied
    <3>2. CASE x = c
      BY <1>2, <1>5, <1>6, <1>10, <2>1, <3>2, FileNoDir
    <3>3. CASE x # c
      <4>1. ~Zeroes(td[1], x)
        BY <3>3 DEF Zeroes
      <4> QED BY <1>1, <1>6, <3>1, <3>3, <4>1, ClearsOn
    <3> QED BY <3>2, <3>3
  <2>2. CASE ~DirHead(dat, v)
    <3>1. PICK l \in UsedIn(dat2) : AtIn(dat2, l).dir /\ AtIn(dat2, l).cluster = v
      BY <1>10, <2>2 DEF DirHead
    <3>2. l.slot \in 1..Slots /\ NewDir(dat, td[1], l.slot) /\ RowFrom(img)[l.slot].cluster = v
      BY <1>1, <1>2, <1>4, <2>2, <3>1, DirWritten DEF DirHead
    <3>3. fat[v] = 0 /\ fat[c] # 0 /\ Tidy(dat[v])
      BY <1>2, <1>3, <1>5, <3>2, NewDirIs
    <3>4. x = v
      BY <1>2, <1>10, <3>3, ReachAlone, RootFacts
    <3> QED BY <1>6, <3>3, <3>4
  <2> QED BY <2>1, <2>2
<1> QED BY <1>9, <1>10 DEF TidyTree, Tidied
-----------------------------------------------------------------------------
(* Ownership.  Each cluster in use, or about to be, belongs to the root, to *)
(* an entry or to a call still to be made (AllBelong), each entry is found  *)
(* under a path (Rooted), and each call still to be made keeps it so        *)
(* (OwnCall): together with Good and TidyTree this is the inductive         *)
(* invariant behind NoneLost.                                               *)

\* The call t will change the entry of c to w.
Changes(fat, t, c, w) == Sets(fat, t, c, w) /\ fat[c] # w

\* The call t writes an entry that leads to c.
Enters(t, c) ==
  /\ t.f = "write_data" /\ t.args[1] \in Entries
  /\ \E s \in 1..Slots : InUse(RowFrom(t.args[2])[s]) /\ RowFrom(t.args[2])[s].cluster = c

\* The call t frees c, links to it or enters it.
Holds(fat, t, c) ==
  \/ t.f = "free_chain" /\ c \in Reach(fat, t.args[1])
  \/ Changes(fat, t, c, 0)
  \/ \E y \in Entries : Changes(fat, t, y, c)
  \/ Enters(t, c)

\* c belongs to the root or to an entry; or to a call still to be made.
Owned(fat, dat, c) ==
  \/ c \in Reach(fat, Root)
  \/ \E l \in UsedIn(dat) : c \in Reach(fat, AtIn(dat, l).cluster)
Belongs(fat, dat, td, c) == Owned(fat, dat, c) \/ \E i \in 1..Len(td) : Holds(fat, td[i], c)

\* c is in use, or a call will mark it so.
Marks(fat, t, c) == Changes(fat, t, c, EOC)
Wanted(fat, td, c) == fat[c] # 0 \/ \E i \in 1..Len(td) : Marks(fat, td[i], c)
AllBelong(fat, dat, td) == \A c \in Entries : Wanted(fat, td, c) => Belongs(fat, dat, td, c)

\* c lies in the directory of the path p.
On(fat, dat, p, c) ==
  \E g \in [0..Len(p)-1 -> Entries] : IsWay(fat, dat, g, Front(p)) /\ c \in Reach(fat, g[Len(p)-1])

\* Each entry is found under a path.
RootPaths == Paths \cup (IF Kernel THEN {<<"kernel">>} ELSE {})
Rooted(fat, dat) ==
  \A l \in UsedIn(dat) : \E p \in RootPaths : Last(p) = AtIn(dat, l).name /\ On(fat, dat, p, l.cluster)

\* What is linked to something is owned then, and only FAT writes come before;
\* what follows a cluster that is freed is freed next.
OwnLinks(fat, dat, td, i) ==
  \A y, w \in Entries : Changes(fat, td[i], y, w) =>
    Owned(fat, dat, y) /\ \A j \in 1..i-1 : FatCall(td[j])
FreesOn(fat, td, i) ==
  \A c \in Entries : Changes(fat, td[i], c, 0) /\ fat[c] \in Entries =>
    \E j \in i+1..Len(td) : /\ td[j].f = "free_chain" /\ td[j].args[1] = fat[c]
                            /\ \A k \in 1..j-1 : FatCall(td[k])

\* An entry that is taken away has lost its chain, which begins at h, by then.
Emptied(fat, td, i, h) ==
  /\ i = 1 => fat[h] = 0
  /\ i > 1 => /\ td[i-1].f = "free_chain"
              /\ \/ td[i-1].args[1] = h
                 \/ fat[h] = 0
                 \/ \E j \in 1..i-2 : Sets(fat, td[j], h, 0)
Marking(t, h) == t.f = "modify_fat" /\ t.args[1] = h /\ t.args[2] = EOC
Unmarked(td, i, h) == \A j \in i+1..Len(td) : ~Marking(td[j], h)

\* The call t writes an entry to the slot s that was not there before.
NewUse(dat, t, s) ==
  LET e == RowFrom(t.args[2])[s]
  IN  /\ t.f = "write_data" /\ t.args[1] \in Entries
      /\ InUse(e) /\ e # AtIn(dat, [cluster |-> t.args[1], slot |-> s])

OwnWrite(fat, dat, td, i) ==
  /\ \A l \in UsedIn(dat) : Removes(td[i], l) =>
       Emptied(fat, td, i, AtIn(dat, l).cluster) /\ Unmarked(td, i, AtIn(dat, l).cluster)
  /\ \A s \in 1..Slots : NewUse(dat, td[i], s) =>
       \E p \in Paths : Last(p) = RowFrom(td[i].args[2])[s].name /\ On(fat, dat, p, td[i].args[1])

\* x lies in the directory of the path p, or will be linked to in it.
ToOn(fat, dat, td, i, p, x) ==
  \/ On(fat, dat, p, x)
  \/ \E j \in 1..i-1, y \in Entries : On(fat, dat, p, y) /\ Sets(fat, td[j], y, x)
OwnNew(fat, dat, td, rt, i) ==
  LET p == td[i].args[1]
  IN  /\ i = 1 => rt = 1 \/ On(fat, dat, p, rt)
      /\ i > 1 => \/ td[i-1].f = "extend_file" /\ On(fat, dat, p, td[i-1].args[1])
                  \/ td[i-1].f = "return" /\ ToOn(fat, dat, td, i, p, td[i-1].args[1])

OwnCall(fat, dat, td, rt, i) ==
  LET f == td[i].f  a == td[i].args IN
  /\ OwnLinks(fat, dat, td, i) /\ FreesOn(fat, td, i)
  /\ f = "write_data" => OwnWrite(fat, dat, td, i)
  /\ f = "extend_file" => a[1] \in Entries \cup {0, 1}
  /\ f = "new_entry" => On(fat, dat, a[2], a[1].cluster)
  /\ f = "entry_in_new" => OwnNew(fat, dat, td, rt, i)

AllOwned(fat, dat, td, rt) == \A i \in 1..Len(td) : OwnCall(fat, dat, td, rt, i)
OwnTree(fat, dat, td, rt) == AllBelong(fat, dat, td) /\ Rooted(fat, dat) /\ AllOwned(fat, dat, td, rt)

-----------------------------------------------------------------------------
(* What lies in a directory *)

\* The paths to entries.
LEMMA RootPathIs ==
  ASSUME NEW p \in RootPaths
  PROVE  /\ p \in Seq(NamesOf) /\ p # <<>> /\ Len(p) \in Nat \ {0}
         /\ Front(p) \in Seq(NamesOf) /\ Len(Front(p)) = Len(p) - 1 /\ Len(Front(p)) \in Nat
<1>1. p \in Seq(NamesOf) /\ p # <<>>
  <2>1. CASE p \in Paths
    BY <2>1, PathIsSeq
  <2>2. CASE p = <<"kernel">>
    <3>1. "kernel" \in NamesOf
      BY DEF NamesOf, Known
    <3>2. p \in Seq(NamesOf) /\ Len(p) = 1
      BY <2>2, <3>1
    <3> QED BY <3>1, <3>2, EmptySeq
  <2> QED BY <2>1, <2>2 DEF RootPaths
<1>2. Len(p) \in Nat \ {0} /\ Front(p) \in Seq(NamesOf) /\ Len(Front(p)) = Len(p) - 1
  BY <1>1, FrontIs
<1> QED BY <1>1, <1>2

\* The way to a directory, and what lies in it.
LEMMA OnWay ==
  ASSUME NEW fat, NEW dat, NEW p \in RootPaths, NEW g, IsWay(fat, dat, g, Front(p)),
         NEW c, c \in Reach(fat, g[Len(p)-1])
  PROVE  On(fat, dat, p, c)
<1>1. g \in [0..Len(p)-1 -> Entries]
  BY RootPathIs DEF IsWay
<1> QED BY <1>1 DEF On

\* And back.
LEMMA WayOn ==
  ASSUME NEW fat, Chained(fat), NEW dat, NEW p \in RootPaths, NEW c, On(fat, dat, p, c)
  PROVE  /\ c \in Entries
         /\ \E g : IsWay(fat, dat, g, Front(p)) /\ g[Len(p)-1] \in Entries /\ c \in Reach(fat, g[Len(p)-1])
<1>1. PICK g \in [0..Len(p)-1 -> Entries] : IsWay(fat, dat, g, Front(p)) /\ c \in Reach(fat, g[Len(p)-1])
  BY DEF On
<1>2. g[Len(p)-1] \in Entries
  BY <1>1, RootPathIs
<1>3. c \in Entries
  BY <1>1, <1>2, ReachWithin
<1> QED BY <1>1, <1>2, <1>3

\* The rest of a chain lies in the same directory.
LEMMA OnReach ==
  ASSUME NEW fat, Chained(fat), NEW dat, NEW p \in RootPaths, NEW c, On(fat, dat, p, c),
         NEW x, x \in Reach(fat, c)
  PROVE  On(fat, dat, p, x)
<1>1. PICK g : IsWay(fat, dat, g, Front(p)) /\ g[Len(p)-1] \in Entries /\ c \in Reach(fat, g[Len(p)-1])
  BY WayOn
<1>2. x \in Reach(fat, g[Len(p)-1])
  BY <1>1, ReachWithin
<1> QED BY <1>1, <1>2, OnWay

\* The clusters of D still follow from where they did, and the entries of what
\* leads to them are still there.
KeepsOn(fat, dat, fat2, dat2, D) ==
  /\ \A m \in UsedIn(dat) : m.cluster \in D
  /\ \A v \in Entries : \A d \in D : d \in Reach(fat, v) => d \in Reach(fat2, v)
  /\ \A m \in UsedIn(dat) : \A d \in D : d \in Reach(fat, AtIn(dat, m).cluster) =>
        m \in UsedIn(dat2) /\ AtIn(dat2, m) = AtIn(dat, m)

\* So each of them lies in the same directory.
LEMMA OnKept ==
  ASSUME NEW fat, Chained(fat), NEW dat, NEW fat2, NEW dat2, NEW D, KeepsOn(fat, dat, fat2, dat2, D),
         NEW p \in RootPaths, NEW c \in D, On(fat, dat, p, c)
  PROVE  On(fat2, dat2, p, c)
<1> DEFINE w == Front(p)
<1>1. PICK g : IsWay(fat, dat, g, w) /\ g[Len(p)-1] \in Entries /\ c \in Reach(fat, g[Len(p)-1])
  BY WayOn
<1>2. Len(w) \in Nat /\ Len(w) = Len(p) - 1
  BY RootPathIs
<1> HIDE DEF w
<1>3. g \in [0..Len(w) -> Entries] /\ g[0] = Root
  BY <1>1 DEF IsWay
<1>4. ASSUME NEW k \in 1..Len(w) PROVE Leads(fat2, dat2, g[k-1], w[k], g[k])
  <2>1. PICK m \in UsedIn(dat) : m.cluster \in Reach(fat, g[k-1]) /\ AtIn(dat, m).name = w[k]
                                 /\ AtIn(dat, m).dir /\ AtIn(dat, m).cluster = g[k]
    BY <1>1 DEF IsWay, Leads
  <2>2. \E d \in D : d \in Reach(fat, g[k])
    <3>1. CASE k = Len(w)
      BY <1>1, <1>2, <3>1
    <3>2. CASE k # Len(w)
      <4>1. k + 1 \in 1..Len(w) /\ (k + 1) - 1 = k
        BY <1>2, <3>2
      <4>2. Leads(fat, dat, g[k], w[k+1], g[k+1])
        BY <1>1, <4>1 DEF IsWay
      <4> QED BY <4>2 DEF Leads, KeepsOn
    <3> QED BY <3>1, <3>2
  <2>3. m \in UsedIn(dat2) /\ AtIn(dat2, m) = AtIn(dat, m)
    BY <2>1, <2>2 DEF KeepsOn
  <2>4. g[k-1] \in Entries
    BY <1>2, <1>3
  <2>5. m.cluster \in Reach(fat2, g[k-1])
    BY <2>1, <2>4 DEF KeepsOn
  <2> QED BY <2>1, <2>3, <2>5 DEF Leads
<1>5. IsWay(fat2, dat2, g, w)
  BY <1>3, <1>4 DEF IsWay
<1>6. c \in Reach(fat2, g[Len(p)-1])
  BY <1>1 DEF KeepsOn
<1> QED BY <1>5, <1>6, OnWay DEF w

-----------------------------------------------------------------------------
(* The calls that wait *)

\* Those that change the FAT are still to be expanded.
LEMMA WaitingSets ==
  ASSUME NEW fat, NEW dat, NEW td, NEW rt, AllSound(fat, dat, td, rt), Len(td) \in Nat, NEW i \in 2..Len(td),
         NEW fat2, NEW y, NEW w, Sets(fat2, td[i], y, w)
  PROVE  /\ td[i].f = "modify_fat" /\ td[i].args[1] = y /\ td[i].args[2] = w /\ w # 0
         /\ \A fat3 : Sets(fat3, td[i], y, w)
         /\ y \in Entries /\ (w = EOC \/ w \in Entries) => fat[y] \notin Entries /\ Calm(td)
         /\ w \in Entries => Calm(td) /\ LinkCall(td[i])
<1>1. i \in 1..Len(td) /\ i # 1
  OBVIOUS
<1>2. CallSound(fat, dat, td, rt, i)
  BY <1>1 DEF AllSound
<1>3. ~(td[i].f = "write_fat" /\ td[i].args[1] = 1)
  BY <1>1, <1>2 DEF CallSound, WriteFatOK
<1>4. td[i].f = "modify_fat" /\ td[i].args[1] = y /\ td[i].args[2] = w
  BY <1>3 DEF Sets
<1>5. ModifyOK(fat, dat, td, i)
  BY <1>2, <1>4 DEF CallSound
<1>6. w # 0 /\ ChangeOK(fat, dat, td, i, y, w)
  BY <1>1, <1>4, <1>5 DEF ModifyOK
<1>7. \A fat3 : Sets(fat3, td[i], y, w)
  BY <1>4 DEF Sets
<1>8. y \in Entries /\ (w = EOC \/ w \in Entries) => fat[y] \notin Entries /\ Calm(td)
  BY <1>6 DEF ChangeOK, EndOK, LinkOn
<1>9. w \in Entries => Calm(td) /\ LinkCall(td[i])
  BY <1>4, <1>6 DEF ChangeOK, LinkOn, LinkCall
<1> QED BY <1>4, <1>6, <1>7, <1>8, <1>9

\* What a step does with the ownership that the waiting calls rely on.
KeepsOwned(fat, dat, td, fat2, dat2, cs) ==
  FatCall(td[1]) => /\ \A j \in 1..Len(cs) : FatCall(cs[j])
                    /\ (\E i \in 2..Len(td) : LinkCall(td[i])) =>
                          \A y \in Entries : Owned(fat, dat, y) => Owned(fat2, dat2, y)

\* The links that wait.
LEMMA LowerLinks ==
  ASSUME NEW fat, NEW dat, NEW td, NEW rt, AllSound(fat, dat, td, rt), Len(td) \in Nat,
         NEW fat2, NEW dat2, NEW td2, NEW cs, KeepsOwned(fat, dat, td, fat2, dat2, cs),
         NEW i, NEW m, Lower(td2, td, cs, i, m), OwnLinks(fat, dat, td, i)
  PROVE  OwnLinks(fat2, dat2, td2, m) /\ FreesOn(fat2, td2, m)
<1>1. i \in 2..Len(td) /\ td2[m] = td[i]
      /\ \A j \in 1..m-1 : (j \in 1..Len(cs) /\ td2[j] = cs[j]) \/ \E k \in 2..i-1 : td2[j] = td[k]
  BY DEF Lower
<1>2. ASSUME NEW y \in Entries, NEW w \in Entries, Changes(fat2, td2[m], y, w)
      PROVE  Owned(fat2, dat2, y) /\ \A j \in 1..m-1 : FatCall(td2[j])
  <2>1. Sets(fat2, td[i], y, w)
    BY <1>1, <1>2 DEF Changes
  <2>2. Sets(fat, td[i], y, w) /\ fat[y] \notin Entries /\ LinkCall(td[i])
    BY <1>1, <2>1, WaitingSets
  <2>3. Changes(fat, td[i], y, w)
    BY <2>2 DEF Changes
  <2>4. Owned(fat, dat, y) /\ \A j \in 1..i-1 : FatCall(td[j])
    BY <2>3 DEF OwnLinks
  <2>5. FatCall(td[1])
    BY <1>1, <2>4
  <2>6. Owned(fat2, dat2, y)
    BY <1>1, <2>2, <2>4, <2>5 DEF KeepsOwned
  <2>7. \A j \in 1..Len(cs) : FatCall(cs[j])
    BY <2>5 DEF KeepsOwned
  <2>8. \A k \in 2..i-1 : FatCall(td[k])
    BY <1>1, <2>4
  <2> QED BY <1>1, <2>6, <2>7, <2>8
<1>3. ASSUME NEW c \in Entries, Changes(fat2, td2[m], c, 0) PROVE FALSE
  <2>1. Sets(fat2, td[i], c, 0)
    BY <1>1, <1>3 DEF Changes
  <2>2. 0 # 0
    BY <1>1, <2>1, WaitingSets
  <2> QED BY <2>2
<1>4. OwnLinks(fat2, dat2, td2, m)
  BY <1>2 DEF OwnLinks
<1>5. FreesOn(fat2, td2, m)
  BY <1>3 DEF FreesOn
<1> QED BY <1>4, <1>5
-----------------------------------------------------------------------------
\* What a step does with the chains and the entries that the waiting writes
\* rely on.
KeepsWrites(fat, dat, td, fat2, dat2, cs) ==
  /\ (\E i \in 2..Len(td) : td[i].f = "write_data") => Fewer(dat, dat2)
  /\ \A c \in Entries : dat2[c] = dat[c] \/ (td[1].f = "write_data" /\ td[1].args[1] = c)
  /\ ~Calm(td) => \A h \in Entries :
        /\ fat[h] = 0 => fat2[h] = 0
        /\ Sets(fat, td[1], h, 0) => fat2[h] = 0 \/ \E j \in 1..Len(cs) : Sets(fat2, cs[j], h, 0)
  /\ td[1].f = "free_chain" =>
        \/ Len(cs) = 0 /\ td[1].args[1] \notin Entries
        \/ Len(cs) = 2 /\ cs[2].f = "free_chain" /\ Sets(fat2, cs[1], td[1].args[1], 0)
  /\ Calm(td) /\ ~Lone(td, 1) =>
        \A p \in RootPaths : \A x \in Entries : On(fat, dat, p, x) => On(fat2, dat2, p, x)

\* A chain has been freed before its entry is taken away.
LEMMA LowerEmptied ==
  ASSUME NEW fat, NEW dat, NEW td, NEW rt, AllSound(fat, dat, td, rt),
         NEW fat2, NEW dat2, NEW td2, NEW cs, KeepsWrites(fat, dat, td, fat2, dat2, cs),
         NEW i, NEW m, Lower(td2, td, cs, i, m), NEW h \in Entries, Emptied(fat, td, i, h)
  PROVE  Emptied(fat2, td2, m, h)
<1>1. /\ i \in 2..Len(td) /\ m \in 1..Len(td2) /\ Len(td) \in Nat /\ Len(td2) \in Nat /\ Len(cs) \in Nat
      /\ \A j \in 1..Len(cs) : j \in 1..m-1 /\ td2[j] = cs[j]
      /\ \A k \in 2..i-1 : \E j \in 1..m-1 : td2[j] = td[k]
      /\ \/ i > 2 /\ m > 1 /\ i-1 \in 2..Len(td) /\ td2[m-1] = td[i-1]
         \/ i = 2 /\ m > 1 /\ Len(cs) \in 1..Len(cs) /\ m - 1 = Len(cs) /\ td2[m-1] = cs[Len(cs)]
         \/ i = 2 /\ m = 1 /\ Len(cs) = 0
  BY DEF Lower
<1>2. td[i-1].f = "free_chain" /\ i - 1 \in 1..Len(td)
  BY <1>1 DEF Emptied
<1>3. ~Calm(td)
  BY <1>2 DEF Calm
<1>4. /\ fat[h] = 0 => fat2[h] = 0
      /\ Sets(fat, td[1], h, 0) => fat2[h] = 0 \/ \E j \in 1..Len(cs) : Sets(fat2, cs[j], h, 0)
  BY <1>3 DEF KeepsWrites
<1>5. td[i-1].args[1] = h \/ fat[h] = 0 \/ \E j \in 1..i-2 : Sets(fat, td[j], h, 0)
  BY <1>1 DEF Emptied
<1>6. CASE i > 2
  <2>1. m > 1 /\ td2[m-1] = td[i-1]
    BY <1>1, <1>6
  <2>2. CASE td[i-1].args[1] = h \/ fat[h] = 0
    BY <1>1, <1>2, <1>4, <2>1, <2>2 DEF Emptied
  <2>3. CASE \E j \in 1..i-2 : Sets(fat, td[j], h, 0)
    <3>1. PICK j \in 1..i-2 : Sets(fat, td[j], h, 0)
      BY <2>3
    <3>2. fat2[h] = 0 \/ \E k \in 1..m-1 : Sets(fat2, td2[k], h, 0)
      <4>1. CASE Sets(fat, td[1], h, 0)
        BY <1>1, <1>4, <4>1
      <4>2. CASE ~Sets(fat, td[1], h, 0)
        <5>1. j \in 2..Len(td) /\ j \in 2..i-1
          BY <1>1, <3>1, <4>2
        <5>2. \A fat3 : Sets(fat3, td[j], h, 0)
          BY <1>1, <3>1, <5>1, WaitingSets
        <5> QED BY <1>1, <5>1, <5>2
      <4> QED BY <4>1, <4>2
    <3>3. ~Sets(fat2, td2[m-1], h, 0)
      BY <1>2, <2>1 DEF Sets
    <3>4. fat2[h] = 0 \/ \E k \in 1..m-2 : Sets(fat2, td2[k], h, 0)
      <4>1. \A k \in 1..m-1 : k = m-1 \/ k \in 1..m-2
        BY <1>1
      <4> QED BY <3>2, <3>3, <4>1
    <3> QED BY <1>2, <2>1, <3>4 DEF Emptied
  <2> QED BY <1>5, <2>2, <2>3
<1>7. CASE i = 2
  <2>1. td[1].f = "free_chain" /\ (td[1].args[1] = h \/ fat[h] = 0)
    BY <1>1, <1>2, <1>5, <1>7
  <2>2. CASE Len(cs) = 0 /\ td[1].args[1] \notin Entries
    <3>1. fat2[h] = 0 /\ m = 1
      BY <1>1, <1>4, <1>7, <2>1, <2>2
    <3> QED BY <3>1 DEF Emptied
  <2>3. CASE Len(cs) = 2 /\ cs[2].f = "free_chain" /\ Sets(fat2, cs[1], td[1].args[1], 0)
    <3>1. m = 3 /\ td2[1] = cs[1] /\ td2[2] = cs[2]
      BY <1>1, <1>7, <2>3
    <3>2. fat2[h] = 0 \/ Sets(fat2, td2[1], h, 0)
      BY <1>4, <2>1, <2>3, <3>1
    <3> QED BY <2>3, <3>1, <3>2 DEF Emptied
  <2> QED BY <2>1, <2>2, <2>3 DEF KeepsWrites
<1> QED BY <1>1, <1>6, <1>7

\* The writes that wait.
LEMMA LowerOwnWrite ==
  ASSUME NEW fat, NEW dat, NEW td, NEW rt, HeadsSound(fat, dat), AllSound(fat, dat, td, rt),
         NEW fat2, NEW dat2, NEW td2, NEW cs, KeepsWrites(fat, dat, td, fat2, dat2, cs),
         NEW i, NEW m, Lower(td2, td, cs, i, m), td[i].f = "write_data", OwnWrite(fat, dat, td, i)
  PROVE  OwnWrite(fat2, dat2, td2, m)
<1>1. /\ i \in 2..Len(td) /\ Len(td) \in Nat /\ td2[m] = td[i] /\ 1 \in 1..i-1
      /\ \A j \in m+1..Len(td2) : \E k \in i+1..Len(td) : td2[j] = td[k]
  BY DEF Lower
<1>2. Fewer(dat, dat2)
  BY <1>1 DEF KeepsWrites
<1>3. ASSUME NEW l \in UsedIn(dat2), Removes(td2[m], l)
      PROVE  Emptied(fat2, td2, m, AtIn(dat2, l).cluster) /\ Unmarked(td2, m, AtIn(dat2, l).cluster)
  <2>1. l \in UsedIn(dat) /\ AtIn(dat2, l) = AtIn(dat, l)
    BY <1>2 DEF Fewer
  <2>2. AtIn(dat, l).cluster \in Entries
    BY <2>1, HeadFacts
  <2>3. Emptied(fat, td, i, AtIn(dat, l).cluster) /\ Unmarked(td, i, AtIn(dat, l).cluster)
    BY <1>1, <1>3, <2>1 DEF OwnWrite
  <2>4. Unmarked(td2, m, AtIn(dat, l).cluster)
    BY <1>1, <2>3 DEF Unmarked
  <2>5. Emptied(fat2, td2, m, AtIn(dat, l).cluster)
    BY <2>2, <2>3, LowerEmptied
  <2> QED BY <2>1, <2>4, <2>5
<1>4. ASSUME NEW s \in 1..Slots, NewUse(dat2, td2[m], s)
      PROVE  \E p \in Paths : Last(p) = RowFrom(td2[m].args[2])[s].name /\ On(fat2, dat2, p, td2[m].args[1])
  <2> DEFINE c == td[i].args[1]
             e == RowFrom(td[i].args[2])[s]
             l == [cluster |-> c, slot |-> s]
  <2>1. c \in Entries /\ InUse(e) /\ e # AtIn(dat2, l)
    BY <1>1, <1>4 DEF NewUse
  <2>2. CallSound(fat, dat, td, rt, i)
    BY <1>1 DEF AllSound
  <2>3. /\ \A j \in 1..i-1 : td[j].f = "write_data" => td[j].args[1] # c
        /\ \/ Thins(dat, c, td[i].args[2])
           \/ Adds(fat, dat, td, i, c, td[i].args[2])
    BY <2>1, <2>2 DEF CallSound, WriteOK
  <2>4. dat2[c] = dat[c]
    BY <1>1, <2>1, <2>3 DEF KeepsWrites
  <2>5. AtIn(dat2, l) = AtIn(dat, l)
    BY <2>4 DEF AtIn
  <2>6. ~Thins(dat, c, td[i].args[2])
    BY <2>1, <2>5 DEF Thins
  <2>7. Calm(td)
    BY <2>3, <2>6 DEF Adds
  <2>8. ~Lone(td, 1)
    BY <1>1, <2>1 DEF Lone
  <2>9. NewUse(dat, td[i], s)
    BY <2>1, <2>5 DEF NewUse
  <2>10. PICK p \in Paths : Last(p) = e.name /\ On(fat, dat, p, c)
    BY <2>9 DEF OwnWrite
  <2>11. p \in RootPaths
    BY DEF RootPaths
  <2>12. On(fat2, dat2, p, c)
    BY <2>1, <2>7, <2>8, <2>10, <2>11 DEF KeepsWrites
  <2> QED BY <1>1, <2>10, <2>12
<1> QED BY <1>3, <1>4 DEF OwnWrite

\* What a step does with what a new entry waits for.
KeepsNew(fat, dat, td, fat2, dat2, rt2, cs) ==
  /\ td[1].f # "extend_file"
  /\ td[1].f = "return" => Len(cs) = 0 /\ rt2 = td[1].args[1]
  /\ Calm(td) => \A p \in RootPaths : \A x, y \in Entries : On(fat, dat, p, y) /\ Sets(fat, td[1], y, x) =>
        \/ On(fat2, dat2, p, x)
        \/ On(fat2, dat2, p, y) /\ \E j \in 1..Len(cs) : Sets(fat2, cs[j], y, x)

\* The new entry that waits.
LEMMA LowerOwnNew ==
  ASSUME NEW fat, NEW dat, NEW td, NEW rt, AllSound(fat, dat, td, rt),
         NEW fat2, NEW dat2, NEW td2, NEW rt2, NEW cs,
         KeepsWrites(fat, dat, td, fat2, dat2, cs), KeepsNew(fat, dat, td, fat2, dat2, rt2, cs),
         NEW i, NEW m, Lower(td2, td, cs, i, m), td[i].f = "entry_in_new", OwnNew(fat, dat, td, rt, i)
  PROVE  OwnNew(fat2, dat2, td2, rt2, m)
<1>1. /\ i \in 2..Len(td) /\ m \in 1..Len(td2) /\ Len(td) \in Nat /\ Len(td2) \in Nat /\ Len(cs) \in Nat
      /\ \A j \in 1..Len(cs) : j \in 1..m-1 /\ td2[j] = cs[j]
      /\ \A k \in 2..i-1 : \E j \in 1..m-1 : td2[j] = td[k]
      /\ td2[m] = td[i]
      /\ \/ i > 2 /\ m > 1 /\ i-1 \in 2..Len(td) /\ td2[m-1] = td[i-1]
         \/ i = 2 /\ m > 1 /\ Len(cs) \in 1..Len(cs) /\ m - 1 = Len(cs) /\ td2[m-1] = cs[Len(cs)]
         \/ i = 2 /\ m = 1 /\ Len(cs) = 0
  BY DEF Lower
<1> DEFINE p == td[i].args[1]
           x == td[i-1].args[1]
<1>2. CallSound(fat, dat, td, rt, i) /\ CallSound(fat, dat, td, rt, i-1) /\ i \in 1..Len(td) /\ i - 1 \in 1..Len(td)
  BY <1>1 DEF AllSound
<1>3. Calm(td) /\ p \in Paths
  BY <1>2 DEF CallSound, InNewOK
<1>4. ~Lone(td, 1)
  BY <1>1 DEF Lone
<1>5. p \in RootPaths
  BY <1>3 DEF RootPaths
<1> HIDE DEF p
<1>6. \A y \in Entries : On(fat, dat, p, y) => On(fat2, dat2, p, y)
  BY <1>3, <1>4, <1>5 DEF KeepsWrites
<1>7. td[i-1].f # "extend_file"
  <2>1. td[i-1].f = "extend_file" => i - 1 = 1
    BY <1>2 DEF CallSound
  <2> QED BY <2>1 DEF KeepsNew
<1>8. td[i-1].f = "return" /\ ToOn(fat, dat, td, i, p, x)
  BY <1>1, <1>7 DEF OwnNew, p
<1>9. x \in Entries
  BY <1>2, <1>8 DEF CallSound
<1> HIDE DEF x
<1>10. CASE i = 2
  <2>1. x = td[1].args[1] /\ td[1].f = "return"
    BY <1>8, <1>10 DEF x
  <2>2. Len(cs) = 0 /\ rt2 = x
    BY <2>1 DEF KeepsNew
  <2>3. m = 1
    BY <1>1, <1>10, <2>2
  <2>4. \A j \in 1..i-1 : \A y : ~Sets(fat, td[j], y, x)
    BY <1>10, <2>1 DEF Sets
  <2>5. On(fat, dat, p, x)
    BY <1>8, <2>4 DEF ToOn
  <2>6. On(fat2, dat2, p, rt2)
    BY <1>6, <1>9, <2>2, <2>5
  <2> QED BY <1>1, <2>3, <2>6 DEF OwnNew, p
<1>11. CASE i # 2
  <2>1. i > 2 /\ m > 1 /\ td2[m-1] = td[i-1]
    BY <1>1, <1>11
  <2>2. ToOn(fat2, dat2, td2, m, p, x)
    <3>1. CASE On(fat, dat, p, x)
      BY <1>6, <1>9, <3>1 DEF ToOn
    <3>2. CASE ~On(fat, dat, p, x)
      <4>1. PICK j \in 1..i-1, y \in Entries : On(fat, dat, p, y) /\ Sets(fat, td[j], y, x)
        BY <1>8, <3>2 DEF ToOn
      <4>2. CASE j = 1
        BY <1>1, <1>3, <1>5, <1>9, <4>1, <4>2 DEF KeepsNew, ToOn
      <4>3. CASE j # 1
        <5>1. j \in 2..Len(td) /\ j \in 2..i-1
          BY <1>1, <4>1, <4>3
        <5>2. \A fat3 : Sets(fat3, td[j], y, x)
          BY <1>1, <4>1, <5>1, WaitingSets
        <5>3. On(fat2, dat2, p, y)
          BY <1>6, <4>1
        <5>4. PICK k \in 1..m-1 : td2[k] = td[j]
          BY <1>1, <5>1
        <5> QED BY <5>2, <5>3, <5>4 DEF ToOn
      <4> QED BY <4>2, <4>3
    <3> QED BY <3>1, <3>2
  <2> QED BY <1>1, <1>8, <2>1, <2>2 DEF OwnNew, p, x
<1> QED BY <1>10, <1>11
-----------------------------------------------------------------------------
\* Calls that nothing is asked of, and calls that leave the disk alone.
LEMMA OwnPlain ==
  ASSUME NEW fat, NEW dat, NEW td, NEW rt, NEW i,
         td[i].f \notin {"modify_fat", "write_fat", "write_data", "extend_file", "new_entry", "entry_in_new"}
  PROVE  OwnCall(fat, dat, td, rt, i)
BY DEF OwnCall, OwnLinks, FreesOn, Changes, Sets

Silent(t) == t.f \notin {"free_chain", "modify_fat", "write_fat", "write_data"}

\* A call that leaves the disk alone holds nothing.
LEMMA SilentHolds ==
  ASSUME NEW t, Silent(t)
  PROVE  /\ \A fat, x, w : ~Sets(fat, t, x, w) /\ ~Changes(fat, t, x, w)
         /\ \A fat, x : ~Holds(fat, t, x) /\ ~Marks(fat, t, x)
         /\ ~FatCall(t) /\ t.f # "free_chain"
<1>1. \A fat, x, w : ~Sets(fat, t, x, w) /\ ~Changes(fat, t, x, w)
  BY DEF Silent, Changes, Sets
<1>2. \A fat, x : ~Holds(fat, t, x) /\ ~Marks(fat, t, x)
  BY <1>1 DEF Silent, Holds, Marks, Enters
<1> QED BY <1>1, <1>2 DEF Silent, FatCall

\* An end mark that is about to be written.
LEMMA OwnMark ==
  ASSUME NEW fat, NEW dat, NEW td, NEW rt, NEW i, td[i].f = "modify_fat", td[i].args[2] = EOC
  PROVE  OwnCall(fat, dat, td, rt, i)
<1>1. EOC \notin Entries /\ EOC # 0
  BY RootFacts
<1>2. \A y : \A w \in Entries \cup {0} : ~Changes(fat, td[i], y, w)
  BY <1>1 DEF Changes, Sets
<1> QED BY <1>2 DEF OwnCall, OwnLinks, FreesOn

\* The waiting calls.
LEMMA LowerOwn ==
  ASSUME NEW fat, NEW dat, NEW td, NEW rt, Good(fat, dat, td, rt), AllOwned(fat, dat, td, rt),
         NEW fat2, NEW dat2, NEW td2, NEW rt2, NEW cs, KeepsOwned(fat, dat, td, fat2, dat2, cs),
         KeepsWrites(fat, dat, td, fat2, dat2, cs), KeepsNew(fat, dat, td, fat2, dat2, rt2, cs),
         NEW i, NEW m, Lower(td2, td, cs, i, m)
  PROVE  OwnCall(fat2, dat2, td2, rt2, m)
<1>1. i \in 2..Len(td) /\ i \in 1..Len(td) /\ i # 1 /\ td2[m] = td[i] /\ Len(td) \in Nat
  BY DEF Lower
<1>2. AllSound(fat, dat, td, rt) /\ HeadsSound(fat, dat)
  BY GoodFacts, SoundFacts
<1>3. CallSound(fat, dat, td, rt, i) /\ OwnCall(fat, dat, td, rt, i)
  BY <1>1, <1>2 DEF AllSound, AllOwned
<1>4. OwnLinks(fat, dat, td, i)
  BY <1>3 DEF OwnCall
<1>5. OwnLinks(fat2, dat2, td2, m) /\ FreesOn(fat2, td2, m)
  BY <1>1, <1>2, <1>4, LowerLinks
<1>6. td2[m].f = "write_data" => OwnWrite(fat2, dat2, td2, m)
  <2> HAVE td2[m].f = "write_data"
  <2>1. td[i].f = "write_data" /\ OwnWrite(fat, dat, td, i)
    BY <1>1, <1>3 DEF OwnCall
  <2> QED BY <1>2, <2>1, LowerOwnWrite
<1>7. td2[m].f # "extend_file" /\ td2[m].f # "new_entry"
  BY <1>1, <1>3 DEF CallSound, PlaceOK
<1>8. td2[m].f = "entry_in_new" => OwnNew(fat2, dat2, td2, rt2, m)
  <2> HAVE td2[m].f = "entry_in_new"
  <2>1. td[i].f = "entry_in_new" /\ OwnNew(fat, dat, td, rt, i)
    BY <1>1, <1>3 DEF OwnCall
  <2> QED BY <1>2, <2>1, LowerOwnNew
<1> QED BY <1>5, <1>6, <1>7, <1>8 DEF OwnCall

\* All calls.
LEMMA AllOwnedKept ==
  ASSUME NEW fat, NEW dat, NEW td, NEW rt, Good(fat, dat, td, rt), AllOwned(fat, dat, td, rt),
         NEW fat2, NEW dat2, NEW td2, NEW rt2, NEW cs, Restacked(td2, td, cs), KeepsOwned(fat, dat, td, fat2, dat2, cs),
         KeepsWrites(fat, dat, td, fat2, dat2, cs), KeepsNew(fat, dat, td, fat2, dat2, rt2, cs),
         \A m \in 1..Len(cs) : OwnCall(fat2, dat2, td2, rt2, m)
  PROVE  AllOwned(fat2, dat2, td2, rt2)
<1> SUFFICES ASSUME NEW m \in 1..Len(td2) PROVE OwnCall(fat2, dat2, td2, rt2, m)
  BY DEF AllOwned
<1>1. m \in 1..Len(cs) \/ \E i \in 2..Len(td) : Lower(td2, td, cs, i, m)
  BY LowerIs
<1> QED BY <1>1, LowerOwn

\* What a step that leaves the disk alone must do with what the running call
\* held and with what the new calls will mark.
HandsOwn(fat, dat, td, td2, cs) ==
  /\ \A x \in Entries : \A j \in 1..Len(cs) : Marks(fat, cs[j], x) =>
        Belongs(fat, dat, td2, x) \/ Marks(fat, td[1], x)
  /\ \A x \in Entries : Holds(fat, td[1], x) /\ Wanted(fat, td2, x) => Belongs(fat, dat, td2, x)

\* Then nothing is lost by a step that leaves the disk alone.
LEMMA BelongSame ==
  ASSUME NEW fat, NEW dat, NEW td, AllBelong(fat, dat, td), NEW td2, NEW cs, Restacked(td2, td, cs),
         HandsOwn(fat, dat, td, td2, cs)
  PROVE  AllBelong(fat, dat, td2)
<1> SUFFICES ASSUME NEW x \in Entries, Wanted(fat, td2, x) PROVE Belongs(fat, dat, td2, x)
  BY DEF AllBelong
<1>1. Len(td) \in Nat \ {0} /\ Len(cs) \in Nat /\ Len(td2) \in Nat
  BY DEF Restacked
<1>2. Belongs(fat, dat, td2, x) \/ Wanted(fat, td, x)
  <2>1. CASE fat[x] # 0
    BY <2>1 DEF Wanted
  <2>2. CASE fat[x] = 0
    <3>1. PICK m \in 1..Len(td2) : Marks(fat, td2[m], x)
      BY <2>2 DEF Wanted
    <3>2. CASE m \in 1..Len(cs) /\ td2[m] = cs[m]
      <4>1. Belongs(fat, dat, td2, x) \/ Marks(fat, td[1], x)
        BY <3>1, <3>2 DEF HandsOwn
      <4>2. 1 \in 1..Len(td)
        BY <1>1
      <4> QED BY <4>1, <4>2 DEF Wanted
    <3>3. CASE \E i \in 2..Len(td) : Lower(td2, td, cs, i, m)
      <4>1. PICK i \in 2..Len(td) : td2[m] = td[i]
        BY <3>3 DEF Lower
      <4>2. i \in 1..Len(td)
        BY <1>1
      <4> QED BY <3>1, <4>1, <4>2 DEF Wanted
    <3> QED BY <3>2, <3>3, LowerIs
  <2> QED BY <2>1, <2>2
<1>3. CASE Wanted(fat, td, x)
  <2>1. CASE Owned(fat, dat, x)
    BY <2>1 DEF Belongs
  <2>2. CASE ~Owned(fat, dat, x)
    <3>1. Belongs(fat, dat, td, x)
      BY <1>3 DEF AllBelong
    <3>2. PICK i \in 1..Len(td) : Holds(fat, td[i], x)
      BY <2>2, <3>1 DEF Belongs
    <3>3. CASE i = 1
      BY <3>2, <3>3 DEF HandsOwn
    <3>4. CASE i # 1
      <4>1. PICK m \in Nat : i \in 2..Len(td) /\ i + Len(cs) = m + 1
        BY <1>1, <3>4
      <4>2. m \in 1..Len(td2) /\ td2[m] = td[i]
        BY <4>1, LowerAt DEF Lower
      <4> QED BY <3>2, <4>2 DEF Belongs
    <3> QED BY <3>3, <3>4
  <2> QED BY <2>1, <2>2
<1> QED BY <1>2, <1>3

\* A step that leaves the disk alone, of a call that does too.
LEMMA OwnMoved ==
  ASSUME NEW fat, NEW dat, NEW td, NEW rt, Good(fat, dat, td, rt), OwnTree(fat, dat, td, rt),
         NEW td2, NEW f, NEW cs, Moves(td2, td, f, cs), Silent(td[1]), f # "extend_file",
         NEW rt2, f = "return" => Len(cs) = 0 /\ rt2 = td[1].args[1],
         \A x \in Entries : \A j \in 1..Len(cs) : Marks(fat, cs[j], x) => Belongs(fat, dat, td2, x),
         \A m \in 1..Len(cs) : OwnCall(fat, dat, td2, rt2, m)
  PROVE  OwnTree(fat, dat, td2, rt2)
<1>1. Restacked(td2, td, cs) /\ td[1].f = f
  BY MovesStack
<1>2. /\ \A x, w : ~Sets(fat, td[1], x, w)
      /\ \A x : ~Holds(fat, td[1], x)
      /\ ~FatCall(td[1]) /\ td[1].f # "free_chain"
  BY SilentHolds
<1>3. AllBelong(fat, dat, td2)
  BY <1>1, <1>2, BelongSame DEF OwnTree, HandsOwn
<1>4. KeepsOwned(fat, dat, td, fat, dat, cs)
  BY <1>2 DEF KeepsOwned
<1>5. KeepsWrites(fat, dat, td, fat, dat, cs)
  BY <1>2, FewerSame DEF KeepsWrites
<1>6. KeepsNew(fat, dat, td, fat, dat, rt2, cs)
  BY <1>1, <1>2 DEF KeepsNew
<1>7. AllOwned(fat, dat, td2, rt2)
  BY <1>1, <1>4, <1>5, <1>6, AllOwnedKept DEF OwnTree
<1> QED BY <1>3, <1>7 DEF OwnTree

\* Or into calls that do too.
LEMMA OwnSilent ==
  ASSUME NEW fat, NEW dat, NEW td, NEW rt, Good(fat, dat, td, rt), OwnTree(fat, dat, td, rt),
         NEW td2, NEW f, NEW cs, Moves(td2, td, f, cs), Silent(td[1]), f # "extend_file",
         NEW rt2, f = "return" => Len(cs) = 0 /\ rt2 = td[1].args[1],
         \A j \in 1..Len(cs) : Silent(cs[j]) /\ cs[j].f \notin {"extend_file", "new_entry", "entry_in_new"}
  PROVE  OwnTree(fat, dat, td2, rt2)
<1>1. Restacked(td2, td, cs)
  BY MovesStack
<1>2. \A x \in Entries : \A j \in 1..Len(cs) : ~Marks(fat, cs[j], x)
  BY SilentHolds
<1>3. ASSUME NEW m \in 1..Len(cs) PROVE OwnCall(fat, dat, td2, rt2, m)
  <2>1. td2[m] = cs[m]
    BY <1>1 DEF Restacked
  <2> QED BY <2>1, OwnPlain DEF Silent
<1> QED BY <1>2, <1>3, OwnMoved

\* A call that is done and has changed nothing.
LEMMA OwnPop ==
  ASSUME NEW fat, NEW dat, NEW td, NEW rt, Good(fat, dat, td, rt), OwnTree(fat, dat, td, rt),
         NEW td2, NEW f, NEW cs, Moves(td2, td, f, cs), IsNone(cs), f # "extend_file",
         \A x \in Entries : ~Holds(fat, td[1], x), \A x \in Entries : \A w : ~Sets(fat, td[1], x, w),
         f = "free_chain" => td[1].args[1] \notin Entries,
         NEW rt2, f = "return" => rt2 = td[1].args[1]
  PROVE  OwnTree(fat, dat, td2, rt2)
<1>1. Restacked(td2, td, cs) /\ td[1].f = f /\ Len(cs) = 0 /\ \A j \in 1..Len(cs) : FALSE
  BY MovesStack, NoCalls DEF IsNone
<1>2. HandsOwn(fat, dat, td, td2, cs)
  BY <1>1 DEF HandsOwn
<1>3. AllBelong(fat, dat, td2)
  BY <1>1, <1>2, BelongSame DEF OwnTree
<1>4. KeepsOwned(fat, dat, td, fat, dat, cs)
  BY <1>1 DEF KeepsOwned
<1>5. KeepsWrites(fat, dat, td, fat, dat, cs)
  BY <1>1, FewerSame DEF KeepsWrites
<1>6. KeepsNew(fat, dat, td, fat, dat, rt2, cs)
  BY <1>1 DEF KeepsNew
<1>7. AllOwned(fat, dat, td2, rt2)
  BY <1>1, <1>4, <1>5, <1>6, AllOwnedKept DEF OwnTree
<1> QED BY <1>3, <1>7 DEF OwnTree
-----------------------------------------------------------------------------
(* The steps that leave the disk alone *)

\* modify_fat,
LEMMA OwnModified ==
  ASSUME NEW fat, NEW dat, NEW td, NEW rt, Good(fat, dat, td, rt), OwnTree(fat, dat, td, rt), NEW td2, NEW cs,
         Moves(td2, td, "modify_fat", cs), NEW c \in Entries, td[1].args[1] = c, NEW w, td[1].args[2] = w,
         NEW img, Puts(fat, img, c, w), IsWrites(cs, img)
  PROVE  OwnTree(fat, dat, td2, rt)
<1>1. /\ Restacked(td2, td, cs) /\ td[1].f = "modify_fat" /\ 1 \in 1..Len(td) /\ Len(td) \in Nat \ {0}
      /\ \A i \in 1..Len(cs) : td2[i] = cs[i]
  BY MovesStack DEF Restacked
<1>2. /\ Len(cs) \in Nat \ {0} /\ 1 \in 1..Len(cs)
      /\ \A k \in 1..Len(cs) : cs[k].f = "write_fat" /\ cs[k].args[1] = k /\ cs[k].args[2] = img
  BY DEF IsWrites
<1>3. fat \in [Entries -> Links]
  BY GoodFacts, SoundFacts, FatIsChained
<1>4. img[c] = w /\ \A d \in Entries : d # c => img[d] = fat[d]
  BY <1>3 DEF Puts
<1>5. \A y, x : Sets(fat, td[1], y, x) => Sets(fat, cs[1], y, x)
  BY <1>1, <1>2 DEF Sets, Puts
<1>6. \A y, x : Changes(fat, td[1], y, x) => Changes(fat, cs[1], y, x)
  BY <1>5 DEF Changes
<1>7. ASSUME NEW j \in 1..Len(cs), NEW y \in Entries, NEW x, Changes(fat, cs[j], y, x)
      PROVE  j = 1 /\ Changes(fat, td[1], y, x)
  <2>1. j = 1 /\ img = [fat EXCEPT ![y] = x] /\ fat[y] # x
    BY <1>2, <1>7 DEF Changes, Sets
  <2>2. img[y] = x
    BY <1>3, <2>1
  <2>3. y = c /\ x = w
    BY <1>4, <2>1, <2>2
  <2> QED BY <1>1, <2>1, <2>3 DEF Changes, Sets
<1>8. HandsOwn(fat, dat, td, td2, cs)
  <2>1. \A x \in Entries : \A j \in 1..Len(cs) : Marks(fat, cs[j], x) => Marks(fat, td[1], x)
    BY <1>7 DEF Marks
  <2>2. ASSUME NEW x \in Entries, Holds(fat, td[1], x) PROVE Belongs(fat, dat, td2, x)
    <3>1. Changes(fat, td[1], x, 0) \/ \E y \in Entries : Changes(fat, td[1], y, x)
      BY <1>1, <2>2 DEF Holds, Enters
    <3>2. Holds(fat, td2[1], x)
      BY <1>1, <1>2, <1>6, <3>1 DEF Holds
    <3>3. 1 \in 1..Len(td2)
      BY <1>1, <1>2 DEF Restacked
    <3> QED BY <3>2, <3>3 DEF Belongs
  <2> QED BY <2>1, <2>2 DEF HandsOwn
<1>9. AllBelong(fat, dat, td2)
  BY <1>1, <1>8, BelongSame DEF OwnTree
<1>10. OwnLinks(fat, dat, td, 1) /\ FreesOn(fat, td, 1)
  BY <1>1 DEF OwnTree, AllOwned, OwnCall
<1>11. ASSUME NEW j \in 1..Len(cs) PROVE OwnCall(fat, dat, td2, rt, j)
  <2>1. td2[j] = cs[j] /\ td2[j].f = "write_fat"
    BY <1>1, <1>2
  <2>2. OwnLinks(fat, dat, td2, j)
    BY <1>7, <1>10, <2>1 DEF OwnLinks
  <2>3. ASSUME NEW d \in Entries, Changes(fat, td2[j], d, 0), fat[d] \in Entries
        PROVE  \E n \in j+1..Len(td2) : /\ td2[n].f = "free_chain" /\ td2[n].args[1] = fat[d]
                                        /\ \A k \in 1..n-1 : FatCall(td2[k])
    <3>1. j = 1 /\ Changes(fat, td[1], d, 0)
      BY <1>7, <2>1, <2>3
    <3>2. PICK i \in 2..Len(td) : /\ td[i].f = "free_chain" /\ td[i].args[1] = fat[d]
                                  /\ \A k \in 1..i-1 : FatCall(td[k])
      BY <1>1, <1>10, <2>3, <3>1 DEF FreesOn
    <3>3. PICK n \in Nat : i + Len(cs) = n + 1
      <4>1. i \in Nat /\ i >= 2 /\ Len(cs) \in Nat
        BY <1>1, <1>2, <3>2
      <4>2. i + Len(cs) - 1 \in Nat /\ i + Len(cs) = (i + Len(cs) - 1) + 1
        BY <4>1
      <4> QED BY <4>2
    <3>4. Lower(td2, td, cs, i, n) /\ n \in 1..Len(td2)
      BY <1>1, <3>2, <3>3, LowerAt
    <3>5. /\ td2[n] = td[i]
          /\ \A k \in 1..n-1 : (k \in 1..Len(cs) /\ td2[k] = cs[k]) \/ \E h \in 2..i-1 : td2[k] = td[h]
          /\ \A k \in 1..Len(cs) : k \in 1..n-1
      BY <3>4 DEF Lower
    <3>6. ASSUME NEW k \in 1..n-1 PROVE FatCall(td2[k])
      <4>1. CASE k \in 1..Len(cs) /\ td2[k] = cs[k]
        BY <1>2, <4>1 DEF FatCall
      <4>2. CASE \E h \in 2..i-1 : td2[k] = td[h]
        <5>1. PICK h \in 2..i-1 : td2[k] = td[h]
          BY <4>2
        <5>2. h \in 1..i-1
          OBVIOUS
        <5> QED BY <3>2, <5>1, <5>2
      <4> QED BY <3>5, <4>1, <4>2
    <3>7. n \in j+1..Len(td2)
      <4>1. 1 \in 1..n-1
        BY <1>2, <3>5
      <4> QED BY <3>1, <3>4, <4>1
    <3> QED BY <3>2, <3>5, <3>6, <3>7
  <2>4. FreesOn(fat, td2, j)
    BY <2>3 DEF FreesOn
  <2> QED BY <2>1, <2>2, <2>4 DEF OwnCall
<1>12. KeepsOwned(fat, dat, td, fat, dat, cs)
  BY <1>2 DEF KeepsOwned, FatCall
<1>13. KeepsWrites(fat, dat, td, fat, dat, cs)
  BY <1>1, <1>2, <1>5, FewerSame DEF KeepsWrites
<1>14. KeepsNew(fat, dat, td, fat, dat, rt, cs)
  BY <1>1, <1>2, <1>5 DEF KeepsNew
<1>15. AllOwned(fat, dat, td2, rt)
  BY <1>1, <1>11, <1>12, <1>13, <1>14, AllOwnedKept DEF OwnTree
<1> QED BY <1>9, <1>15 DEF OwnTree

\* A chain is its first cluster and the rest.
LEMMA ReachRest ==
  ASSUME NEW fat, Chained(fat), NEW c \in Entries, NEW x \in Reach(fat, c), x # c
  PROVE  fat[c] \in Entries /\ x \in Reach(fat, fat[c])
<1>1. CASE fat[c] \notin Entries
  BY <1>1, ReachAlone
<1>2. CASE fat[c] \in Entries
  <2> DEFINE T == {c} \cup Reach(fat, fat[c])
  <2>1. fat[c] \in Reach(fat, fat[c]) /\ Closed(fat, Reach(fat, fat[c]))
    BY <1>2, ReachClosed
  <2>2. c \in T /\ Closed(fat, T)
    BY <2>1 DEF Closed
  <2> HIDE DEF T
  <2>3. x \in T
    BY <2>2, ReachLeast
  <2> QED BY <1>2, <2>3 DEF T
<1> QED BY <1>1, <1>2

\* While something is being deleted no end mark is about to be written.
LEMMA UncalmMarks ==
  ASSUME NEW fat, NEW dat, NEW td, NEW rt, Good(fat, dat, td, rt), ~Calm(td), NEW i \in 2..Len(td), NEW x \in Entries,
         NEW fat2
  PROVE  ~Marks(fat2, td[i], x) /\ ~Marking(td[i], x)
<1>1. Len(td) \in Nat /\ AllSound(fat, dat, td, rt)
  BY GoodFacts
<1> DEFINE w == EOC
<1>2. ASSUME Sets(fat2, td[i], x, w) PROVE FALSE
  <2>1. Sets(fat2, td[i], x, w) /\ Len(td) \in Nat /\ AllSound(fat, dat, td, rt) /\ w = EOC
    BY <1>1, <1>2
  <2> HIDE DEF w
  <2>2. x \in Entries /\ (w = EOC \/ w \in Entries) => fat[x] \notin Entries /\ Calm(td)
    BY <2>1, WaitingSets
  <2> QED BY <2>1, <2>2
<1> QED BY <1>2 DEF Marks, Changes, Marking, Sets

\* the loop that frees a chain,
LEMMA OwnFreed ==
  ASSUME NEW fat, NEW dat, NEW td, NEW rt, Good(fat, dat, td, rt), OwnTree(fat, dat, td, rt), NEW td2, NEW cs,
         Moves(td2, td, "free_chain", cs), NEW c \in Entries, td[1].args[1] = c,
         IsTwo(cs, modify_fat(c, 0), FreeFrom(fat[c]))
  PROVE  OwnTree(fat, dat, td2, rt)
<1>1. /\ Restacked(td2, td, cs) /\ td[1].f = "free_chain" /\ 1 \in 1..Len(td) /\ Len(td) \in Nat \ {0}
      /\ Len(cs) = 2 /\ 1 \in 1..Len(cs) /\ 2 \in 1..Len(cs) /\ \A i \in 1..Len(cs) : td2[i] = cs[i]
      /\ 1 \in 1..Len(td2) /\ 2 \in 1..Len(td2)
  <2>1. Restacked(td2, td, cs) /\ td[1].f = "free_chain" /\ 1 \in 1..Len(td) /\ Len(td) \in Nat \ {0} /\ Len(cs) = 2
    BY MovesStack DEF IsTwo
  <2>2. Len(td2) \in Nat /\ Len(td2) + 1 = 2 + Len(td) /\ \A i \in 1..Len(cs) : td2[i] = cs[i]
    BY <2>1 DEF Restacked
  <2> QED BY <2>1, <2>2
<1>2. /\ cs[1].f = "modify_fat" /\ cs[1].args[1] = c /\ cs[1].args[2] = 0
      /\ cs[2].f = "free_chain" /\ cs[2].args[1] = fat[c]
  BY CallsAre DEF IsTwo
<1>3. td2[1] = cs[1] /\ td2[2] = cs[2] /\ \A m \in 1..Len(cs) : m = 1 \/ m = 2
  BY <1>1
<1>4. Chained(fat) /\ 0 # EOC /\ 0 \notin Entries
  BY GoodFacts, SoundFacts, RootFacts
<1>5. ~Calm(td)
  BY <1>1 DEF Calm
<1>6. \A x \in Entries : \A j \in 1..Len(cs) : ~Marks(fat, cs[j], x)
  BY <1>2, <1>3, <1>4 DEF Marks, Changes, Sets
<1>7. ASSUME NEW x \in Entries, Holds(fat, td[1], x), Wanted(fat, td2, x) PROVE Belongs(fat, dat, td2, x)
  <2>1. x \in Reach(fat, c)
    BY <1>1, <1>7 DEF Holds, Changes, Sets, Enters
  <2>2. CASE x # c
    <3>1. Holds(fat, td2[2], x)
      BY <1>2, <1>3, <1>4, <2>1, <2>2, ReachRest DEF Holds
    <3> QED BY <1>1, <3>1 DEF Belongs
  <2>3. CASE x = c
    <3>1. \A i \in 2..Len(td) : ~Marks(fat, td[i], x)
      BY <1>5, UncalmMarks
    <3>2. \A m \in 1..Len(td2) : ~Marks(fat, td2[m], x)
      <4> SUFFICES ASSUME NEW m \in 1..Len(td2) PROVE ~Marks(fat, td2[m], x)
        OBVIOUS
      <4>1. CASE m \in 1..Len(cs) /\ td2[m] = cs[m]
        BY <1>6, <4>1
      <4>2. CASE \E i \in 2..Len(td) : Lower(td2, td, cs, i, m)
        BY <3>1, <4>2 DEF Lower
      <4> QED BY <1>1, <4>1, <4>2, LowerIs
    <3>3. fat[x] # 0
      BY <1>7, <3>2 DEF Wanted
    <3>4. Holds(fat, td2[1], x)
      BY <1>2, <1>3, <2>3, <3>3 DEF Holds, Changes, Sets
    <3> QED BY <1>1, <3>4 DEF Belongs
  <2> QED BY <2>2, <2>3
<1>8. HandsOwn(fat, dat, td, td2, cs)
  BY <1>6, <1>7 DEF HandsOwn
<1>9. AllBelong(fat, dat, td2)
  BY <1>1, <1>8, BelongSame DEF OwnTree
<1>10. OwnCall(fat, dat, td2, rt, 1)
  <2>1. \A y, w \in Entries : ~Changes(fat, td2[1], y, w)
    BY <1>2, <1>3, <1>4 DEF Changes, Sets
  <2>2. ASSUME NEW d \in Entries, Changes(fat, td2[1], d, 0), fat[d] \in Entries
        PROVE  \E j \in 1+1..Len(td2) : /\ td2[j].f = "free_chain" /\ td2[j].args[1] = fat[d]
                                        /\ \A k \in 1..j-1 : FatCall(td2[k])
    <3>1. d = c
      BY <1>2, <1>3, <2>2 DEF Changes, Sets
    <3>2. FatCall(td2[1]) /\ 2 \in 1+1..Len(td2) /\ \A k \in 1..2-1 : k = 1
      BY <1>1, <1>2, <1>3 DEF FatCall
    <3> QED BY <1>2, <1>3, <3>1, <3>2
  <2>3. OwnLinks(fat, dat, td2, 1) /\ FreesOn(fat, td2, 1)
    BY <2>1, <2>2 DEF OwnLinks, FreesOn
  <2> QED BY <1>2, <1>3, <2>3 DEF OwnCall
<1>11. OwnCall(fat, dat, td2, rt, 2)
  BY <1>2, <1>3, OwnPlain
<1>12. KeepsOwned(fat, dat, td, fat, dat, cs)
  BY <1>1 DEF KeepsOwned, FatCall
<1>13. KeepsWrites(fat, dat, td, fat, dat, cs)
  <2>1. \A h : ~Sets(fat, td[1], h, 0)
    BY <1>1 DEF Sets
  <2>2. Sets(fat, cs[1], td[1].args[1], 0)
    BY <1>2 DEF Sets
  <2> QED BY <1>1, <1>2, <2>1, <2>2, FewerSame DEF KeepsWrites
<1>14. KeepsNew(fat, dat, td, fat, dat, rt, cs)
  BY <1>1, <1>5 DEF KeepsNew
<1>15. AllOwned(fat, dat, td2, rt)
  BY <1>1, <1>3, <1>10, <1>11, <1>12, <1>13, <1>14, AllOwnedKept DEF OwnTree
<1> QED BY <1>9, <1>15 DEF OwnTree
-----------------------------------------------------------------------------
\* What is asked of the write to a cluster.
LEMMA OwnData ==
  ASSUME NEW fat, NEW dat, NEW td, NEW rt, NEW i, td[i].f = "write_data", OwnWrite(fat, dat, td, i)
  PROVE  OwnCall(fat, dat, td, rt, i)
<1>1. \A y, w : ~Changes(fat, td[i], y, w)
  BY DEF Changes, Sets
<1> QED BY <1>1 DEF OwnCall, OwnLinks, FreesOn

\* Clearing a cluster that nobody has asks for nothing.
LEMMA OwnZero ==
  ASSUME NEW fat, NEW dat, NEW new, Unclaimed(fat, dat, new), NEW td, NEW rt, NEW i,
         td[i].f = "write_data", td[i].args[1] = new, td[i].args[2] = Zero
  PROVE  OwnCall(fat, dat, td, rt, i)
<1>1. \A l \in UsedIn(dat) : ~Removes(td[i], l)
  BY DEF Removes, Unclaimed
<1>2. \A s \in 1..Slots : ~InUse(RowFrom(Zero)[s])
  BY TidyRow
<1>3. \A s \in 1..Slots : ~NewUse(dat, td[i], s)
  BY <1>2 DEF NewUse
<1>4. OwnWrite(fat, dat, td, i)
  BY <1>1, <1>3 DEF OwnWrite
<1> QED BY <1>4, OwnData

\* delete_file,
LEMMA OwnDeleted ==
  ASSUME NEW fat, NEW dat, NEW td, NEW rt, Good(fat, dat, td, rt), OwnTree(fat, dat, td, rt), NEW td2, NEW cs,
         Moves(td2, td, "delete_file", cs), NEW p, NEW loc, Target(fat, dat, p, loc), NEW list,
         DeletesBy(dat, loc, p, list, cs)
  PROVE  OwnTree(fat, dat, td2, rt)
<1>1. /\ Len(cs) = 3 /\ cs[1].f = "delete_inside"
      /\ cs[2].f = "free_chain" /\ cs[2].args[1] = AtIn(dat, loc).cluster
      /\ cs[3].f = "write_data" /\ cs[3].args[1] = loc.cluster /\ cs[3].args[2] = MarkOf(dat, loc)
  BY DEF DeletesBy
<1>2. /\ Restacked(td2, td, cs) /\ td[1].f = "delete_file" /\ 1 \in 1..Len(td)
      /\ \A m \in 1..Len(cs) : td2[m] = cs[m] /\ (m = 1 \/ m = 2 \/ m = 3)
  <2>1. Restacked(td2, td, cs) /\ td[1].f = "delete_file" /\ 1 \in 1..Len(td)
    BY MovesStack
  <2>2. \A m \in 1..Len(cs) : td2[m] = cs[m]
    BY <2>1 DEF Restacked
  <2> QED BY <1>1, <2>1, <2>2
<1>3. td2[2] = cs[2] /\ td2[3] = cs[3] /\ td2[1] = cs[1] /\ Silent(td[1]) /\ ~Calm(td)
  BY <1>1, <1>2 DEF Silent, Calm
<1>4. DiskSound(fat, dat)
  BY GoodFacts
<1>5. ASSUME NEW l \in UsedIn(dat), Removes(td2[3], l) PROVE l = loc
  <2>1. l.cluster = loc.cluster /\ ~InUse(RowFrom(MarkOf(dat, loc))[l.slot])
    BY <1>1, <1>3, <1>5 DEF Removes
  <2> QED BY <1>4, <2>1, MarkIs
<1>6. \A s \in 1..Slots : ~NewUse(dat, td2[3], s)
  <2>1. Thins(dat, loc.cluster, MarkOf(dat, loc))
    BY <1>4, MarkIs
  <2> QED BY <1>1, <1>3, <2>1 DEF NewUse, Thins
<1>7. ASSUME NEW l \in UsedIn(dat), Removes(td2[3], l)
      PROVE  Emptied(fat, td2, 3, AtIn(dat, l).cluster) /\ Unmarked(td2, 3, AtIn(dat, l).cluster)
  <2>1. l = loc
    BY <1>5, <1>7
  <2>2. Emptied(fat, td2, 3, AtIn(dat, l).cluster)
    <3>1. td2[3-1].f = "free_chain" /\ td2[3-1].args[1] = AtIn(dat, l).cluster
      BY <1>1, <1>3, <2>1
    <3> QED BY <3>1 DEF Emptied
  <2>3. AtIn(dat, l).cluster \in Entries
    BY <1>4, SoundFacts, HeadFacts
  <2>4. ASSUME NEW j \in 3+1..Len(td2) PROVE ~Marking(td2[j], AtIn(dat, l).cluster)
    <3>1. Len(td2) \in Nat
      BY <1>2 DEF Restacked
    <3>2. j \in 1..Len(td2) /\ j \notin 1..Len(cs)
      BY <1>1, <3>1
    <3>3. PICK i \in 2..Len(td) : Lower(td2, td, cs, i, j)
      BY <1>2, <3>2, LowerIs
    <3>4. td2[j] = td[i]
      BY <3>3 DEF Lower
    <3> QED BY <1>3, <2>3, <3>4, UncalmMarks
  <2> QED BY <2>2, <2>4 DEF Unmarked
<1>8. OwnWrite(fat, dat, td2, 3)
  BY <1>6, <1>7 DEF OwnWrite
<1>9. ASSUME NEW m \in 1..Len(cs) PROVE OwnCall(fat, dat, td2, rt, m)
  <2>1. CASE m = 1 \/ m = 2
    <3>1. td2[m].f \in {"delete_inside", "free_chain"}
      BY <1>1, <1>3, <2>1
    <3> QED BY <3>1, OwnPlain
  <2>2. CASE m = 3
    <3>1. td2[3].f = "write_data"
      BY <1>1, <1>3
    <3> QED BY <1>8, <2>2, <3>1, OwnData
  <2> QED BY <1>2, <2>1, <2>2
<1>10. \A x \in Entries : \A j \in 1..Len(cs) : ~Marks(fat, cs[j], x)
  <2>1. \A j \in 1..Len(cs) : cs[j].f \in {"delete_inside", "free_chain", "write_data"}
    BY <1>1, <1>2
  <2> QED BY <2>1 DEF Marks, Changes, Sets
<1> QED BY <1>3, <1>9, <1>10, OwnMoved

\* get_file_location's place for a new entry,
LEMMA OwnPlaced ==
  ASSUME NEW td, NEW rt, Good(fats[1], data, td, rt), OwnTree(fats[1], data, td, rt), NEW td2, NEW cs,
         Moves(td2, td, "find_new", cs), NEW p \in Paths, NEW d,
         NEW c, c = file_path_destination(Front(p)),
         \/ c = -1 /\ IsNone(cs)
         \/ c # -1 /\ UnusedAt(c) # NotFound /\ IsOne(cs, PlaceAt(UnusedAt(c), p, d))
         \/ c # -1 /\ IsTwo(cs, extend_file(c), PlaceInNew(p, d))
  PROVE  OwnTree(fats[1], data, td2, rt)
<1>1. /\ Restacked(td2, td, cs) /\ Silent(td[1])
      /\ \A m \in 1..Len(cs) : td2[m] = cs[m]
  BY MovesStack DEF Restacked, Silent
<1>2. DiskSound(fats[1], data) /\ Chained(fats[1])
  BY GoodFacts, SoundFacts
<1>3. p \in RootPaths /\ Len(p) \in Nat \ {0} /\ Len(Front(p)) = Len(p) - 1 /\ Front(p) \in Seq(NamesOf)
  BY PathParts DEF RootPaths
<1>4. ASSUME c # -1
      PROVE  c \in Entries /\ \A x \in Reach(fats[1], c) : On(fats[1], data, p, x)
  <2>1. PICK g : IsWay(fats[1], data, g, Front(p))
    BY <1>2, <1>3, <1>4, Destination
  <2>2. c = g[Len(p)-1]
    BY <1>2, <1>3, <2>1, Destination
  <2>3. c \in Entries
    BY <1>3, <2>1, <2>2 DEF IsWay
  <2> QED BY <1>3, <2>1, <2>2, <2>3, OnWay
<1>5. CASE IsNone(cs)
  BY <1>1, <1>5, NoCalls, OwnSilent
<1>6. CASE c # -1 /\ UnusedAt(c) # NotFound /\ IsOne(cs, PlaceAt(UnusedAt(c), p, d))
  <2> DEFINE loc == UnusedAt(c)
  <2>1. loc.cluster \in Reach(fats[1], c)
    BY <1>2, <1>4, <1>6, UnusedPlace
  <2>2. On(fats[1], data, p, loc.cluster)
    BY <1>4, <1>6, <2>1
  <2> HIDE DEF loc
  <2>3. Len(cs) = 1 /\ cs[1].f = "new_entry" /\ cs[1].args[1] = loc /\ cs[1].args[2] = p
    BY <1>6, CallsAre DEF IsOne, loc
  <2>4. \A m \in 1..Len(cs) : m = 1 /\ td2[1] = cs[1] /\ Silent(cs[m])
    BY <1>1, <2>3 DEF Silent
  <2>5. ASSUME NEW m \in 1..Len(cs) PROVE OwnCall(fats[1], data, td2, rt, m)
    <3>1. td2[m].f = "new_entry" /\ td2[m].args[1] = loc /\ td2[m].args[2] = p /\ Silent(td2[m])
      BY <2>3, <2>4
    <3> QED BY <2>2, <3>1, SilentHolds DEF OwnCall, OwnLinks, FreesOn
  <2> QED BY <1>1, <2>4, <2>5, SilentHolds, OwnMoved
<1>7. CASE c # -1 /\ IsTwo(cs, extend_file(c), PlaceInNew(p, d))
  <2>1. On(fats[1], data, p, c) /\ c \in Entries
    BY <1>2, <1>4, <1>7, ReachClosed
  <2>2. Len(cs) = 2 /\ cs[1].f = "extend_file" /\ cs[1].args[1] = c /\ cs[2].f = "entry_in_new" /\ cs[2].args[1] = p
    BY <1>7, CallsAre DEF IsTwo
  <2>3. \A m \in 1..Len(cs) : (m = 1 \/ m = 2) /\ td2[m] = cs[m] /\ td2[1] = cs[1] /\ Silent(cs[m])
    BY <1>1, <2>2 DEF Silent
  <2>4. ASSUME NEW m \in 1..Len(cs) PROVE OwnCall(fats[1], data, td2, rt, m)
    <3>1. Silent(td2[m])
      BY <2>3
    <3>2. OwnLinks(fats[1], data, td2, m) /\ FreesOn(fats[1], td2, m)
      BY <3>1, SilentHolds DEF OwnLinks, FreesOn
    <3>3. CASE m = 1
      <4>1. td2[m].f = "extend_file" /\ td2[m].args[1] = c
        BY <2>2, <2>3, <3>3
      <4> QED BY <2>1, <3>2, <4>1 DEF OwnCall
    <3>4. CASE m = 2
      <4>1. td2[m].f = "entry_in_new" /\ td2[m].args[1] = p /\ td2[m-1].f = "extend_file" /\ td2[m-1].args[1] = c
        BY <2>2, <2>3, <3>4
      <4>2. OwnNew(fats[1], data, td2, rt, m)
        BY <2>1, <3>4, <4>1 DEF OwnNew
      <4> QED BY <3>2, <4>1, <4>2 DEF OwnCall
    <3> QED BY <2>3, <3>3, <3>4
  <2> QED BY <1>1, <2>3, <2>4, SilentHolds, OwnMoved
<1> QED BY <1>5, <1>6, <1>7

\* or its first slot in a cluster that was added,
LEMMA OwnTaken ==
  ASSUME NEW fat, NEW dat, NEW td, NEW rt, Good(fat, dat, td, rt), OwnTree(fat, dat, td, rt), NEW td2, NEW cs,
         Moves(td2, td, "entry_in_new", cs), NEW p, td[1].args[1] = p, NEW d,
         \/ rt = 1 /\ IsNone(cs)
         \/ rt # 1 /\ IsOne(cs, PlaceAt([cluster |-> rt, slot |-> 1], p, d))
  PROVE  OwnTree(fat, dat, td2, rt)
<1>1. /\ Restacked(td2, td, cs) /\ Silent(td[1]) /\ td[1].f = "entry_in_new" /\ 1 \in 1..Len(td)
      /\ \A m \in 1..Len(cs) : td2[m] = cs[m]
  <2>1. Restacked(td2, td, cs) /\ td[1].f = "entry_in_new" /\ 1 \in 1..Len(td)
    BY MovesStack
  <2>2. \A m \in 1..Len(cs) : td2[m] = cs[m]
    BY <2>1 DEF Restacked
  <2> QED BY <2>1, <2>2 DEF Silent
<1>2. CASE IsNone(cs)
  BY <1>1, <1>2, NoCalls, OwnSilent
<1>3. CASE rt # 1 /\ IsOne(cs, PlaceAt([cluster |-> rt, slot |-> 1], p, d))
  <2>1. OwnCall(fat, dat, td, rt, 1)
    BY <1>1 DEF OwnTree, AllOwned
  <2>2. OwnNew(fat, dat, td, rt, 1)
    BY <1>1, <2>1 DEF OwnCall
  <2>3. On(fat, dat, p, rt)
    BY <1>3, <2>2 DEF OwnNew
  <2> DEFINE loc == [cluster |-> rt, slot |-> 1]
  <2>4. loc.cluster = rt
    OBVIOUS
  <2> HIDE DEF loc
  <2>5. Len(cs) = 1 /\ cs[1].f = "new_entry" /\ cs[1].args[1] = loc /\ cs[1].args[2] = p
    BY <1>3, CallsAre DEF IsOne, loc
  <2>6. \A m \in 1..Len(cs) : m = 1 /\ td2[1] = cs[1] /\ Silent(cs[m])
    BY <1>1, <2>5 DEF Silent
  <2>7. ASSUME NEW m \in 1..Len(cs) PROVE OwnCall(fat, dat, td2, rt, m)
    <3>1. td2[m].f = "new_entry" /\ td2[m].args[1] = loc /\ td2[m].args[2] = p /\ Silent(td2[m])
      BY <2>5, <2>6
    <3> QED BY <2>3, <2>4, <3>1, SilentHolds DEF OwnCall, OwnLinks, FreesOn
  <2> QED BY <1>1, <2>6, <2>7, SilentHolds, OwnMoved
<1> QED BY <1>2, <1>3
-----------------------------------------------------------------------------
\* The sector with the new entry.
LEMMA WithRows ==
  ASSUME NEW dat, RowsSound(dat), NEW loc \in Places, NEW p, Last(p) \in Names, NEW d \in BOOLEAN, NEW new \in Entries,
         NEW img, img = WithIn(dat, loc, p, d, new)
  PROVE  /\ RowFrom(img)[loc.slot].name = Last(p) /\ RowFrom(img)[loc.slot].cluster = new
         /\ InUse(RowFrom(img)[loc.slot])
         /\ \A s \in 1..Slots : s # loc.slot => RowFrom(img)[s] = AtIn(dat, [cluster |-> loc.cluster, slot |-> s])
<1> DEFINE row == RowFrom(dat[loc.cluster])
<1>1. loc.cluster \in Entries /\ loc.slot \in 1..Slots
  BY PlaceIs
<1>2. row \in Rows
  BY <1>1, RowIs
<1>3. img = [row EXCEPT ![loc.slot] = Entry(Last(p), d, new)]
  BY DEF WithIn
<1>4. \A s \in 1..Slots : AtIn(dat, [cluster |-> loc.cluster, slot |-> s]) = row[s]
  BY DEF AtIn
<1> HIDE DEF row
<1>5. Entry(Last(p), d, new) \in [name : Names \cup Unused \cup {"kernel", "text"}, dir : BOOLEAN, cluster : Links]
      /\ Entry(Last(p), d, new).name = Last(p) /\ Entry(Last(p), d, new).cluster = new
  BY DEF Entry, Links
<1>6. img \in Rows
  BY <1>2, <1>3, <1>5 DEF Rows
<1>7. RowFrom(img) = img
  BY <1>6, TextAssumption DEF RowFrom
<1>8. \A s \in 1..Slots : img[s] = IF s = loc.slot THEN Entry(Last(p), d, new) ELSE row[s]
  BY <1>2, <1>3 DEF Rows
<1>9. RowFrom(img)[loc.slot] = Entry(Last(p), d, new)
  BY <1>1, <1>7, <1>8
<1>10. InUse(RowFrom(img)[loc.slot])
  BY <1>5, <1>9 DEF InUse, Known
<1> QED BY <1>4, <1>5, <1>7, <1>8, <1>9, <1>10

\* create_file's new entry: the cluster is cleared, the entry written, the
\* cluster marked.
LEMMA OwnMade ==
  ASSUME NEW fat, NEW dat, NEW td, NEW rt, Good(fat, dat, td, rt), OwnTree(fat, dat, td, rt), NEW td2, NEW cs,
         Moves(td2, td, "new_entry", cs), NEW loc, td[1].args[1] = loc,
         NEW p, td[1].args[2] = p, NEW d, td[1].args[3] = d, NEW new \in Entries, fat[new] = 0,
         IsThree(cs, WriteData(new, Zero), WriteData(loc.cluster, WithIn(dat, loc, p, d, new)), modify_fat(new, EOC))
  PROVE  OwnTree(fat, dat, td2, rt)
<1>1. Restacked(td2, td, cs) /\ td[1].f = "new_entry" /\ 1 \in 1..Len(td) /\ Len(td) \in Nat
  BY MovesStack
<1>2. Silent(td[1])
  BY <1>1 DEF Silent
<1>3. PlaceOK(fat, dat, td, 1)
  BY <1>1, GoodFacts DEF AllSound, CallSound
<1>4. p \in Paths /\ d \in BOOLEAN /\ loc \in Places /\ Last(p) \in Names
  BY <1>3, PathParts DEF PlaceOK
<1>5. RowsSound(dat) /\ Unclaimed(fat, dat, new) /\ loc.cluster \in Entries /\ loc.slot \in 1..Slots
  BY <1>1, <1>4, GoodFacts, SoundFacts, FreeUnclaimed, PlaceIs
<1> DEFINE img == WithIn(dat, loc, p, d, new)
<1>6. /\ RowFrom(img)[loc.slot].name = Last(p) /\ RowFrom(img)[loc.slot].cluster = new
      /\ InUse(RowFrom(img)[loc.slot])
      /\ \A s \in 1..Slots : s # loc.slot => RowFrom(img)[s] = AtIn(dat, [cluster |-> loc.cluster, slot |-> s])
  BY <1>4, <1>5, WithRows
<1>7. Len(cs) = 3 /\ cs[1] = WriteData(new, Zero) /\ cs[2] = WriteData(loc.cluster, img) /\ cs[3] = modify_fat(new, EOC)
  BY DEF IsThree
<1> HIDE DEF img
<1>8. /\ \A m \in 1..Len(cs) : td2[m] = cs[m] /\ (m = 1 \/ m = 2 \/ m = 3)
      /\ 1 \in 1..Len(cs) /\ 2 \in 1..Len(cs) /\ 3 \in 1..Len(cs) /\ 2 \in 1..Len(td2)
  <2>1. \A m \in 1..Len(cs) : td2[m] = cs[m]
    BY <1>1 DEF Restacked
  <2>2. Len(td2) \in Nat /\ Len(td2) + 1 = 3 + Len(td)
    BY <1>1, <1>7 DEF Restacked
  <2> QED BY <1>1, <1>7, <2>1, <2>2
<1>9. /\ cs[1].f = "write_data" /\ cs[1].args[1] = new /\ cs[1].args[2] = Zero
      /\ cs[2].f = "write_data" /\ cs[2].args[1] = loc.cluster /\ cs[2].args[2] = img
      /\ cs[3].f = "modify_fat" /\ cs[3].args[1] = new /\ cs[3].args[2] = EOC
  BY <1>7, CallsAre
<1>10. td2[1] = cs[1] /\ td2[2] = cs[2] /\ td2[3] = cs[3]
  BY <1>8
<1>11. OwnCall(fat, dat, td2, rt, 1)
  BY <1>5, <1>9, <1>10, OwnZero
<1>12. OwnCall(fat, dat, td2, rt, 2)
  <2>1. td2[2].f = "write_data" /\ td2[2].args[1] = loc.cluster /\ td2[2].args[2] = img
    BY <1>9, <1>10
  <2>2. ASSUME NEW l \in UsedIn(dat), Removes(td2[2], l) PROVE FALSE
    <3>1. l.cluster = loc.cluster /\ ~InUse(RowFrom(img)[l.slot])
      BY <2>1, <2>2 DEF Removes
    <3>2. l = [cluster |-> l.cluster, slot |-> l.slot] /\ l.slot \in 1..Slots /\ InUse(AtIn(dat, l))
      BY PlaceIs DEF UsedIn
    <3>3. l.slot # loc.slot
      BY <1>6, <3>1
    <3>4. RowFrom(img)[l.slot] = AtIn(dat, l)
      BY <1>6, <3>1, <3>2, <3>3
    <3> QED BY <3>1, <3>2, <3>4
  <2>3. On(fat, dat, p, loc.cluster)
    <3>1. OwnCall(fat, dat, td, rt, 1)
      BY <1>1 DEF OwnTree, AllOwned
    <3> QED BY <1>1, <3>1 DEF OwnCall
  <2>4. ASSUME NEW s \in 1..Slots, NewUse(dat, td2[2], s)
        PROVE  \E q \in Paths : Last(q) = RowFrom(td2[2].args[2])[s].name /\ On(fat, dat, q, td2[2].args[1])
    <3>1. s = loc.slot
      BY <1>6, <2>1, <2>4 DEF NewUse
    <3> QED BY <1>4, <1>6, <2>1, <2>3, <3>1
  <2>5. OwnWrite(fat, dat, td2, 2)
    BY <2>2, <2>4 DEF OwnWrite
  <2> QED BY <2>1, <2>5, OwnData
<1>13. OwnCall(fat, dat, td2, rt, 3)
  BY <1>9, <1>10, OwnMark
<1>14. ASSUME NEW x \in Entries, NEW j \in 1..Len(cs), Marks(fat, cs[j], x) PROVE Belongs(fat, dat, td2, x)
  <2>1. x = new
    BY <1>8, <1>9, <1>14 DEF Marks, Changes, Sets
  <2>2. Enters(td2[2], new)
    BY <1>5, <1>6, <1>9, <1>10 DEF Enters
  <2> QED BY <1>8, <2>1, <2>2 DEF Belongs, Holds
<1>15. ASSUME NEW m \in 1..Len(cs) PROVE OwnCall(fat, dat, td2, rt, m)
  BY <1>8, <1>11, <1>12, <1>13
<1> QED BY <1>2, <1>14, <1>15, OwnMoved

\* write_to_file: what it finds is in use.
LEMMA FoundUsed ==
  ASSUME NEW fat, NEW dat, NEW p \in Paths, NEW loc, Target(fat, dat, p, loc)
  PROVE  loc \in UsedIn(dat)
<1>1. loc \in Places /\ AtIn(dat, loc).name = Last(p) /\ Last(p) \in Known
  BY PathParts DEF Target
<1> QED BY <1>1 DEF UsedIn, InUse

\* write_to_file cuts the chain, makes it longer or leaves it as it is.
LEMMA OwnTexts ==
  ASSUME NEW td, NEW rt, Good(fats[1], data, td, rt), OwnTree(fats[1], data, td, rt), NEW td2, NEW cs,
         Moves(td2, td, "write_to_file", cs), NEW p, td[1].args[1] = p, NEW t, NEW n,
         NEW start, start = AtIn(data, Find(p)).cluster,
         \/ Find(p) = NotFound /\ IsNone(cs)
         \/ Find(p) # NotFound /\ IsTwo(cs, modify_fat(LastOf(start), EOC), Fill(start, 1, t))
         \/ Find(p) # NotFound /\ IsTwo(cs, extend_file(start), Grow(n, t, start))
         \/ Find(p) # NotFound /\ IsOne(cs, Fill(start, 1, t))
  PROVE  OwnTree(fats[1], data, td2, rt)
<1>1. /\ 1 \in 1..Len(td) /\ td[1].f = "write_to_file" /\ DiskSound(fats[1], data)
      /\ Restacked(td2, td, cs) /\ AllSound(fats[1], data, td, rt)
  BY MovesStack, GoodFacts
<1>2. p \in Paths /\ Silent(td[1]) /\ \A m \in 1..Len(cs) : td2[m] = cs[m]
  BY <1>1 DEF AllSound, CallSound, Silent, Restacked
<1>3. CASE IsNone(cs)
  BY <1>2, <1>3, NoCalls, OwnSilent
<1>4. CASE Find(p) # NotFound
  <2>1. p \in AllPaths /\ Last(p) # "kernel"
    BY <1>2, PathParts
  <2>2. Target(fats[1], data, p, Find(p))
    BY <1>1, <1>4, <2>1, TargetIs
  <2>3. Find(p) \in UsedIn(data)
    BY <1>2, <2>2, FoundUsed
  <2>4. start \in Entries /\ Chained(fats[1])
    BY <1>1, <2>3, SoundFacts, HeadFacts
  <2>5. \A x \in Reach(fats[1], start) : Owned(fats[1], data, x)
    BY <2>3 DEF Owned
  <2>6. CASE IsOne(cs, Fill(start, 1, t))
    <3>1. \A m \in 1..Len(cs) : cs[m].f = "fill"
      BY <2>6, CallsAre DEF IsOne
    <3> QED BY <1>2, <3>1, OwnSilent DEF Silent
  <2>7. CASE IsTwo(cs, modify_fat(LastOf(start), EOC), Fill(start, 1, t))
    <3> DEFINE c == LastOf(start)
    <3>1. c \in Reach(fats[1], start)
      <4>1. InChain(start)
        BY <2>4, ChainOrNone
      <4>2. c = Last(ChainIn(fats[1], start))
        BY <4>1 DEF LastOf, Chain
      <4> QED BY <2>4, <4>2, ReachLast
    <3>2. IsTwo(cs, modify_fat(c, EOC), Fill(start, 1, t))
      BY <2>7
    <3> HIDE DEF c
    <3>3. Len(cs) = 2 /\ cs[1].f = "modify_fat" /\ cs[1].args[1] = c /\ cs[1].args[2] = EOC /\ cs[2].f = "fill"
      BY <3>2, CallsAre DEF IsTwo
    <3>4. \A m \in 1..Len(cs) : (m = 1 \/ m = 2) /\ td2[m] = cs[m]
      BY <1>2, <3>3
    <3>5. ASSUME NEW m \in 1..Len(cs) PROVE OwnCall(fats[1], data, td2, rt, m)
      <4>1. CASE m = 1
        BY <3>3, <3>4, <4>1, OwnMark
      <4>2. CASE m = 2
        BY <3>3, <3>4, <4>2, OwnPlain
      <4> QED BY <3>4, <4>1, <4>2
    <3>6. ASSUME NEW x \in Entries, NEW j \in 1..Len(cs), Marks(fats[1], cs[j], x) PROVE Belongs(fats[1], data, td2, x)
      <4>1. x = c
        BY <3>3, <3>4, <3>6 DEF Marks, Changes, Sets
      <4> QED BY <2>5, <3>1, <4>1 DEF Belongs
    <3> QED BY <1>2, <3>5, <3>6, OwnMoved
  <2>8. CASE IsTwo(cs, extend_file(start), Grow(n, t, start))
    <3>1. Len(cs) = 2 /\ cs[1].f = "extend_file" /\ cs[1].args[1] = start /\ cs[2].f = "grow"
      BY <2>8, CallsAre DEF IsTwo
    <3>2. \A m \in 1..Len(cs) : (m = 1 \/ m = 2) /\ td2[m] = cs[m] /\ Silent(cs[m])
      BY <1>2, <3>1 DEF Silent
    <3>3. ASSUME NEW m \in 1..Len(cs) PROVE OwnCall(fats[1], data, td2, rt, m)
      <4>1. Silent(td2[m])
        BY <3>2
      <4>2. (td2[m].f = "extend_file" /\ td2[m].args[1] = start) \/ td2[m].f = "grow"
        BY <3>1, <3>2
      <4> QED BY <2>4, <4>1, <4>2, SilentHolds DEF OwnCall, OwnLinks, FreesOn
    <3> QED BY <1>2, <3>2, <3>3, SilentHolds, OwnMoved
  <2> QED BY <1>3, <1>4, <2>6, <2>7, <2>8
<1> QED BY <1>3, <1>4

\* One cluster more, or the text.
LEMMA OwnGrown ==
  ASSUME NEW fat, NEW dat, NEW td, NEW rt, Good(fat, dat, td, rt), OwnTree(fat, dat, td, rt), NEW td2, NEW cs,
         Moves(td2, td, "grow", cs), NEW n, NEW t, NEW c,
         \/ IsTwo(cs, extend_file(rt), Grow(n, t, c))
         \/ IsNone(cs)
         \/ IsOne(cs, Fill(c, 1, t))
  PROVE  OwnTree(fat, dat, td2, rt)
<1>1. /\ Silent(td[1]) /\ rt \in Entries \cup {0, 1} /\ \A m \in 1..Len(cs) : td2[m] = cs[m]
  BY MovesStack, GoodFacts DEF Silent, Restacked
<1>2. CASE IsNone(cs)
  BY <1>1, <1>2, NoCalls, OwnSilent
<1>3. CASE IsOne(cs, Fill(c, 1, t))
  <2>1. \A m \in 1..Len(cs) : cs[m].f = "fill"
    BY <1>3, CallsAre DEF IsOne
  <2> QED BY <1>1, <2>1, OwnSilent DEF Silent
<1>4. CASE IsTwo(cs, extend_file(rt), Grow(n, t, c))
  <2>1. Len(cs) = 2 /\ cs[1].f = "extend_file" /\ cs[1].args[1] = rt /\ cs[2].f = "grow"
    BY <1>4, CallsAre DEF IsTwo
  <2>2. \A m \in 1..Len(cs) : (m = 1 \/ m = 2) /\ td2[m] = cs[m] /\ Silent(cs[m])
    BY <1>1, <2>1 DEF Silent
  <2>3. ASSUME NEW m \in 1..Len(cs) PROVE OwnCall(fat, dat, td2, rt, m)
    <3>1. Silent(td2[m])
      BY <2>2
    <3>2. (td2[m].f = "extend_file" /\ td2[m].args[1] = rt) \/ td2[m].f = "grow"
      BY <2>1, <2>2
    <3> QED BY <1>1, <3>1, <3>2, SilentHolds DEF OwnCall, OwnLinks, FreesOn
  <2> QED BY <1>1, <2>2, <2>3, SilentHolds, OwnMoved
<1> QED BY <1>2, <1>3, <1>4

\* One piece of the text.
LEMMA OwnFilled ==
  ASSUME NEW fat, NEW dat, NEW td, NEW rt, Good(fat, dat, td, rt), TidyTree(fat, dat, td), OwnTree(fat, dat, td, rt),
         NEW td2, NEW cs, Moves(td2, td, "fill", cs), NEW c, td[1].args[1] = c, NEW x \in Pieces, NEW e, NEW k, NEW t,
         IsTwo(cs, WriteData(c, x), Fill(e, k, t))
  PROVE  OwnTree(fat, dat, td2, rt)
<1>1. /\ 1 \in 1..Len(td) /\ td[1].f = "fill" /\ DiskSound(fat, dat) /\ Silent(td[1])
      /\ Restacked(td2, td, cs)
  BY MovesStack, GoodFacts DEF Silent
<1>2. TidyText(fat, dat, td, 1, c)
  BY <1>1, TidyFacts DEF TidyCall
<1>3. /\ Len(cs) = 2 /\ cs[1].f = "write_data" /\ cs[1].args[1] = c /\ cs[1].args[2] = x
      /\ cs[2].f = "fill"
  BY CallsAre DEF IsTwo
<1>4. \A m \in 1..Len(cs) : (m = 1 \/ m = 2) /\ td2[m] = cs[m]
  BY <1>1, <1>3 DEF Restacked
<1>5. ASSUME NEW l \in UsedIn(dat) PROVE ~Removes(cs[1], l)
  <2>1. l.cluster \in Entries
    BY PlaceIs DEF UsedIn
  <2>2. CASE c \in Entries
    <3>1. InFile(fat, dat, c)
      BY <1>2, <2>2 DEF TidyText
    <3>2. l.cluster # c
      BY <1>1, <3>1, FileHoldsNone
    <3> QED BY <1>3, <3>2 DEF Removes
  <2>3. CASE c \notin Entries
    BY <1>3, <2>1, <2>3 DEF Removes
  <2> QED BY <2>2, <2>3
<1>6. \A s \in 1..Slots : ~NewUse(dat, cs[1], s)
  BY <1>3, TidyRow DEF NewUse
<1>7. ASSUME NEW m \in 1..Len(cs) PROVE OwnCall(fat, dat, td2, rt, m)
  <2>1. CASE m = 1
    <3>1. td2[1] = cs[1]
      BY <1>4, <2>1
    <3>2. OwnWrite(fat, dat, td2, 1)
      BY <1>5, <1>6, <3>1 DEF OwnWrite
    <3> QED BY <1>3, <2>1, <3>1, <3>2, OwnData
  <2>2. CASE m = 2
    BY <1>3, <1>4, <2>2, OwnPlain
  <2> QED BY <1>4, <2>1, <2>2
<1>8. \A y \in Entries : \A j \in 1..Len(cs) : ~Marks(fat, cs[j], y)
  BY <1>3, <1>4 DEF Marks, Changes, Sets
<1> QED BY <1>1, <1>7, <1>8, OwnMoved
-----------------------------------------------------------------------------
\* extend_file: the calls below, when what the new entry waits for is kept.
LEMMA OwnExtendOn ==
  ASSUME NEW fat, NEW dat, NEW td, NEW rt, Good(fat, dat, td, rt), OwnTree(fat, dat, td, rt), NEW td2, NEW cs,
         Moves(td2, td, "extend_file", cs), NEW rt2,
         \A x \in Entries : \A j \in 1..Len(cs) : Marks(fat, cs[j], x) => Belongs(fat, dat, td2, x),
         \A m \in 1..Len(cs) : OwnCall(fat, dat, td2, rt2, m),
         \A m : Lower(td2, td, cs, 2, m) /\ td[2].f = "entry_in_new" => OwnNew(fat, dat, td2, rt2, m)
  PROVE  OwnTree(fat, dat, td2, rt2)
<1>1. /\ td[1].f = "extend_file" /\ Restacked(td2, td, cs) /\ Rest(td, 2) /\ td[2].f \in {"entry_in_new", "grow"}
  BY MovesStack, ExtendWaits
<1>2. Silent(td[1])
  BY <1>1 DEF Silent
<1>3. AllBelong(fat, dat, td2)
  BY <1>1, <1>2, BelongSame, SilentHolds DEF OwnTree, HandsOwn
<1>4. ASSUME NEW i, NEW m, Lower(td2, td, cs, i, m) PROVE OwnCall(fat, dat, td2, rt2, m)
  <2>1. td2[m] = td[i] /\ (i = 2 \/ i \in 2+1..Len(td))
    BY <1>4 DEF Lower
  <2>2. td[i].f \in {"write_to_file", "look", "grow"} \/ (i = 2 /\ td[2].f = "entry_in_new")
    BY <1>1, <2>1 DEF Rest
  <2>3. CASE td[i].f \in {"write_to_file", "look", "grow"}
    BY <2>1, <2>3, OwnPlain
  <2>4. CASE i = 2 /\ td[2].f = "entry_in_new"
    <3>1. td2[m].f = "entry_in_new" /\ Silent(td2[m])
      BY <2>1, <2>4 DEF Silent
    <3>2. OwnLinks(fat, dat, td2, m) /\ FreesOn(fat, td2, m)
      BY <3>1, SilentHolds DEF OwnLinks, FreesOn
    <3>3. OwnNew(fat, dat, td2, rt2, m)
      BY <1>4, <2>4
    <3> QED BY <3>1, <3>2, <3>3 DEF OwnCall
  <2> QED BY <2>2, <2>3, <2>4
<1>5. ASSUME NEW m \in 1..Len(td2) PROVE OwnCall(fat, dat, td2, rt2, m)
  <2>1. m \in 1..Len(cs) \/ \E i \in 2..Len(td) : Lower(td2, td, cs, i, m)
    BY <1>1, LowerIs
  <2> QED BY <1>4, <2>1
<1> QED BY <1>3, <1>5 DEF OwnTree, AllOwned

\* The chain does not end in an end mark.
LEMMA OwnNotExtended ==
  ASSUME NEW fat, NEW dat, NEW td, NEW rt, Good(fat, dat, td, rt), OwnTree(fat, dat, td, rt), NEW td2, NEW cs,
         Moves(td2, td, "extend_file", cs), IsNone(cs), NEW rt2, rt2 = 1
  PROVE  OwnTree(fat, dat, td2, rt2)
<1>1. Len(cs) = 0 /\ ~(Len(cs) \in 1..Len(cs)) /\ \A m \in 1..Len(cs) : FALSE
  <2>1. Len(cs) = 0
    BY DEF IsNone
  <2> QED BY <2>1
<1>2. ASSUME NEW m, Lower(td2, td, cs, 2, m) PROVE OwnNew(fat, dat, td2, rt2, m)
  <2>1. m = 1
    BY <1>1, <1>2 DEF Lower
  <2> QED BY <2>1 DEF OwnNew
<1> QED BY <1>1, <1>2, OwnExtendOn

\* A cluster is marked, linked to, cleared and returned.
LEMMA OwnExtended ==
  ASSUME NEW td, NEW rt, Good(fats[1], data, td, rt), OwnTree(fats[1], data, td, rt), NEW td2, NEW cs,
         Moves(td2, td, "extend_file", cs), EndOf(td[1].args[1]) >= EOC, NEW new \in Entries, fats[1][new] = 0,
         NEW c, c = LastOf(td[1].args[1]), c # new,
         IsFour(cs, modify_fat(new, EOC), modify_fat(c, new), WriteData(new, Zero), Returns(new))
  PROVE  OwnTree(fats[1], data, td2, rt)
<1> DEFINE fat == fats[1]
           x == td[1].args[1]
<1>1. /\ Restacked(td2, td, cs) /\ td[1].f = "extend_file" /\ 1 \in 1..Len(td) /\ Len(td) \in Nat \ {0} /\ Rest(td, 2)
      /\ td[2].f \in {"entry_in_new", "grow"} /\ 2 \in 2..Len(td) /\ 2 \in 1..Len(td)
      /\ DiskSound(fat, data) /\ Chained(fat) /\ FatSound(fat) /\ fat \in [Entries -> Links]
      /\ Unclaimed(fat, data, new)
  <2>1. Restacked(td2, td, cs) /\ td[1].f = "extend_file" /\ 1 \in 1..Len(td) /\ Len(td) \in Nat \ {0}
    BY MovesStack
  <2>2. Rest(td, 2) /\ td[2].f \in {"entry_in_new", "grow"} /\ 2 \in 2..Len(td)
    BY ExtendWaits
  <2>3. 2 \in 1..Len(td)
    BY <2>1, <2>2
  <2>4. DiskSound(fat, data) /\ Chained(fat) /\ FatSound(fat)
    BY GoodFacts, SoundFacts
  <2>5. fat \in [Entries -> Links]
    BY <2>4, FatIsChained
  <2>6. Unclaimed(fat, data, new)
    BY <2>1, FreeUnclaimed
  <2> QED BY <2>1, <2>2, <2>3, <2>4, <2>5, <2>6
<1>2. x \in Entries
  <2>1. OwnCall(fat, data, td, rt, 1)
    BY <1>1 DEF OwnTree, AllOwned
  <2>2. x \in Entries \cup {0, 1}
    BY <1>1, <2>1 DEF OwnCall
  <2>3. x # 0 /\ x # 1
    BY DEF EndOf, InChain, Root, EOC
  <2> QED BY <2>2, <2>3
<1>3. c \in Entries /\ c \in Reach(fat, x) /\ fat[c] \notin Entries
  <2>1. InChain(x)
    BY <1>2, ChainOrNone
  <2>2. c = Last(ChainIn(fat, x))
    BY <2>1 DEF LastOf, Chain
  <2> HIDE DEF fat, x
  <2>3. c \in Reach(fat, x) /\ fat[c] \notin Entries
    BY <1>1, <1>2, <2>2, ReachLast
  <2>4. c \in Entries
    BY <1>1, <1>2, <2>3, ReachWithin
  <2> QED BY <2>3, <2>4
<1>4. fat[c] = EOC /\ EOC # new /\ EOC # 0 /\ EOC \notin Entries /\ new # 0
  <2>1. EOC # new /\ EOC # 0 /\ EOC \notin Entries /\ new # 0
    BY RootFacts
  <2>2. EndOf(x) = fat[c]
    <3>1. InChain(x)
      BY <1>2, ChainOrNone
    <3> QED BY <1>3, <3>1 DEF EndOf, get_from_fat, EntryIn
  <2>3. fat[c] # 0
    BY <2>2 DEF EOC
  <2>4. fat[c] \in Links
    BY <1>1, <1>3
  <2> QED BY <1>3, <2>1, <2>3, <2>4 DEF Links
<1> HIDE DEF x
<1>5. Len(cs) = 4 /\ cs[1] = modify_fat(new, EOC) /\ cs[2] = modify_fat(c, new) /\ cs[3] = WriteData(new, Zero) /\ cs[4] = Returns(new)
  BY DEF IsFour
<1>6. /\ 1 \in 1..Len(cs) /\ 2 \in 1..Len(cs) /\ 3 \in 1..Len(cs) /\ 4 \in 1..Len(cs)
      /\ \A m \in 1..Len(cs) : m = 1 \/ m = 2 \/ m = 3 \/ m = 4
  BY <1>5
<1>7. /\ cs[1].f = "modify_fat" /\ cs[1].args[1] = new /\ cs[1].args[2] = EOC
      /\ cs[2].f = "modify_fat" /\ cs[2].args[1] = c /\ cs[2].args[2] = new
      /\ cs[3].f = "write_data" /\ cs[3].args[1] = new /\ cs[3].args[2] = Zero
      /\ cs[4].f = "return" /\ cs[4].args[1] = new
  BY <1>5, CallsAre
<1>8. td2[1] = cs[1] /\ td2[2] = cs[2] /\ td2[3] = cs[3] /\ td2[4] = cs[4] /\ Len(td2) \in Nat /\ 2 \in 1..Len(td2)
  BY <1>1, <1>5, <1>6 DEF Restacked
<1> HIDE DEF fat
<1>9. Good(fat, data, td, rt) /\ OwnTree(fat, data, td, rt) /\ fat[new] = 0
  BY DEF fat
<1>10. Owned(fat, data, c)
  <2>1. Wanted(fat, td, c)
    BY <1>4 DEF Wanted
  <2>2. Belongs(fat, data, td, c)
    BY <1>3, <1>9, <2>1 DEF OwnTree, AllBelong
  <2>3. ASSUME NEW i \in 1..Len(td) PROVE ~Holds(fat, td[i], c)
    <3>1. i = 1 \/ i = 2 \/ i \in 2+1..Len(td)
      BY <1>1
    <3>2. td[i].f \in {"extend_file", "entry_in_new", "grow", "write_to_file", "look"}
      BY <1>1, <3>1 DEF Rest
    <3>3. Silent(td[i])
      BY <3>2 DEF Silent
    <3> QED BY <3>3, SilentHolds
  <2> QED BY <2>2, <2>3 DEF Belongs
<1>11. \A y, w : Changes(fat, td2[2], y, w) => y = c /\ w = new
  BY <1>7, <1>8 DEF Changes, Sets
<1>12. Changes(fat, td2[2], c, new)
  BY <1>4, <1>7, <1>8 DEF Changes, Sets
<1>13. OwnCall(fat, data, td2, rt, 1)
  BY <1>7, <1>8, OwnMark
<1>14. OwnCall(fat, data, td2, rt, 2)
  <2>1. \A j \in 1..2-1 : FatCall(td2[j])
    <3>1. \A j \in 1..2-1 : j = 1
      OBVIOUS
    <3> QED BY <1>7, <1>8, <3>1 DEF FatCall
  <2>2. OwnLinks(fat, data, td2, 2)
    BY <1>10, <1>11, <2>1 DEF OwnLinks
  <2>3. FreesOn(fat, td2, 2)
    BY <1>4, <1>11 DEF FreesOn
  <2> QED BY <1>7, <1>8, <2>2, <2>3 DEF OwnCall
<1>15. OwnCall(fat, data, td2, rt, 3)
  BY <1>1, <1>7, <1>8, OwnZero
<1>16. OwnCall(fat, data, td2, rt, 4)
  BY <1>7, <1>8, OwnPlain
<1>17. \A m \in 1..Len(cs) : OwnCall(fat, data, td2, rt, m)
  BY <1>6, <1>13, <1>14, <1>15, <1>16
<1>18. ASSUME NEW y \in Entries, NEW j \in 1..Len(cs), Marks(fat, cs[j], y) PROVE Belongs(fat, data, td2, y)
  <2>1. y = new
    BY <1>4, <1>6, <1>7, <1>18 DEF Marks, Changes, Sets
  <2>2. Holds(fat, td2[2], y)
    BY <1>3, <1>12, <2>1 DEF Holds
  <2> QED BY <1>8, <2>2 DEF Belongs
<1>19. ASSUME NEW m, Lower(td2, td, cs, 2, m), td[2].f = "entry_in_new" PROVE OwnNew(fat, data, td2, rt, m)
  <2>1. m = 5 /\ td2[5] = td[2]
    <3>1. m - 1 = 4 /\ m \in Nat /\ td2[m] = td[2]
      BY <1>5, <1>19 DEF Lower
    <3>2. m = 5
      BY <3>1
    <3> QED BY <3>1, <3>2
  <2> DEFINE p == td[2].args[1]
  <2>2. p \in RootPaths
    BY <1>9, <1>19, ExtendWaits DEF RootPaths
  <2>3. OwnCall(fat, data, td, rt, 2)
    BY <1>1, <1>9 DEF OwnTree, AllOwned
  <2>4. OwnNew(fat, data, td, rt, 2)
    BY <1>19, <2>3 DEF OwnCall
  <2>5. On(fat, data, p, x)
    <3>1. 2 > 1 /\ 2 - 1 = 1
      OBVIOUS
    <3> QED BY <1>1, <2>4, <3>1 DEF OwnNew, x
  <2> HIDE DEF p
  <2>6. On(fat, data, p, c)
    BY <1>1, <1>3, <2>2, <2>5, OnReach
  <2>7. Sets(fat, td2[2], c, new)
    BY <1>7, <1>8 DEF Sets
  <2>8. 5 > 1 /\ 5 - 1 = 4 /\ 5 # 1 /\ 2 \in 1..5-1
    OBVIOUS
  <2>9. ToOn(fat, data, td2, 5, p, new)
    BY <1>3, <2>6, <2>7, <2>8 DEF ToOn
  <2> QED BY <1>7, <1>8, <2>1, <2>8, <2>9 DEF OwnNew, p
<1>20. OwnTree(fat, data, td2, rt)
  BY <1>9, <1>17, <1>18, <1>19, OwnExtendOn
<1> QED BY <1>20 DEF fat

\* A command begins.
LEMMA BegunOwn ==
  ASSUME NEW fat, NEW dat, NEW rt, NEW td, NEW rt0, OwnTree(fat, dat, td, rt0), td = <<>>, NEW td2,
         \A i \in 1..Len(td2) : td2[i].f \in {"create_file", "delete_file", "write_to_file", "look"}
  PROVE  OwnTree(fat, dat, td2, rt)
<1>1. \A i \in 1..Len(td) : FALSE
  BY EmptySeq
<1>2. \A i \in 1..Len(td2) : Silent(td2[i])
  BY DEF Silent
<1>3. ASSUME NEW c \in Entries, Wanted(fat, td2, c) PROVE Belongs(fat, dat, td2, c)
  <2>1. Wanted(fat, td, c)
    BY <1>2, <1>3, SilentHolds DEF Wanted
  <2>2. Belongs(fat, dat, td, c)
    BY <2>1 DEF OwnTree, AllBelong
  <2> QED BY <1>1, <2>2 DEF Belongs
<1>4. \A i \in 1..Len(td2) : OwnCall(fat, dat, td2, rt, i)
  BY OwnPlain
<1> QED BY <1>3, <1>4 DEF OwnTree, AllBelong, AllOwned
-----------------------------------------------------------------------------
(* The steps that write to the disk *)

\* What was held by a call that waits still is.
LEMMA StillHeld ==
  ASSUME NEW fat, NEW dat, NEW td, NEW rt, Good(fat, dat, td, rt), NEW td2, NEW cs, Restacked(td2, td, cs), Len(cs) = 0,
         NEW fat2, NEW dat2, NEW i \in 2..Len(td), NEW x \in Entries, Holds(fat, td[i], x),
         \A v \in Entries : x \in Reach(fat, v) => x \in Reach(fat2, v),
         \A y \in Entries : fat2[y] = x => fat[y] = x \/ td[i].f # "modify_fat"
  PROVE  Belongs(fat2, dat2, td2, x)
<1>1. Len(td) \in Nat /\ AllSound(fat, dat, td, rt) /\ Chained(fat)
  BY GoodFacts, SoundFacts DEF Restacked
<1>2. PICK m \in 1..Len(td2) : td2[m] = td[i]
  <2>1. PICK m \in Nat : i + Len(cs) = m + 1
    <3>1. i - 1 \in Nat /\ i + Len(cs) = (i - 1) + 1
      BY <1>1
    <3> QED BY <3>1
  <2>2. Lower(td2, td, cs, i, m) /\ m \in 1..Len(td2)
    BY <2>1, LowerAt
  <2> QED BY <2>2 DEF Lower
<1>3. Holds(fat2, td[i], x)
  <2>1. CASE td[i].f = "free_chain" /\ x \in Reach(fat, td[i].args[1])
    <3>1. CallSound(fat, dat, td, rt, i)
      BY <1>1 DEF AllSound
    <3>2. td[i].args[1] \in Links
      BY <2>1, <3>1 DEF CallSound, FreeOK
    <3>3. td[i].args[1] \in Entries
      BY <1>1, <2>1, <3>2, ReachNone
    <3> QED BY <2>1, <3>3 DEF Holds
  <2>2. CASE Changes(fat, td[i], x, 0)
    <3>1. Sets(fat, td[i], x, 0)
      BY <2>2 DEF Changes
    <3>2. 0 # 0
      BY <1>1, <3>1, WaitingSets
    <3> QED BY <3>2
  <2>3. CASE \E y \in Entries : Changes(fat, td[i], y, x)
    <3>1. PICK y \in Entries : Sets(fat, td[i], y, x) /\ fat[y] # x
      BY <2>3 DEF Changes
    <3>2. td[i].f = "modify_fat" /\ \A fat3 : Sets(fat3, td[i], y, x)
      BY <1>1, <3>1, WaitingSets
    <3>3. Changes(fat2, td[i], y, x)
      BY <3>1, <3>2 DEF Changes
    <3> QED BY <3>3 DEF Holds
  <2>4. CASE Enters(td[i], x)
    BY <2>4 DEF Holds
  <2> QED BY <2>1, <2>2, <2>3, <2>4 DEF Holds
<1> QED BY <1>2, <1>3 DEF Belongs

\* What a call that waits will mark was wanted before.
LEMMA StillWanted ==
  ASSUME NEW fat, NEW dat, NEW td, NEW rt, Good(fat, dat, td, rt), NEW td2, NEW cs, Restacked(td2, td, cs), Len(cs) = 0,
         NEW fat2, NEW x \in Entries, Wanted(fat2, td2, x), fat2[x] # 0 => Wanted(fat, td, x)
  PROVE  Wanted(fat, td, x)
<1>1. Len(td) \in Nat /\ AllSound(fat, dat, td, rt)
  BY GoodFacts DEF Restacked
<1>2. CASE fat2[x] = 0 /\ fat[x] = 0
  <2>1. PICK m \in 1..Len(td2) : Marks(fat2, td2[m], x)
    BY <1>2 DEF Wanted
  <2>2. ~(m \in 1..Len(cs))
    BY DEF Restacked
  <2>3. PICK i \in 2..Len(td) : td2[m] = td[i]
    BY <2>2, LowerIs DEF Lower
  <2> DEFINE w == EOC
  <2>4. Sets(fat2, td[i], x, w) /\ w # 0
    BY <2>1, <2>3, RootFacts DEF Marks, Changes
  <2>5. Changes(fat, td[i], x, w)
    <3> HIDE DEF w
    <3>1. Sets(fat, td[i], x, w)
      BY <1>1, <2>4, WaitingSets
    <3> QED BY <1>2, <2>4, <3>1 DEF Changes
  <2>6. i \in 1..Len(td)
    BY <1>1
  <2> QED BY <2>5, <2>6 DEF Wanted, Marks
<1>3. CASE fat2[x] # 0 \/ fat[x] # 0
  BY <1>3 DEF Wanted
<1> QED BY <1>2, <1>3

\* A write to the FAT: the entries' paths and the waiting calls.
LEMMA OwnWritten ==
  ASSUME NEW fat, NEW dat, NEW td, NEW rt, Good(fat, dat, td, rt), OwnTree(fat, dat, td, rt), NEW fat2, NEW td2, NEW cs,
         NEW c \in Entries, NEW w, Writes(fat, fat2, td, td2, cs, c, w), Chained(fat2),
         NEW D, KeepsOn(fat, dat, fat2, dat, D), Calm(td) => D = Entries, ~Calm(td) => w = 0
  PROVE  Rooted(fat2, dat) /\ AllOwned(fat2, dat, td2, rt)
<1>1. /\ Restacked(td2, td, cs) /\ td[1].f = "write_fat" /\ Len(td) \in Nat
      /\ Len(cs) = 0 /\ \A j \in 1..Len(cs) : FALSE
      /\ DiskSound(fat, dat) /\ Chained(fat) /\ HeadsSound(fat, dat)
      /\ AllSound(fat, dat, td, rt)
      /\ fat2[c] = w /\ \A d \in Entries : d # c => fat2[d] = fat[d]
      /\ \A y \in Entries : \A x : Sets(fat, td[1], y, x) => fat2[y] = x
  <2>1. /\ Moves(td2, td, "write_fat", cs) /\ td[1].f = "write_fat" /\ td[1].args[1] = 1 /\ td[1].args[2] = fat2
        /\ Len(cs) = 0 /\ \A j \in 1..Len(cs) : FALSE
        /\ DiskSound(fat, dat) /\ Chained(fat) /\ fat \in [Entries -> Links] /\ Fewer(dat, dat)
        /\ fat2[c] = w /\ \A d \in Entries : d # c => fat2[d] = fat[d]
        /\ \A y \in Entries : \A x : Sets(fat, td[1], y, x) => fat2[y] = x
        /\ Calm(cs) /\ Deeper(td, cs)
    BY WritesFacts
  <2>2. Restacked(td2, td, cs) /\ Len(td) \in Nat
    BY <2>1, MovesStack
  <2>3. HeadsSound(fat, dat) /\ AllSound(fat, dat, td, rt)
    BY <2>1, GoodFacts, SoundFacts
  <2> QED BY <2>1, <2>2, <2>3
<1>2. \A p \in RootPaths : \A x \in D : On(fat, dat, p, x) => On(fat2, dat, p, x)
  BY <1>1, OnKept
<1>3. Rooted(fat2, dat)
  BY <1>2 DEF OwnTree, Rooted, KeepsOn
<1>4. ASSUME Calm(td), NEW y \in Entries, Owned(fat, dat, y) PROVE Owned(fat2, dat, y)
  <2>1. \A v \in Entries : y \in Reach(fat, v) => y \in Reach(fat2, v)
    BY <1>4 DEF KeepsOn
  <2>2. \A l \in UsedIn(dat) : AtIn(dat, l).cluster \in Entries
    BY <1>1, HeadFacts
  <2> QED BY <1>4, <2>1, <2>2, RootFacts DEF Owned
<1>5. ASSUME NEW i \in 2..Len(td), LinkCall(td[i]) PROVE Calm(td)
  <2> DEFINE y == td[i].args[1]
             v == td[i].args[2]
  <2>1. Sets(fat, td[i], y, v) /\ v \in Entries
    BY <1>5 DEF LinkCall, Sets
  <2> HIDE DEF y, v
  <2> QED BY <1>1, <2>1, WaitingSets
<1>6. KeepsOwned(fat, dat, td, fat2, dat, cs)
  BY <1>1, <1>4, <1>5 DEF KeepsOwned
<1>7. KeepsWrites(fat, dat, td, fat2, dat, cs)
  <2>1. ~Calm(td) => \A h \in Entries : /\ fat[h] = 0 => fat2[h] = 0
                                        /\ Sets(fat, td[1], h, 0) => fat2[h] = 0
    BY <1>1
  <2> QED BY <1>1, <1>2, <2>1, FewerSame DEF KeepsWrites
<1>8. KeepsNew(fat, dat, td, fat2, dat, rt, cs)
  <2>1. ASSUME Calm(td), NEW p \in RootPaths, NEW x \in Entries, NEW y \in Entries, On(fat, dat, p, y), Sets(fat, td[1], y, x)
        PROVE  On(fat2, dat, p, x)
    <3>1. fat2[y] = x /\ On(fat2, dat, p, y)
      BY <1>1, <1>2, <2>1
    <3>2. x \in Reach(fat2, y)
      BY <3>1, ReachClosed DEF Closed
    <3> QED BY <3>1, <3>2, OnReach
  <2> QED BY <1>1, <2>1 DEF KeepsNew
<1>9. AllOwned(fat2, dat, td2, rt)
  BY <1>1, <1>6, <1>7, <1>8, AllOwnedKept DEF OwnTree
<1> QED BY <1>3, <1>9
-----------------------------------------------------------------------------
\* What a write to the FAT changes.
LEMMA WrittenChange ==
  ASSUME NEW fat, NEW dat, NEW td, NEW rt, Good(fat, dat, td, rt), NEW fat2, NEW td2, NEW cs,
         NEW c \in Entries, NEW w, Writes(fat, fat2, td, td2, cs, c, w)
  PROVE  /\ Restacked(td2, td, cs) /\ td[1].f = "write_fat" /\ 1 \in 1..Len(td) /\ Len(td) \in Nat /\ Len(cs) = 0
         /\ DiskSound(fat, dat) /\ Chained(fat) /\ Puts(fat, fat2, c, w) /\ HeadsSound(fat, dat)
         /\ fat2[c] = w /\ \A d \in Entries : d # c => fat2[d] = fat[d]
         /\ \A y \in Entries : \A x : Changes(fat, td[1], y, x) => y = c /\ x = w
         /\ \A x \in Entries : Holds(fat, td[1], x) => (x = c /\ w = 0) \/ x = w
         /\ fat[c] # w => Changes(fat, td[1], c, w)
<1>1. /\ Moves(td2, td, "write_fat", cs) /\ td[1].f = "write_fat" /\ td[1].args[1] = 1 /\ td[1].args[2] = fat2
      /\ Len(cs) = 0 /\ \A j \in 1..Len(cs) : FALSE
      /\ DiskSound(fat, dat) /\ Chained(fat) /\ fat \in [Entries -> Links] /\ Fewer(dat, dat)
      /\ fat2[c] = w /\ \A d \in Entries : d # c => fat2[d] = fat[d]
      /\ \A y \in Entries : \A x : Sets(fat, td[1], y, x) => fat2[y] = x
      /\ Calm(cs) /\ Deeper(td, cs)
  BY WritesFacts
<1>2. Restacked(td2, td, cs) /\ 1 \in 1..Len(td) /\ Len(td) \in Nat /\ HeadsSound(fat, dat)
  BY <1>1, MovesStack, SoundFacts
<1>3. Puts(fat, fat2, c, w)
  BY DEF Writes
<1>4. ASSUME NEW y \in Entries, NEW x, Changes(fat, td[1], y, x) PROVE y = c /\ x = w
  BY <1>1, <1>4 DEF Changes
<1>5. ASSUME NEW x \in Entries, Holds(fat, td[1], x) PROVE (x = c /\ w = 0) \/ x = w
  <2>1. Changes(fat, td[1], x, 0) \/ \E y \in Entries : Changes(fat, td[1], y, x)
    BY <1>1, <1>5 DEF Holds, Enters
  <2> QED BY <1>4, <2>1
<1>6. fat[c] # w => Changes(fat, td[1], c, w)
  BY <1>1, <1>3 DEF Changes, Sets, Puts
<1> QED BY <1>1, <1>2, <1>3, <1>4, <1>5, <1>6

\* An end mark.
LEMMA OwnEndWritten ==
  ASSUME NEW fat, NEW dat, NEW td, NEW rt, Good(fat, dat, td, rt), OwnTree(fat, dat, td, rt), NEW fat2, NEW td2, NEW cs,
         NEW c \in Entries, NEW w, w = EOC, Writes(fat, fat2, td, td2, cs, c, w), EndOK(fat, td, c)
  PROVE  OwnTree(fat2, dat, td2, rt)
<1>1. w \notin Entries /\ w # 0 /\ w = EOC
  BY RootFacts
<1>2. /\ Restacked(td2, td, cs) /\ td[1].f = "write_fat" /\ 1 \in 1..Len(td) /\ Len(td) \in Nat /\ Len(cs) = 0
      /\ DiskSound(fat, dat) /\ Chained(fat) /\ Puts(fat, fat2, c, w) /\ HeadsSound(fat, dat)
      /\ fat2[c] = w /\ \A d \in Entries : d # c => fat2[d] = fat[d]
      /\ \A y \in Entries : \A x : Changes(fat, td[1], y, x) => y = c /\ x = w
      /\ \A x \in Entries : Holds(fat, td[1], x) => (x = c /\ w = 0) \/ x = w
      /\ fat[c] # w => Changes(fat, td[1], c, w)
  BY ONLY Good(fat, dat, td, rt), c \in Entries, Writes(fat, fat2, td, td2, cs, c, w), WrittenChange
<1>3. fat[c] \notin Entries /\ Calm(td)
  BY DEF EndOK
<1>4. DiskSound(fat2, dat) /\ \A v \in Entries : Reach(fat2, v) = Reach(fat, v)
  BY <1>1, <1>2, <1>3, EndDisk
<1>5. Chained(fat2) /\ \A l \in UsedIn(dat) : l.cluster \in Entries /\ AtIn(dat, l).cluster \in Entries
  BY <1>2, <1>4, SoundFacts, HeadFacts, PlaceIs
<1>6. KeepsOn(fat, dat, fat2, dat, Entries)
  BY <1>4, <1>5 DEF KeepsOn
<1>7. Rooted(fat2, dat) /\ AllOwned(fat2, dat, td2, rt)
  BY <1>1, <1>3, <1>5, <1>6, OwnWritten
<1>8. ASSUME NEW x \in Entries, Wanted(fat2, td2, x) PROVE Belongs(fat2, dat, td2, x)
  <2>1. fat2[x] # 0 => Wanted(fat, td, x)
    <3>1. CASE x = c
      <4>1. fat[c] # 0 \/ Marks(fat, td[1], c)
        BY <1>1, <1>2 DEF Marks
      <4> QED BY <1>2, <3>1, <4>1 DEF Wanted
    <3>2. CASE x # c
      BY <1>2, <3>2 DEF Wanted
    <3> QED BY <3>1, <3>2
  <2>2. Wanted(fat, td, x)
    BY <1>2, <1>8, <2>1, StillWanted
  <2>3. CASE Owned(fat, dat, x)
    <3>1. Owned(fat2, dat, x)
      BY <1>4, <1>5, <2>3, RootFacts DEF Owned
    <3> QED BY <3>1 DEF Belongs
  <2>4. CASE ~Owned(fat, dat, x)
    <3>1. PICK i \in 1..Len(td) : Holds(fat, td[i], x)
      BY <2>2, <2>4 DEF OwnTree, AllBelong, Belongs
    <3>2. i # 1
      BY <1>1, <1>2, <3>1
    <3>3. i \in 2..Len(td)
      BY <1>2, <3>2
    <3>4. \A y \in Entries : fat2[y] = x => fat[y] = x
      BY <1>1, <1>2
    <3> QED BY <1>2, <1>4, <3>1, <3>3, <3>4, StillHeld
  <2> QED BY <2>3, <2>4
<1> QED BY <1>7, <1>8 DEF OwnTree, AllBelong

\* A link.
LEMMA OwnLinkWritten ==
  ASSUME NEW fat, NEW dat, NEW td, NEW rt, Good(fat, dat, td, rt), OwnTree(fat, dat, td, rt), NEW fat2, NEW td2, NEW cs,
         NEW c \in Entries, NEW w \in Entries, Writes(fat, fat2, td, td2, cs, c, w),
         LinkOn(fat, dat, td, 1, c, w), fat[w] # 0
  PROVE  OwnTree(fat2, dat, td2, rt)
<1>1. w # 0 /\ w # EOC
  BY RootFacts
<1>2. /\ Restacked(td2, td, cs) /\ td[1].f = "write_fat" /\ 1 \in 1..Len(td) /\ Len(td) \in Nat /\ Len(cs) = 0
      /\ DiskSound(fat, dat) /\ Chained(fat) /\ Puts(fat, fat2, c, w) /\ HeadsSound(fat, dat)
      /\ fat2[c] = w /\ \A d \in Entries : d # c => fat2[d] = fat[d]
      /\ \A y \in Entries : \A x : Changes(fat, td[1], y, x) => y = c /\ x = w
      /\ \A x \in Entries : Holds(fat, td[1], x) => (x = c /\ w = 0) \/ x = w
      /\ fat[c] # w => Changes(fat, td[1], c, w)
  BY WrittenChange
<1>3. /\ Calm(td) /\ Unclaimed(fat, dat, w) /\ fat[w] \notin Entries /\ c # w /\ fat[c] \notin Entries
      /\ \A j \in 2..Len(td) : td[j].f # "modify_fat"
  <2>1. Calm(td) /\ Unclaimed(fat, dat, w) /\ fat[w] \notin Entries /\ c # w /\ fat[c] \notin Entries
    BY DEF LinkOn
  <2>2. \A j \in 1+1..Len(td) : td[j].f # "modify_fat"
    BY DEF LinkOn
  <2> QED BY <2>1, <2>2
<1>4. FatSound(fat) /\ w \in Entries \ {Root} /\ \A d \in Entries : fat[d] # w
  BY <1>2, <1>3, SoundFacts DEF Unclaimed
<1>5. \A v \in Entries : /\ Reach(fat, v) \subseteq Reach(fat2, v)
                         /\ c \in Reach(fat, v) => w \in Reach(fat2, v)
  BY <1>2, <1>3, <1>4, LinkAdds
<1>6. DiskSound(fat2, dat)
  BY <1>2, <1>3, LinkDisk
<1>7. Chained(fat2) /\ \A l \in UsedIn(dat) : l.cluster \in Entries /\ AtIn(dat, l).cluster \in Entries
  BY <1>2, <1>6, SoundFacts, HeadFacts, PlaceIs
<1>8. KeepsOn(fat, dat, fat2, dat, Entries)
  BY <1>5, <1>7 DEF KeepsOn
<1>9. Rooted(fat2, dat) /\ AllOwned(fat2, dat, td2, rt)
  BY <1>3, <1>7, <1>8, OwnWritten
<1>10. \A x \in Entries : Owned(fat, dat, x) => Owned(fat2, dat, x)
  BY <1>5, <1>7, RootFacts DEF Owned
<1>11. Owned(fat, dat, c)
  <2>1. OwnLinks(fat, dat, td, 1)
    BY <1>2 DEF OwnTree, AllOwned, OwnCall
  <2>2. Changes(fat, td[1], c, w)
    BY <1>2, <1>3
  <2> QED BY <2>1, <2>2 DEF OwnLinks
<1>12. Owned(fat2, dat, w)
  BY <1>5, <1>7, <1>11, RootFacts DEF Owned
<1>13. ASSUME NEW x \in Entries, Wanted(fat2, td2, x) PROVE Belongs(fat2, dat, td2, x)
  <2>1. CASE x = c \/ x = w
    BY <1>10, <1>11, <1>12, <2>1 DEF Belongs
  <2>2. CASE x # c /\ x # w
    <3>1. Wanted(fat, td, x)
      <4>1. fat2[x] # 0 => Wanted(fat, td, x)
        BY <1>2, <2>2 DEF Wanted
      <4> QED BY <1>2, <1>13, <4>1, StillWanted
    <3>2. CASE Owned(fat, dat, x)
      BY <1>10, <3>2 DEF Belongs
    <3>3. CASE ~Owned(fat, dat, x)
      <4>1. PICK i \in 1..Len(td) : Holds(fat, td[i], x)
        BY <3>1, <3>3 DEF OwnTree, AllBelong, Belongs
      <4>2. i # 1
        BY <1>1, <1>2, <2>2, <4>1
      <4>3. i \in 2..Len(td)
        BY <1>2, <4>2
      <4> QED BY <1>2, <1>3, <1>5, <4>1, <4>3, StillHeld
    <3> QED BY <3>2, <3>3
  <2> QED BY <2>1, <2>2
<1> QED BY <1>9, <1>13 DEF OwnTree, AllBelong

\* A free mark: what followed is freed next.
LEMMA OwnZeroWritten ==
  ASSUME NEW fat, NEW dat, NEW td, NEW rt, Good(fat, dat, td, rt), OwnTree(fat, dat, td, rt), NEW fat2, NEW td2, NEW cs,
         NEW c \in Entries, NEW w, w = 0, Writes(fat, fat2, td, td2, cs, c, w), ZeroOK(fat, dat, td, c)
  PROVE  OwnTree(fat2, dat, td2, rt)
<1>1. w \notin Entries /\ w = 0 /\ 0 \notin Entries
  BY RootFacts
<1>2. /\ Restacked(td2, td, cs) /\ td[1].f = "write_fat" /\ 1 \in 1..Len(td) /\ Len(td) \in Nat /\ Len(cs) = 0
      /\ DiskSound(fat, dat) /\ Chained(fat) /\ Puts(fat, fat2, c, w) /\ HeadsSound(fat, dat)
      /\ fat2[c] = w /\ \A d \in Entries : d # c => fat2[d] = fat[d]
      /\ \A y \in Entries : \A x : Changes(fat, td[1], y, x) => y = c /\ x = w
      /\ \A x \in Entries : Holds(fat, td[1], x) => (x = c /\ w = 0) \/ x = w
      /\ fat[c] # w => Changes(fat, td[1], c, w)
  BY ONLY Good(fat, dat, td, rt), c \in Entries, Writes(fat, fat2, td, td2, cs, c, w), WrittenChange
<1>3. ~Calm(td) /\ c \in Entries \ {Root} /\ (\A d \in Entries : fat[d] # c) /\ \A l \in UsedIn(dat) : l.cluster # c
  BY DEF ZeroOK
<1>4. DiskSound(fat2, dat) /\ \A v \in Entries : v # c => Reach(fat2, v) = Reach(fat, v)
  BY <1>1, <1>2, <1>3, ZeroDisk
<1>5. Chained(fat2) /\ \A l \in UsedIn(dat) : l.cluster \in Entries /\ AtIn(dat, l).cluster \in Entries
  BY <1>2, <1>4, SoundFacts, HeadFacts, PlaceIs
<1>6. ASSUME NEW x \in Reach(fat, c), x # c
      PROVE  \E j \in 2..Len(td) : td[j].f = "free_chain" /\ td[j].args[1] = fat[c] /\ x \in Reach(fat, fat[c])
                                   /\ fat[c] \in Entries /\ \A l \in UsedIn(dat) : l.cluster # x
  <2>1. fat[c] \in Entries /\ x \in Reach(fat, fat[c])
    BY <1>2, <1>6, ReachRest
  <2>2. Changes(fat, td[1], c, 0)
    BY <1>1, <1>2, <2>1
  <2>3. FreesOn(fat, td, 1)
    BY <1>2 DEF OwnTree, AllOwned, OwnCall
  <2>4. PICK j \in 1+1..Len(td) : /\ td[j].f = "free_chain" /\ td[j].args[1] = fat[c]
                                  /\ \A k \in 1..j-1 : FatCall(td[k])
    BY <2>1, <2>2, <2>3 DEF FreesOn
  <2>5. j \in 2..Len(td) /\ j \in 1..Len(td) /\ j - 1 \in 1..j-1
    BY <1>2
  <2>6. FreeOK(fat, dat, td, j)
    <3>1. AllSound(fat, dat, td, rt)
      BY GoodFacts
    <3> QED BY <2>4, <2>5, <3>1 DEF AllSound, CallSound
  <2>7. td[j-1].f # "delete_inside"
    BY <2>4, <2>5 DEF FatCall
  <2>8. \A l \in UsedIn(dat) : l.cluster \notin Reach(fat, fat[c])
    BY <2>4, <2>6, <2>7 DEF FreeOK
  <2> QED BY <2>1, <2>4, <2>5, <2>8
<1> DEFINE D == {l.cluster : l \in UsedIn(dat)}
<1>7. KeepsOn(fat, dat, fat2, dat, D)
  <2>1. \A m \in UsedIn(dat) : m.cluster \in D
    OBVIOUS
  <2>2. ASSUME NEW v \in Entries, NEW d \in D, d \in Reach(fat, v) PROVE d \in Reach(fat2, v)
    <3>1. PICK l \in UsedIn(dat) : d = l.cluster
      OBVIOUS
    <3>2. v # c
      BY <1>3, <1>6, <2>2, <3>1
    <3> QED BY <1>4, <2>2, <3>2
  <2> HIDE DEF D
  <2> QED BY <2>1, <2>2 DEF KeepsOn
<1> HIDE DEF D
<1>8. Rooted(fat2, dat) /\ AllOwned(fat2, dat, td2, rt)
  BY <1>1, <1>3, <1>5, <1>7, OwnWritten
<1>9. ASSUME NEW x \in Reach(fat, c), x # c PROVE Belongs(fat2, dat, td2, x)
  <2>1. PICK j \in 2..Len(td) : td[j].f = "free_chain" /\ td[j].args[1] = fat[c] /\ x \in Reach(fat, fat[c])
                                /\ fat[c] \in Entries
    BY <1>6, <1>9
  <2>2. x \in Reach(fat2, fat[c])
    BY <1>3, <1>4, <2>1
  <2>3. Holds(fat2, td[j], x)
    BY <2>1, <2>2 DEF Holds
  <2>4. PICK m \in Nat : j + Len(cs) = m + 1
    <3>1. j - 1 \in Nat /\ j + Len(cs) = (j - 1) + 1
      BY <1>2
    <3> QED BY <3>1
  <2>5. Lower(td2, td, cs, j, m) /\ m \in 1..Len(td2)
    BY <1>2, <2>4, LowerAt
  <2>6. td2[m] = td[j]
    BY <2>5 DEF Lower
  <2> QED BY <2>3, <2>5, <2>6 DEF Belongs
<1>10. ASSUME NEW x \in Entries, Wanted(fat2, td2, x) PROVE Belongs(fat2, dat, td2, x)
  <2>1. x # c /\ Wanted(fat, td, x)
    <3>1. fat2[x] # 0
      <4> SUFFICES ASSUME fat2[x] = 0 PROVE FALSE
        OBVIOUS
      <4>1. PICK m \in 1..Len(td2) : Marks(fat2, td2[m], x)
        BY <1>10 DEF Wanted
      <4>2. ~(m \in 1..Len(cs))
        BY <1>2
      <4>3. PICK i \in 2..Len(td) : Lower(td2, td, cs, i, m)
        BY <1>2, <4>2, LowerIs
      <4>4. td2[m] = td[i]
        BY <4>3 DEF Lower
      <4> QED BY <1>3, <4>1, <4>4, UncalmMarks
    <3> QED BY <1>1, <1>2, <3>1 DEF Wanted
  <2>2. CASE x \in Reach(fat, c)
    BY <1>9, <2>1, <2>2
  <2>3. CASE x \notin Reach(fat, c)
    <3>1. \A v \in Entries : x \in Reach(fat, v) => x \in Reach(fat2, v)
      BY <1>4, <2>3
    <3>2. CASE Owned(fat, dat, x)
      <4>1. Owned(fat2, dat, x)
        BY <1>5, <3>1, <3>2, RootFacts DEF Owned
      <4> QED BY <4>1 DEF Belongs
    <3>3. CASE ~Owned(fat, dat, x)
      <4>1. PICK i \in 1..Len(td) : Holds(fat, td[i], x)
        BY <2>1, <3>3 DEF OwnTree, AllBelong, Belongs
      <4>2. i # 1
        BY <1>1, <1>2, <2>1, <4>1
      <4>3. i \in 2..Len(td)
        BY <1>2, <4>2
      <4>4. \A y \in Entries : fat2[y] = x => fat[y] = x
        BY <1>1, <1>2
      <4> QED BY <1>2, <3>1, <4>1, <4>3, <4>4, StillHeld
    <3> QED BY <3>2, <3>3
  <2> QED BY <2>2, <2>3
<1> QED BY <1>8, <1>10 DEF OwnTree, AllBelong

\* The first copy is written.
LEMMA OwnFatWritten ==
  ASSUME NEW fat, NEW dat, NEW td, NEW rt, Good(fat, dat, td, rt), OwnTree(fat, dat, td, rt), NEW fat2, NEW td2, NEW cs,
         Moves(td2, td, "write_fat", cs), IsNone(cs), td[1].args[1] = 1, td[1].args[2] = fat2
  PROVE  OwnTree(fat2, dat, td2, rt)
<1>1. AllSound(fat, dat, td, rt) /\ 1 \in 1..Len(td) /\ td[1].f = "write_fat"
  BY GoodFacts, MovesStack
<1>2. WriteFatOK(fat, dat, td, 1)
  BY <1>1 DEF AllSound, CallSound
<1>3. PICK c \in Entries, w \in Links : /\ fat2 = [fat EXCEPT ![c] = w]
                                        /\ ChangeOK(fat, dat, td, 1, c, w)
                                        /\ w \in Entries => fat[w] # 0
  BY <1>2 DEF WriteFatOK
<1>4. Writes(fat, fat2, td, td2, cs, c, w)
  BY <1>3 DEF Writes, Puts
<1>5. CASE w = EOC
  <2>1. EndOK(fat, td, c)
    BY <1>3, <1>5 DEF ChangeOK
  <2> QED BY <1>4, <1>5, <2>1, OwnEndWritten
<1>6. CASE w = 0
  <2>1. ZeroOK(fat, dat, td, c)
    BY <1>3, <1>6 DEF ChangeOK
  <2> QED BY <1>4, <1>6, <2>1, OwnZeroWritten
<1>7. CASE w \in Entries
  <2>1. LinkOn(fat, dat, td, 1, c, w) /\ fat[w] # 0
    BY <1>3, <1>7 DEF ChangeOK
  <2> QED BY <1>4, <1>7, <2>1, OwnLinkWritten
<1> QED BY <1>5, <1>6, <1>7 DEF Links
-----------------------------------------------------------------------------
\* What a write to a cluster does to the entries.
Removed(dat, t, dat2) ==
  \A l \in UsedIn(dat) : Removes(t, l) \/ (l \in UsedIn(dat2) /\ AtIn(dat2, l) = AtIn(dat, l))
Entered(dat, t, c, dat2) ==
  \A l \in UsedIn(dat2) : \/ l \in UsedIn(dat) /\ AtIn(dat2, l) = AtIn(dat, l)
                          \/ l.cluster = c /\ NewUse(dat, t, l.slot) /\ AtIn(dat2, l) = RowFrom(t.args[2])[l.slot]

\* An image that keeps what it does not take away does that.
LEMMA StoredUsed ==
  ASSUME NEW dat, RowsSound(dat), NEW t, NEW c \in Entries, NEW img \in Rows \cup Pieces, TextIsText(RowFrom(img)),
         t.f = "write_data", t.args[1] = c, t.args[2] = img, NEW dat2, Puts(dat, dat2, c, img),
         \A l \in UsedIn(dat) : l.cluster = c => ~InUse(RowFrom(img)[l.slot]) \/ RowFrom(img)[l.slot] = AtIn(dat, l)
  PROVE  Removed(dat, t, dat2) /\ Entered(dat, t, c, dat2)
<1>1. /\ \A l \in Places : l.cluster # c => AtIn(dat2, l) = AtIn(dat, l)
      /\ \A l \in Places : l.cluster = c => AtIn(dat2, l) = RowFrom(img)[l.slot]
  BY WriteIs
<1>2. ASSUME NEW l \in UsedIn(dat), ~Removes(t, l) PROVE l \in UsedIn(dat2) /\ AtIn(dat2, l) = AtIn(dat, l)
  <2>1. l \in Places /\ InUse(AtIn(dat, l))
    BY DEF UsedIn
  <2>2. AtIn(dat2, l) = AtIn(dat, l)
    BY <1>1, <1>2, <2>1 DEF Removes
  <2> QED BY <2>1, <2>2 DEF UsedIn
<1>3. ASSUME NEW l \in UsedIn(dat2), ~(l \in UsedIn(dat) /\ AtIn(dat2, l) = AtIn(dat, l))
      PROVE  l.cluster = c /\ NewUse(dat, t, l.slot) /\ AtIn(dat2, l) = RowFrom(img)[l.slot]
  <2>1. l \in Places /\ InUse(AtIn(dat2, l)) /\ l = [cluster |-> l.cluster, slot |-> l.slot]
    BY PlaceIs DEF UsedIn
  <2>2. l.cluster = c
    BY <1>1, <1>3, <2>1 DEF UsedIn
  <2>3. AtIn(dat2, l) = RowFrom(img)[l.slot]
    BY <1>1, <2>1, <2>2
  <2>4. AtIn(dat2, l) # AtIn(dat, l)
    BY <1>3, <2>1 DEF UsedIn
  <2>5. l = [cluster |-> c, slot |-> l.slot]
    BY <2>1, <2>2
  <2>6. NewUse(dat, t, l.slot)
    BY <2>1, <2>3, <2>4, <2>5 DEF NewUse
  <2> QED BY <2>2, <2>3, <2>6
<1> QED BY <1>2, <1>3 DEF Removed, Entered

\* What a write to a cluster still knows.
Storing(fat, dat, td, c, dat2) ==
  /\ Removed(dat, td[1], dat2) /\ Entered(dat, td[1], c, dat2)
  /\ (\E i \in 2..Len(td) : td[i].f = "write_data") => Fewer(dat, dat2)
  /\ Calm(td) /\ ~Lone(td, 1) => \A l \in UsedIn(dat) : ~Removes(td[1], l)
  /\ \A d \in Entries : d # c => dat2[d] = dat[d]
  /\ fat[c] # 0 \/ \A s \in 1..Slots : ~NewUse(dat, td[1], s)

\* Each write to a cluster that can come first does that.
LEMMA StoresIt ==
  ASSUME NEW fat, NEW dat, NEW td, NEW rt, Good(fat, dat, td, rt), NEW dat2, 1 \in 1..Len(td), Len(td) \in Nat,
         td[1].f = "write_data", NEW c \in Entries, td[1].args[1] = c, NEW img, td[1].args[2] = img,
         Puts(dat, dat2, c, img)
  PROVE  Storing(fat, dat, td, c, dat2)
<1>1. DiskSound(fat, dat) /\ RowsSound(dat) /\ AllSound(fat, dat, td, rt)
  BY GoodFacts, SoundFacts
<1>2. WriteOK(fat, dat, td, 1)
  BY <1>1 DEF AllSound, CallSound
<1>3. /\ img \in Rows \cup Pieces /\ TextIsText(RowFrom(img)) /\ ((c = Root /\ Kernel) => RowFrom(img)[1].name = "kernel")
      /\ \/ Thins(dat, c, img) /\ (Calm(td) => (\A l \in UsedIn(dat) : l.cluster # c) \/ Lone(td, 1))
         \/ Adds(fat, dat, td, 1, c, img)
  BY <1>2 DEF WriteOK
<1>4. \A d \in Entries : d # c => dat2[d] = dat[d]
  BY <1>1, <1>3, WriteIs
<1>5. \A l \in UsedIn(dat) : /\ l \in Places /\ InUse(AtIn(dat, l)) /\ l.slot \in 1..Slots
                             /\ l = [cluster |-> l.cluster, slot |-> l.slot]
  BY PlaceIs DEF UsedIn
<1>6. CASE Thins(dat, c, img) /\ (Calm(td) => (\A l \in UsedIn(dat) : l.cluster # c) \/ Lone(td, 1))
  <2>1. \A l \in UsedIn(dat) : l.cluster = c => ~InUse(RowFrom(img)[l.slot]) \/ RowFrom(img)[l.slot] = AtIn(dat, l)
    BY <1>5, <1>6 DEF Thins
  <2>2. Removed(dat, td[1], dat2) /\ Entered(dat, td[1], c, dat2)
    BY <1>1, <1>3, <2>1, StoredUsed
  <2>3. Fewer(dat, dat2)
    BY <1>1, <1>3, <1>6, ThinDisk
  <2>4. Calm(td) /\ ~Lone(td, 1) => \A l \in UsedIn(dat) : ~Removes(td[1], l)
    BY <1>6 DEF Removes
  <2>5. \A s \in 1..Slots : ~NewUse(dat, td[1], s)
    BY <1>6 DEF NewUse, Thins
  <2> QED BY <1>4, <2>2, <2>3, <2>4, <2>5 DEF Storing
<1>7. CASE Adds(fat, dat, td, 1, c, img)
  <2>1. PICK s \in 1..Slots, n \in Names, d \in BOOLEAN, new \in Entries :
             /\ ~InUse(AtIn(dat, [cluster |-> c, slot |-> s]))
             /\ img = [RowFrom(dat[c]) EXCEPT ![s] = Entry(n, d, new)]
             /\ fat[c] # 0 /\ 2 <= Len(td) /\ td[1+1] = modify_fat(new, EOC) /\ Rest(td, 1+1)
    BY <1>7 DEF Adds
  <2> DEFINE loc == [cluster |-> c, slot |-> s]
             p == <<n>>
  <2>2. Last(p) = n /\ loc \in Places /\ loc.cluster = c /\ loc.slot = s
    BY PlaceIs DEF Last
  <2>3. img = WithIn(dat, loc, p, d, new)
    BY <2>1, <2>2 DEF WithIn
  <2>4. Last(p) \in Names
    BY <2>2
  <2> HIDE DEF loc, p
  <2>5. \A k \in 1..Slots : k # loc.slot => RowFrom(img)[k] = AtIn(dat, [cluster |-> loc.cluster, slot |-> k])
    BY <1>1, <2>2, <2>3, <2>4, WithRows
  <2>6. \A l \in UsedIn(dat) : l.cluster = c => RowFrom(img)[l.slot] = AtIn(dat, l)
    <3>1. SUFFICES ASSUME NEW l \in UsedIn(dat), l.cluster = c PROVE RowFrom(img)[l.slot] = AtIn(dat, l)
      OBVIOUS
    <3>2. l = [cluster |-> c, slot |-> l.slot] /\ l.slot \in 1..Slots /\ InUse(AtIn(dat, l))
      BY <1>5, <3>1
    <3>3. l.slot # s
      BY <2>1, <3>2
    <3> QED BY <2>2, <2>5, <3>2, <3>3
  <2>7. Removed(dat, td[1], dat2) /\ Entered(dat, td[1], c, dat2)
    BY <1>1, <1>3, <2>6, StoredUsed
  <2>8. \A l \in UsedIn(dat) : ~Removes(td[1], l)
    BY <1>5, <2>6 DEF Removes
  <2>9. ~(\E i \in 2..Len(td) : td[i].f = "write_data")
    <3>1. SUFFICES ASSUME NEW i \in 2..Len(td) PROVE td[i].f # "write_data"
      OBVIOUS
    <3>2. i = 2 \/ i \in 2+1..Len(td)
      OBVIOUS
    <3>3. td[2].f = "modify_fat" /\ \A j \in 2+1..Len(td) : td[j].f \in {"write_to_file", "look"}
      BY <2>1, CallsAre DEF Rest
    <3> QED BY <3>2, <3>3
  <2> QED BY <1>4, <2>1, <2>7, <2>8, <2>9 DEF Storing
<1> QED BY <1>3, <1>6, <1>7
-----------------------------------------------------------------------------
\* An entry that is taken away has lost its chain.
LEMMA RemovedHead ==
  ASSUME NEW fat, NEW dat, NEW td, NEW rt, Good(fat, dat, td, rt), OwnTree(fat, dat, td, rt), 1 \in 1..Len(td),
         td[1].f = "write_data", NEW l \in UsedIn(dat), Removes(td[1], l)
  PROVE  /\ fat[AtIn(dat, l).cluster] = 0
         /\ \A j \in 2..Len(td) : ~Marking(td[j], AtIn(dat, l).cluster)
         /\ \A x \in Reach(fat, AtIn(dat, l).cluster) : x = AtIn(dat, l).cluster
<1> DEFINE h == AtIn(dat, l).cluster
<1>1. Chained(fat) /\ h \in Entries
  BY GoodFacts, SoundFacts, HeadFacts
<1>2. OwnWrite(fat, dat, td, 1)
  BY DEF OwnTree, AllOwned, OwnCall
<1>3. Emptied(fat, td, 1, h) /\ Unmarked(td, 1, h)
  BY <1>2 DEF OwnWrite
<1> HIDE DEF h
<1>4. fat[h] = 0 /\ fat[h] \notin Entries
  BY <1>3, RootFacts DEF Emptied
<1>5. \A j \in 1+1..Len(td) : ~Marking(td[j], h)
  BY <1>3 DEF Unmarked
<1>6. Reach(fat, h) \subseteq {h}
  BY <1>1, <1>4, ReachAlone
<1> QED BY <1>4, <1>5, <1>6 DEF h

\* A write to a cluster: what lies in a directory stays in it.
LEMMA StoredOn ==
  ASSUME NEW fat, NEW dat, NEW td, NEW rt, Good(fat, dat, td, rt), OwnTree(fat, dat, td, rt), 1 \in 1..Len(td),
         td[1].f = "write_data", NEW c, NEW dat2, Storing(fat, dat, td, c, dat2)
  PROVE  /\ KeepsOn(fat, dat, fat, dat2, {d \in Entries : fat[d] # 0})
         /\ (\A l \in UsedIn(dat) : ~Removes(td[1], l)) => KeepsOn(fat, dat, fat, dat2, Entries)
<1>1. \A l \in UsedIn(dat) : /\ l.cluster \in Entries /\ AtIn(dat, l).cluster \in Entries /\ fat[l.cluster] # 0
  BY GoodFacts, SoundFacts, HeadFacts, PlaceIs
<1>2. \A l \in UsedIn(dat) : Removes(td[1], l) \/ (l \in UsedIn(dat2) /\ AtIn(dat2, l) = AtIn(dat, l))
  BY DEF Storing, Removed
<1>3. ASSUME NEW l \in UsedIn(dat), NEW d \in Reach(fat, AtIn(dat, l).cluster), fat[d] # 0
      PROVE  l \in UsedIn(dat2) /\ AtIn(dat2, l) = AtIn(dat, l)
  <2>1. ~Removes(td[1], l)
    BY <1>3, RemovedHead
  <2> QED BY <1>2, <2>1
<1>4. KeepsOn(fat, dat, fat, dat2, {d \in Entries : fat[d] # 0})
  BY <1>1, <1>3 DEF KeepsOn
<1>5. (\A l \in UsedIn(dat) : ~Removes(td[1], l)) => KeepsOn(fat, dat, fat, dat2, Entries)
  BY <1>1, <1>2 DEF KeepsOn
<1> QED BY <1>4, <1>5

\* What waits to mark a cluster is a modify_fat.
LEMMA MarkWaits ==
  ASSUME NEW fat, NEW dat, NEW td, NEW rt, AllSound(fat, dat, td, rt), Len(td) \in Nat, NEW i \in 2..Len(td),
         NEW x, Sets(fat, td[i], x, EOC)
  PROVE  Marking(td[i], x)
<1>1. i \in 1..Len(td) /\ i # 1
  OBVIOUS
<1>2. CallSound(fat, dat, td, rt, i)
  BY <1>1 DEF AllSound
<1>3. ~(td[i].f = "write_fat" /\ td[i].args[1] = 1)
  BY <1>1, <1>2 DEF CallSound, WriteFatOK
<1> QED BY <1>3 DEF Sets, Marking

\* The cluster is written.
LEMMA OwnDataWritten ==
  ASSUME NEW fat, NEW dat, NEW td, NEW rt, Good(fat, dat, td, rt), OwnTree(fat, dat, td, rt), NEW dat2, NEW td2, NEW cs,
         Moves(td2, td, "write_data", cs), IsNone(cs),
         NEW c \in Entries, td[1].args[1] = c, Puts(dat, dat2, c, td[1].args[2])
  PROVE  OwnTree(fat, dat2, td2, rt)
<1> DEFINE img == td[1].args[2]
<1>1. /\ Restacked(td2, td, cs) /\ td[1].f = "write_data" /\ 1 \in 1..Len(td) /\ Len(td) \in Nat
      /\ Len(cs) = 0 /\ \A j \in 1..Len(cs) : FALSE
  BY MovesStack, NoCalls DEF IsNone
<1>2. DiskSound(fat, dat) /\ Chained(fat) /\ AllSound(fat, dat, td, rt)
  BY GoodFacts, SoundFacts
<1>3. Storing(fat, dat, td, c, dat2)
  BY <1>1, StoresIt
<1>4. Good(fat, dat2, td2, rt)
  BY DataWritten
<1> HIDE DEF img
<1> DEFINE D == {d \in Entries : fat[d] # 0}
<1>5. KeepsOn(fat, dat, fat, dat2, D) /\ ((\A l \in UsedIn(dat) : ~Removes(td[1], l)) => KeepsOn(fat, dat, fat, dat2, Entries))
  BY <1>1, <1>3, StoredOn
<1>6. \A p \in RootPaths : \A d \in Entries : fat[d] # 0 /\ On(fat, dat, p, d) => On(fat, dat2, p, d)
  <2>1. \A d \in Entries : fat[d] # 0 => d \in D
    OBVIOUS
  <2> HIDE DEF D
  <2> QED BY <1>2, <1>5, <2>1, OnKept
<1>7. \A l \in UsedIn(dat) : Removes(td[1], l) \/ (l \in UsedIn(dat2) /\ AtIn(dat2, l) = AtIn(dat, l))
  BY <1>3 DEF Storing, Removed
<1>8. \A l \in UsedIn(dat2) : \/ l \in UsedIn(dat) /\ AtIn(dat2, l) = AtIn(dat, l)
                              \/ l.cluster = c /\ NewUse(dat, td[1], l.slot) /\ AtIn(dat2, l) = RowFrom(img)[l.slot]
  BY <1>3 DEF Storing, Entered, img
<1>9. \A y, w : ~Sets(fat, td[1], y, w)
  BY <1>1 DEF Sets
<1>10. ASSUME NEW l \in UsedIn(dat2)
       PROVE  \E p \in RootPaths : Last(p) = AtIn(dat2, l).name /\ On(fat, dat2, p, l.cluster)
  <2>1. CASE l \in UsedIn(dat) /\ AtIn(dat2, l) = AtIn(dat, l)
    <3>1. PICK p \in RootPaths : Last(p) = AtIn(dat, l).name /\ On(fat, dat, p, l.cluster)
      BY <2>1 DEF OwnTree, Rooted
    <3>2. l.cluster \in Entries /\ fat[l.cluster] # 0
      BY <1>2, <2>1, SoundFacts, HeadFacts, PlaceIs
    <3> QED BY <1>6, <2>1, <3>1, <3>2
  <2>2. CASE l.cluster = c /\ NewUse(dat, td[1], l.slot) /\ AtIn(dat2, l) = RowFrom(img)[l.slot]
    <3>1. OwnWrite(fat, dat, td, 1)
      BY <1>1 DEF OwnTree, AllOwned, OwnCall
    <3>2. l.slot \in 1..Slots
      BY PlaceIs DEF UsedIn
    <3>3. PICK p \in Paths : Last(p) = RowFrom(img)[l.slot].name /\ On(fat, dat, p, c)
      BY <2>2, <3>1, <3>2 DEF OwnWrite, img
    <3>4. fat[c] # 0
      BY <1>3, <2>2, <3>2 DEF Storing
    <3>5. p \in RootPaths
      BY DEF RootPaths
    <3> QED BY <1>6, <2>2, <3>3, <3>4, <3>5
  <2> QED BY <1>8, <2>1, <2>2
<1>11. Rooted(fat, dat2)
  BY <1>10 DEF Rooted
<1>12. KeepsOwned(fat, dat, td, fat, dat2, cs)
  BY <1>1 DEF KeepsOwned, FatCall
<1>13. KeepsWrites(fat, dat, td, fat, dat2, cs)
  <2>1. (\E i \in 2..Len(td) : td[i].f = "write_data") => Fewer(dat, dat2)
    BY <1>3 DEF Storing
  <2>2. \A d \in Entries : dat2[d] = dat[d] \/ (td[1].f = "write_data" /\ td[1].args[1] = d)
    BY <1>1, <1>3 DEF Storing
  <2>3. ASSUME Calm(td), ~Lone(td, 1), NEW p \in RootPaths, NEW x \in Entries, On(fat, dat, p, x)
        PROVE  On(fat, dat2, p, x)
    <3>1. KeepsOn(fat, dat, fat, dat2, Entries)
      BY <1>3, <1>5, <2>3 DEF Storing
    <3> QED BY <1>2, <2>3, <3>1, OnKept
  <2> QED BY <1>1, <1>9, <2>1, <2>2, <2>3 DEF KeepsWrites
<1>14. KeepsNew(fat, dat, td, fat, dat2, rt, cs)
  BY <1>1, <1>9 DEF KeepsNew
<1>15. AllOwned(fat, dat2, td2, rt)
  BY <1>1, <1>12, <1>13, <1>14, AllOwnedKept DEF OwnTree
<1>16. ASSUME NEW x \in Entries, Wanted(fat, td2, x) PROVE Belongs(fat, dat2, td2, x)
  <2>1. Wanted(fat, td, x)
    <3>1. fat[x] # 0 => Wanted(fat, td, x)
      BY DEF Wanted
    <3> QED BY <1>1, <1>16, <3>1, StillWanted
  <2>2. CASE Owned(fat, dat, x)
    <3>1. CASE x \in Reach(fat, Root)
      BY <3>1 DEF Belongs, Owned
    <3>2. CASE \E l \in UsedIn(dat) : x \in Reach(fat, AtIn(dat, l).cluster)
      <4>1. PICK l \in UsedIn(dat) : x \in Reach(fat, AtIn(dat, l).cluster)
        BY <3>2
      <4>2. CASE l \in UsedIn(dat2) /\ AtIn(dat2, l) = AtIn(dat, l)
        BY <4>1, <4>2 DEF Belongs, Owned
      <4>3. CASE Removes(td[1], l)
        <5>1. fat[x] = 0 /\ \A j \in 2..Len(td) : ~Marking(td[j], x)
          <6>1. x = AtIn(dat, l).cluster
            BY <1>1, <4>1, <4>3, RemovedHead
          <6>2. fat[AtIn(dat, l).cluster] = 0 /\ \A j \in 2..Len(td) : ~Marking(td[j], AtIn(dat, l).cluster)
            BY <1>1, <4>1, <4>3, RemovedHead
          <6> QED BY <6>1, <6>2
        <5>2. PICK m \in 1..Len(td2) : Marks(fat, td2[m], x)
          BY <1>16, <5>1 DEF Wanted
        <5>3. PICK i \in 2..Len(td) : Lower(td2, td, cs, i, m)
          BY <1>1, LowerIs
        <5>4. td2[m] = td[i]
          BY <5>3 DEF Lower
        <5>5. Sets(fat, td[i], x, EOC)
          BY <5>2, <5>4 DEF Marks, Changes
        <5>6. i \in 2..Len(td)
          BY <5>3
        <5>7. Marking(td[i], x)
          BY <1>1, <1>2, <5>5, <5>6, MarkWaits
        <5>8. ~Marking(td[i], x)
          BY <5>1, <5>6
        <5> QED BY ONLY <5>7, <5>8
      <4> QED BY <1>7, <4>2, <4>3
    <3> QED BY <2>2, <3>1, <3>2 DEF Owned
  <2>3. CASE ~Owned(fat, dat, x)
    <3>1. PICK i \in 1..Len(td) : Holds(fat, td[i], x)
      BY <2>1, <2>3 DEF OwnTree, AllBelong, Belongs
    <3>2. CASE i = 1
      <4>1. Enters(td[1], x)
        BY <1>1, <1>9, <3>1, <3>2 DEF Holds, Changes
      <4>2. PICK s \in 1..Slots : InUse(RowFrom(img)[s]) /\ RowFrom(img)[s].cluster = x
        BY <4>1 DEF Enters, img
      <4> DEFINE l == [cluster |-> c, slot |-> s]
      <4>3. l \in Places /\ l.cluster = c /\ l.slot = s
        BY PlaceIs
      <4>4. AtIn(dat2, l) = RowFrom(img)[s]
        <5>1. /\ img \in Rows \cup Pieces /\ TextIsText(RowFrom(img)) /\ RowsSound(dat) /\ Puts(dat, dat2, c, img)
          <6>1. WriteOK(fat, dat, td, 1)
            BY <1>1, <1>2 DEF AllSound, CallSound
          <6> QED BY <1>2, <6>1, SoundFacts DEF WriteOK, img
        <5> HIDE DEF l
        <5> QED BY <4>3, <5>1, WriteIs
      <4> HIDE DEF l
      <4>5. l \in UsedIn(dat2) /\ AtIn(dat2, l).cluster = x
        BY <4>2, <4>3, <4>4 DEF UsedIn
      <4>6. x \in Reach(fat, x)
        BY <1>2, ReachClosed
      <4> QED BY <4>5, <4>6 DEF Belongs, Owned
    <3>3. CASE i # 1
      <4>1. i \in 2..Len(td)
        BY <1>1, <3>3
      <4> QED BY <1>1, <3>1, <4>1, StillHeld
    <3> QED BY <3>2, <3>3
  <2> QED BY <2>2, <2>3
<1> QED BY <1>11, <1>15, <1>16 DEF OwnTree, AllBelong
-----------------------------------------------------------------------------
(* Between commands no cluster is lost *)

\* An entry that lies under a path is what get_file_location finds there.
LEMMA FoundAgain ==
  ASSUME DiskSound(fats[1], data), Rooted(fats[1], data), NEW l \in UsedIn(data)
  PROVE  \E p \in Owners : p # <<>> /\ Find(p) = l
<1>1. PICK p \in RootPaths : Last(p) = AtIn(data, l).name /\ On(fats[1], data, p, l.cluster)
  BY DEF Rooted
<1>2. /\ p \in Seq(NamesOf) /\ p # <<>> /\ Len(p) \in Nat \ {0}
      /\ Front(p) \in Seq(NamesOf) /\ Len(Front(p)) = Len(p) - 1
  BY RootPathIs
<1>3. Chained(fats[1]) /\ NamesSound(fats[1], data)
  BY SoundFacts
<1>4. PICK g : IsWay(fats[1], data, g, Front(p)) /\ g[Len(p)-1] \in Entries /\ l.cluster \in Reach(fats[1], g[Len(p)-1])
  BY <1>1, <1>3, WayOn
<1>5. l \in Places /\ InUse(AtIn(data, l))
  BY DEF UsedIn
<1>6. Find(p) # NotFound
  <2>1. Find(p) = NotFound => AtIn(data, l).name # Last(p)
    BY <1>2, <1>4, <1>5, Finding
  <2> QED BY <1>1, <2>1
<1>7. Find(p) \in Places /\ AtIn(data, Find(p)).name = Last(p)
  BY <1>2, <1>6, Finding
<1>8. PICK g2 : IsWay(fats[1], data, g2, Front(p)) /\ Find(p).cluster \in Reach(fats[1], g2[Len(p)-1])
  BY <1>2, <1>6, Finding
<1>9. g2[Len(p)-1] = g[Len(p)-1]
  BY <1>2, <1>4, <1>8, Destination
<1>10. Find(p) \in UsedIn(data)
  BY <1>1, <1>5, <1>7 DEF UsedIn, InUse
<1>11. Find(p) = l
  BY <1>1, <1>3, <1>4, <1>7, <1>8, <1>9, <1>10 DEF NamesSound
<1>12. p \in Owners
  BY <1>6 DEF Owners, Live, RootPaths
<1> QED BY <1>2, <1>11, <1>12

\* What a file or directory has is in use, when no call is to be made.
LEMMA OwnedInUse ==
  ASSUME Good(fats[1], data, todo, ret), todo = <<>>, NEW p \in Owners, NEW c \in Reach(fats[1], HeadOf(p))
  PROVE  c \in Entries /\ fats[1][c] # 0
<1>1. /\ DiskSound(fats[1], data) /\ Chained(fats[1]) /\ FatSound(fats[1]) /\ HeadsSound(fats[1], data)
      /\ Debts(fats[1], data, todo)
  BY GoodFacts, SoundFacts
<1>2. HeadOf(p) \in Entries /\ fats[1][HeadOf(p)] # 0
  <2>1. CASE p = <<>>
    BY <1>1, <2>1, RootFacts DEF HeadOf, FatSound
  <2>2. CASE p # <<>>
    <3> DEFINE l == Find(p)
    <3>1. l \in UsedIn(data)
      BY <1>1, <2>2, OwnerFound
    <3>2. AtIn(data, l).cluster \in Entries
      BY <1>1, <3>1, HeadFacts
    <3>3. ~Paid(fats[1], data, todo, l)
      BY DEF Paid
    <3>4. HeadOf(p) = AtIn(data, l).cluster
      BY <2>2 DEF HeadOf
    <3> HIDE DEF l
    <3> QED BY <1>1, <3>1, <3>2, <3>3, <3>4 DEF Debts
  <2> QED BY <2>1, <2>2
<1>3. c \in Entries
  BY <1>1, <1>2, ReachWithin
<1>4. CASE c = HeadOf(p)
  BY <1>2, <1>4
<1>5. CASE c # HeadOf(p)
  <2>1. PICK e \in Reach(fats[1], HeadOf(p)) : fats[1][e] = c
    BY <1>1, <1>2, <1>5, ReachPred
  <2>2. e \in Entries
    BY <1>1, <1>2, <2>1, ReachWithin
  <2> QED BY <1>1, <1>3, <2>1, <2>2 DEF FatSound
<1> QED BY <1>3, <1>4, <1>5

\* So NoneLost follows.
LEMMA TreeLosesNone ==
  ASSUME Good(fats[1], data, todo, ret), OwnTree(fats[1], data, todo, ret)
  PROVE  NoneLost
<1> SUFFICES ASSUME todo = <<>>
             PROVE  {c \in Entries : fats[1][c] # 0} = UNION {ClustersOf(p) : p \in Owners}
  BY DEF NoneLost, Idle
<1>1. \A p : ClustersOf(p) = Reach(fats[1], HeadOf(p))
  BY AtIs DEF ClustersOf, HeadOf, Reach, Chain
<1>2. \A p \in Owners : \A c \in ClustersOf(p) : c \in Entries /\ fats[1][c] # 0
  BY <1>1, OwnedInUse
<1>3. ASSUME NEW c \in Entries, fats[1][c] # 0 PROVE \E p \in Owners : c \in ClustersOf(p)
  <2>1. Belongs(fats[1], data, todo, c)
    BY <1>3 DEF OwnTree, AllBelong, Wanted
  <2>2. Owned(fats[1], data, c)
    BY <2>1 DEF Belongs
  <2>3. CASE c \in Reach(fats[1], Root)
    BY <1>1, <2>3 DEF HeadOf, Owners
  <2>4. CASE \E l \in UsedIn(data) : c \in Reach(fats[1], AtIn(data, l).cluster)
    <3>1. PICK l \in UsedIn(data) : c \in Reach(fats[1], AtIn(data, l).cluster)
      BY <2>4
    <3>2. PICK p \in Owners : p # <<>> /\ Find(p) = l
      BY GoodFacts, FoundAgain DEF OwnTree
    <3>3. HeadOf(p) = AtIn(data, l).cluster
      BY <3>2 DEF HeadOf
    <3> QED BY <1>1, <3>1, <3>2, <3>3
  <2> QED BY <2>2, <2>3, <2>4 DEF Owned
<1> QED BY <1>2, <1>3
-----------------------------------------------------------------------------
(* Other paths.  The calls still to be made touch nothing but what lies     *)
(* under the path of the command or below it (Within): each write leaves    *)
(* the node of every other path alone, which is OthersIntact.               *)

\* The path q is p or goes on from it.
Under(p, q) == Len(p) <= Len(q) /\ \A i \in 1..Len(p) : q[i] = p[i]

\* The entry at l is found under the path q.
Lies(fat, dat, q, l) == l \in UsedIn(dat) /\ AtIn(dat, l).name = Last(q) /\ On(fat, dat, q, l.cluster)

\* What is found at l lies under the path p; so does each file that c belongs
\* to, and what has the name n in the directory that c belongs to.
Near(fat, dat, p, l) == \A q \in Paths : Lies(fat, dat, q, l) => Under(p, q)
NearFile(fat, dat, p, c) ==
  \A l \in UsedIn(dat) : ~AtIn(dat, l).dir /\ c \in Reach(fat, AtIn(dat, l).cluster) => Near(fat, dat, p, l)
NearName(fat, dat, p, n, c) == \A q \in Paths : Last(q) = n /\ On(fat, dat, q, c) => Under(p, q)

\* What the call t writes, links or will write is near.
NearWrite(fat, dat, p, t) ==
  t.args[1] \in Entries =>
    /\ NearFile(fat, dat, p, t.args[1])
    /\ \A l \in UsedIn(dat) : Removes(t, l) => Near(fat, dat, p, l)
    /\ \A s \in 1..Slots : NewUse(dat, t, s) => NearName(fat, dat, p, RowFrom(t.args[2])[s].name, t.args[1])
NearFat(fat, dat, p, t) ==
  t.args[1] = 1 => \A y \in Entries : t.args[2][y] \in Entries /\ t.args[2][y] # fat[y] => NearFile(fat, dat, p, y)

NearCall(fat, dat, p, t) ==
  LET f == t.f  a == t.args IN
  /\ f \in {"delete_file", "delete_inside"} => Under(p, a[1])
  /\ f \in {"create_file", "find_new", "entry_in_new", "write_to_file"} => a[1] = p
  /\ f = "new_entry" => a[2] = p
  /\ f = "write_data" => NearWrite(fat, dat, p, t)
  /\ f = "write_fat" => NearFat(fat, dat, p, t)
  /\ f = "modify_fat" /\ a[2] \in Entries => NearFile(fat, dat, p, a[1])
  /\ f \in {"extend_file", "return", "fill"} => NearFile(fat, dat, p, a[1])
  /\ f = "grow" => NearFile(fat, dat, p, a[3])

\* A file grows on from the cluster it was given last.
GrowsOn(fat, dat, td, rt, p) ==
  \A i \in 1..Len(td) : td[i].f = "grow" =>
    /\ i = 1 => NearFile(fat, dat, p, rt)
    /\ i > 1 => td[i-1].f \in {"extend_file", "return"}

Within(fat, dat, td, rt, p) == /\ \A i \in 1..Len(td) : NearCall(fat, dat, p, td[i])
                               /\ GrowsOn(fat, dat, td, rt, p)

\* What a reader sees under the path q.
TextIn(dat, ch) ==
  LET zeros == {n \in DOMAIN ch : dat[ch[n]] = Zero}
      size == IF zeros = {} THEN Len(ch) ELSE Min(zeros) - 1
  IN  [n \in 1..size |-> dat[ch[n]]]
NodeAt(fat, dat, e) == IF e.dir THEN Dir ELSE File(TextIn(dat, ChainIn(fat, e.cluster)))
NodeIn(fat, dat, q) ==
  IF \E l \in UsedIn(dat) : Lies(fat, dat, q, l)
    THEN NodeAt(fat, dat, AtIn(dat, CHOOSE l \in UsedIn(dat) : Lies(fat, dat, q, l)))
    ELSE NoNode

\* Each path but those is as it was before the command; between commands, all.
AsBefore(fat, dat, p, tr) == \A q \in Paths : ~Under(p, q) => NodeIn(fat, dat, q) = tr[q]
LookLast(td) == \A i \in 1..Len(td) : td[i].f = "look" <=> i = Len(td)
Others(fat, dat, td, rt, p, tr) ==
  /\ AsBefore(fat, dat, p, tr) /\ LookLast(td)
  /\ td = <<>> => \A q \in Paths : NodeIn(fat, dat, q) = tr[q]
  /\ Within(fat, dat, td, rt, p)
-----------------------------------------------------------------------------
\* A path goes on from itself, from what it is appended to, and from a part of it.
LEMMA UnderSelf ==
  ASSUME NEW p, Len(p) \in Nat
  PROVE  Under(p, p)
BY DEF Under

\* So does the path with a name appended,
LEMMA UnderAppend ==
  ASSUME NEW S, NEW q \in Seq(S), NEW x \in S, NEW p, Len(p) \in Nat, Under(p, q)
  PROVE  Under(p, Append(q, x))
<1>1. /\ Len(Append(q, x)) = Len(q) + 1 /\ Len(q) \in Nat
      /\ \A i \in 1..Len(q) : Append(q, x)[i] = q[i]
  BY AppendIs
<1>2. \A i \in 1..Len(p) : i \in 1..Len(q)
  BY <1>1 DEF Under
<1> QED BY <1>1, <1>2 DEF Under

\* and a path with such a beginning.
LEMMA UnderCut ==
  ASSUME NEW q, Len(q) \in Nat, NEW w, Len(w) \in Nat, Len(w) <= Len(q), \A i \in 1..Len(w) : w[i] = q[i],
         NEW p, Len(p) \in Nat, Under(p, w)
  PROVE  Under(p, q)
<1>1. \A i \in 1..Len(p) : i \in 1..Len(w)
  BY DEF Under
<1> QED BY <1>1 DEF Under

\* IsPrefix says the same.
LEMMA UnderPrefix ==
  ASSUME NEW S, NEW p \in Seq(S), NEW q \in Seq(S), Under(p, q)
  PROVE  IsPrefix(p, q)
<1> DEFINE s == SubSeq(q, 1, Len(p))
<1>1. Len(p) \in Nat /\ Len(q) \in Nat /\ Len(p) <= Len(q)
  BY DEF Under
<1>2. s \in Seq(S) /\ Len(s) = Len(p) /\ \A i \in 1..Len(p) : s[i] = q[i]
  BY <1>1
<1>3. SubSeq(p, 1, Len(p)) \in Seq(S) /\ Len(SubSeq(p, 1, Len(p))) = Len(p)
      /\ \A i \in 1..Len(p) : SubSeq(p, 1, Len(p))[i] = p[i]
  BY <1>1
<1>4. \A i \in 1..Len(p) : s[i] = p[i]
  BY <1>2 DEF Under
<1> HIDE DEF s
<1>5. s = SubSeq(p, 1, Len(p))
  BY <1>2, <1>3, <1>4, SeqEqual
<1>6. SubSeq(p, 1, Len(p)) = p
  BY <1>1, <1>3, SeqEqual
<1> QED BY <1>1, <1>5, <1>6 DEF IsPrefix, s

\* A path leads through the same directories only.
LEMMA WaySame ==
  ASSUME NEW fat, NEW dat, DiskSound(fat, dat), NEW w, Len(w) \in Nat, NEW g, IsWay(fat, dat, g, w),
         NEW f, IsWay(fat, dat, f, w), NEW k \in 0..Len(w)
  PROVE  g[k] = f[k]
<1> DEFINE S == {n \in Nat : n <= Len(w) => g[n] = f[n]}
<1>1. NamesSound(fat, dat)
  BY SoundFacts
<1>2. 0 \in S
  BY DEF IsWay
<1>3. ASSUME NEW n \in S PROVE n + 1 \in S
  <2>1. SUFFICES ASSUME n + 1 <= Len(w) PROVE g[n+1] = f[n+1]
    OBVIOUS
  <2>2. n \in Nat /\ n + 1 \in 1..Len(w) /\ (n + 1) - 1 = n /\ n \in 0..Len(w) /\ g[n] = f[n]
    BY <2>1
  <2>3. Leads(fat, dat, g[n], w[n+1], g[n+1]) /\ Leads(fat, dat, f[n], w[n+1], f[n+1]) /\ g[n] \in Entries
    BY <2>2 DEF IsWay
  <2> QED BY <1>1, <2>2, <2>3, LeadsToOne
<1>4. S = Nat
  <2> HIDE DEF S
  <2>1. S \in SUBSET Nat
    BY DEF S
  <2> QED BY <1>2, <1>3, <2>1, AllNats
<1> QED BY <1>4

\* Nor does the same place lie under two paths.
LEMMA OnePath ==
  ASSUME NEW fat, NEW dat, DiskSound(fat, dat), NEW p \in Seq(NamesOf), p # <<>>, NEW q \in Seq(NamesOf), q # <<>>,
         Last(p) = Last(q), NEW x,
         \E g : IsWay(fat, dat, g, Front(p)) /\ x \in Reach(fat, g[Len(p)-1]),
         \E g : IsWay(fat, dat, g, Front(q)) /\ x \in Reach(fat, g[Len(q)-1])
  PROVE  p = q
<1>1. PICK g : IsWay(fat, dat, g, Front(p)) /\ x \in Reach(fat, g[Len(p)-1])
  OBVIOUS
<1>2. PICK f : IsWay(fat, dat, f, Front(q)) /\ x \in Reach(fat, f[Len(q)-1])
  OBVIOUS
<1>3. /\ Len(p) \in Nat \ {0} /\ Last(p) = p[Len(p)] /\ Len(Front(p)) = Len(p) - 1
      /\ \A i \in 1..Len(p)-1 : Front(p)[i] = p[i]
  BY FrontIs
<1>4. /\ Len(q) \in Nat \ {0} /\ Last(q) = q[Len(q)] /\ Len(Front(q)) = Len(q) - 1
      /\ \A i \in 1..Len(q)-1 : Front(q)[i] = q[i]
  BY FrontIs
<1>5. PICK a \in Nat : a = Len(p) - 1
  BY <1>3
<1>6. PICK b \in Nat : b = Len(q) - 1
  BY <1>4
<1>7. a \in 0..Len(Front(p)) /\ b \in 0..Len(Front(q)) /\ Len(Front(p)) \in Nat /\ Len(Front(q)) \in Nat
  BY <1>3, <1>4, <1>5, <1>6
<1>8. /\ g[a] \in Entries /\ \A c \in Entries : fat[c] # g[a]
      /\ f[b] \in Entries /\ \A c \in Entries : fat[c] # f[b]
  BY <1>1, <1>2, <1>7, WayHeads
<1>9. g[a] = f[b]
  BY <1>1, <1>2, <1>5, <1>6, <1>8, SoundFacts, HeadsMeet
<1>10. a = b /\ \A i \in 1..a : Front(p)[i] = Front(q)[i]
  BY <1>1, <1>2, <1>7, <1>9, WaysMeet
<1>11. Len(p) = a + 1 /\ Len(q) = a + 1 /\ p[a+1] = q[a+1]
  <2>1. Len(p) = a + 1 /\ Len(q) = a + 1
    BY <1>3, <1>4, <1>5, <1>6, <1>10
  <2> QED BY <1>3, <1>4, <2>1
<1>12. \A i \in 1..a+1 : i \in 1..a \/ i = a + 1
  OBVIOUS
<1>13. \A i \in 1..Len(p) : p[i] = q[i]
  BY <1>3, <1>4, <1>5, <1>6, <1>10, <1>11, <1>12
<1> QED BY <1>11, <1>13, SeqEqual

\* So what is found under a path is one entry,
LEMMA LiesOne ==
  ASSUME NEW fat, NEW dat, DiskSound(fat, dat), NEW q \in Paths, NEW l, Lies(fat, dat, q, l), NEW m, Lies(fat, dat, q, m)
  PROVE  l = m
<1>1. Chained(fat) /\ NamesSound(fat, dat) /\ q \in RootPaths
  BY SoundFacts DEF RootPaths
<1>2. PICK g : IsWay(fat, dat, g, Front(q)) /\ g[Len(q)-1] \in Entries /\ l.cluster \in Reach(fat, g[Len(q)-1])
  BY <1>1, WayOn DEF Lies
<1>3. PICK f : IsWay(fat, dat, f, Front(q)) /\ f[Len(q)-1] \in Entries /\ m.cluster \in Reach(fat, f[Len(q)-1])
  BY <1>1, WayOn DEF Lies
<1>4. Len(q) - 1 \in 0..Len(Front(q)) /\ Len(Front(q)) \in Nat
  BY <1>1, RootPathIs
<1>5. g[Len(q)-1] = f[Len(q)-1]
  BY <1>2, <1>3, <1>4, WaySame
<1> QED BY <1>1, <1>2, <1>3, <1>5 DEF NamesSound, Lies

\* and an entry is found under one path.
LEMMA LiesOnce ==
  ASSUME NEW fat, NEW dat, DiskSound(fat, dat), NEW q \in Paths, NEW p \in Seq(NamesOf), p # <<>>, Last(p) = Last(q),
         NEW x, On(fat, dat, q, x), \E g : IsWay(fat, dat, g, Front(p)) /\ x \in Reach(fat, g[Len(p)-1])
  PROVE  p = q
<1>1. Chained(fat) /\ q \in RootPaths /\ q \in Seq(NamesOf) /\ q # <<>>
  BY SoundFacts, PathIsSeq DEF RootPaths
<1>2. \E g : IsWay(fat, dat, g, Front(q)) /\ x \in Reach(fat, g[Len(q)-1])
  BY <1>1, WayOn
<1> QED BY <1>1, <1>2, OnePath
-----------------------------------------------------------------------------
\* What is not near p is still there, with all that it leads to and its text.
Spares(fat, dat, fat2, dat2, p) ==
  /\ Reach(fat, Root) \subseteq Reach(fat2, Root)
  /\ \A l \in UsedIn(dat) : \/ Near(fat, dat, p, l)
                            \/ /\ l \in UsedIn(dat2) /\ AtIn(dat2, l) = AtIn(dat, l)
                               /\ Reach(fat, AtIn(dat, l).cluster) \subseteq Reach(fat2, AtIn(dat, l).cluster)
  /\ \A l \in UsedIn(dat) : \/ Near(fat, dat, p, l) \/ AtIn(dat, l).dir
                            \/ /\ ChainIn(fat2, AtIn(dat, l).cluster) = ChainIn(fat, AtIn(dat, l).cluster)
                               /\ \A x \in Reach(fat, AtIn(dat, l).cluster) : dat2[x] = dat[x]

\* What is new is near p, as an entry, a way or a part of a file.
Brings(fat, dat, fat2, dat2, p) ==
  /\ \A l \in UsedIn(dat2) : (l \in UsedIn(dat) /\ AtIn(dat2, l) = AtIn(dat, l)) \/ Near(fat2, dat2, p, l)
  /\ \A l \in UsedIn(dat2) : \A q \in Paths :
        On(fat2, dat2, q, l.cluster) => On(fat, dat, q, l.cluster) \/ Under(p, q)
  /\ \A l \in UsedIn(dat2) : l \in UsedIn(dat) /\ AtIn(dat2, l) = AtIn(dat, l) /\ ~AtIn(dat, l).dir =>
        \A x \in Reach(fat2, AtIn(dat, l).cluster) : x \in Reach(fat, AtIn(dat, l).cluster) \/ Near(fat, dat, p, l)

\* What was near p is so still.
LEMMA NearStays ==
  ASSUME NEW fat, NEW dat, NEW fat2, NEW dat2, NEW p, Brings(fat, dat, fat2, dat2, p),
         NEW l \in UsedIn(dat2), l \in UsedIn(dat) => Near(fat, dat, p, l)
  PROVE  Near(fat2, dat2, p, l)
<1>1. CASE l \in UsedIn(dat) /\ AtIn(dat2, l) = AtIn(dat, l)
  <2>1. ASSUME NEW q \in Paths, Lies(fat2, dat2, q, l) PROVE Under(p, q)
    <3>1. On(fat, dat, q, l.cluster) \/ Under(p, q)
      BY <2>1 DEF Brings, Lies
    <3>2. On(fat, dat, q, l.cluster) => Lies(fat, dat, q, l)
      BY <1>1, <2>1 DEF Lies
    <3> QED BY <1>1, <3>1, <3>2 DEF Near
  <2> QED BY <2>1 DEF Near
<1> QED BY <1>1 DEF Brings

\* So the files a cluster belongs to are still found under the path.
LEMMA NearFileStays ==
  ASSUME NEW fat, NEW dat, NEW fat2, NEW dat2, NEW p, Brings(fat, dat, fat2, dat2, p),
         NEW c, NearFile(fat, dat, p, c)
  PROVE  NearFile(fat2, dat2, p, c)
<1>1. ASSUME NEW l \in UsedIn(dat2), ~AtIn(dat2, l).dir, c \in Reach(fat2, AtIn(dat2, l).cluster)
      PROVE  Near(fat2, dat2, p, l)
  <2>1. CASE l \in UsedIn(dat) /\ AtIn(dat2, l) = AtIn(dat, l)
    <3>1. c \in Reach(fat, AtIn(dat, l).cluster) \/ Near(fat, dat, p, l)
      BY <1>1, <2>1 DEF Brings
    <3>2. Near(fat, dat, p, l)
      BY <1>1, <2>1, <3>1 DEF NearFile
    <3> QED BY <3>2, NearStays
  <2> QED BY <2>1 DEF Brings
<1> QED BY <1>1 DEF NearFile

\* A directory on the way to a path lies under a part of it.
LEMMA WayPart ==
  ASSUME NEW fat, NEW dat, NEW q \in Paths, NEW g, IsWay(fat, dat, g, Front(q)), NEW k \in 1..Len(q)-1,
         NEW m \in UsedIn(dat), m.cluster \in Reach(fat, g[k-1]), AtIn(dat, m).name = Front(q)[k]
  PROVE  \E u \in Paths : Lies(fat, dat, u, m) /\ \A p : Len(p) \in Nat /\ Under(p, u) => Under(p, q)
<1>1. PICK n \in 1..Depth : q \in [1..n -> Names]
  BY DEF Paths
<1>2. n \in Nat /\ Len(q) = n /\ k <= n /\ k \in Nat /\ k \in 1..Depth
  BY <1>1, FatAssumption
<1> DEFINE u == [i \in 1..k |-> q[i]]
           f == [i \in 0..k-1 |-> g[i]]
<1>3. u \in [1..k -> Names]
  BY <1>1, <1>2
<1>4. u \in Paths
  BY <1>2, <1>3 DEF Paths
<1>5. /\ u \in Seq(Names) /\ Len(u) = k /\ \A i \in 1..Len(u) : u[i] = q[i]
  BY <1>2, <1>3
<1> HIDE DEF u
<1>6. /\ Len(Front(u)) = k - 1 /\ Last(u) = u[k] /\ \A i \in 1..k-1 : Front(u)[i] = u[i]
  BY <1>4, <1>5, PathIsSeq, FrontIs
<1>7. /\ Len(Front(q)) = n - 1 /\ \A i \in 1..n-1 : Front(q)[i] = q[i]
  BY <1>2, PathIsSeq, FrontIs
<1>8. Last(u) = AtIn(dat, m).name
  BY <1>2, <1>5, <1>6, <1>7
<1>9. IsWay(fat, dat, f, Front(u))
  <2>1. g \in [0..n-1 -> Entries] /\ g[0] = Root /\ \A i \in 1..n-1 : Leads(fat, dat, g[i-1], Front(q)[i], g[i])
    BY <1>2, <1>7 DEF IsWay
  <2>2. f \in [0..k-1 -> Entries] /\ f[0] = Root
    BY <1>2, <2>1
  <2>3. ASSUME NEW i \in 1..k-1 PROVE Leads(fat, dat, f[i-1], Front(u)[i], f[i])
    <3>1. f[i-1] = g[i-1] /\ f[i] = g[i] /\ i \in 1..n-1
      BY <1>2
    <3>2. Front(u)[i] = Front(q)[i]
      BY <1>2, <1>5, <1>6, <1>7
    <3> HIDE DEF f
    <3> QED BY <2>1, <3>1, <3>2
  <2> HIDE DEF f
  <2> QED BY <1>6, <2>2, <2>3 DEF IsWay
<1>10. m.cluster \in Reach(fat, f[Len(u)-1])
  BY <1>2, <1>5
<1> HIDE DEF f
<1>11. On(fat, dat, u, m.cluster)
  BY <1>4, <1>9, <1>10, OnWay DEF RootPaths
<1>12. \A p : Len(p) \in Nat /\ Under(p, u) => Under(p, q)
  BY <1>2, <1>5, UnderCut
<1> QED BY <1>4, <1>8, <1>11, <1>12 DEF Lies

\* What is found under another path is found there still.
LEMMA LiesStays ==
  ASSUME NEW fat, Chained(fat), NEW dat, NEW fat2, NEW dat2, NEW p, Len(p) \in Nat, Spares(fat, dat, fat2, dat2, p),
         NEW q \in Paths, ~Under(p, q), NEW l, Lies(fat, dat, q, l)
  PROVE  Lies(fat2, dat2, q, l) /\ AtIn(dat2, l) = AtIn(dat, l) /\ ~Near(fat, dat, p, l)
<1> DEFINE w == Front(q)
<1>1. q \in RootPaths /\ Len(w) \in Nat /\ Len(w) = Len(q) - 1
  BY RootPathIs DEF RootPaths
<1>2. PICK g : IsWay(fat, dat, g, w) /\ g[Len(q)-1] \in Entries /\ l.cluster \in Reach(fat, g[Len(q)-1])
  BY <1>1, WayOn DEF Lies
<1> HIDE DEF w
<1>3. g \in [0..Len(w) -> Entries] /\ g[0] = Root
  BY <1>2 DEF IsWay
<1>4. ASSUME NEW k \in 1..Len(w)
      PROVE  /\ Reach(fat, g[k]) \subseteq Reach(fat2, g[k])
             /\ \E m \in UsedIn(dat2) : /\ m.cluster \in Reach(fat, g[k-1]) /\ AtIn(dat2, m).name = w[k]
                                        /\ AtIn(dat2, m).dir /\ AtIn(dat2, m).cluster = g[k]
  <2>1. PICK m \in UsedIn(dat) : m.cluster \in Reach(fat, g[k-1]) /\ AtIn(dat, m).name = w[k]
                                 /\ AtIn(dat, m).dir /\ AtIn(dat, m).cluster = g[k]
    BY <1>2 DEF IsWay, Leads
  <2>2. ~Near(fat, dat, p, m)
    <3>1. k \in 1..Len(q)-1
      BY <1>1
    <3>2. PICK u \in Paths : Lies(fat, dat, u, m) /\ (Under(p, u) => Under(p, q))
      BY <1>2, <2>1, <3>1, WayPart DEF w
    <3> QED BY <3>2 DEF Near
  <2> QED BY <2>1, <2>2 DEF Spares
<1>5. ASSUME NEW k \in 0..Len(w) PROVE Reach(fat, g[k]) \subseteq Reach(fat2, g[k])
  <2>1. CASE k = 0
    BY <1>3, <2>1 DEF Spares
  <2>2. CASE k # 0
    BY <1>1, <1>4, <2>2
  <2> QED BY <2>1, <2>2
<1>6. ASSUME NEW k \in 1..Len(w) PROVE Leads(fat2, dat2, g[k-1], w[k], g[k])
  <2>1. k - 1 \in 0..Len(w)
    BY <1>1
  <2>2. Reach(fat, g[k-1]) \subseteq Reach(fat2, g[k-1])
    BY <1>5, <2>1
  <2> QED BY <1>4, <2>2 DEF Leads
<1>7. IsWay(fat2, dat2, g, w)
  BY <1>3, <1>6 DEF IsWay
<1>8. l.cluster \in Reach(fat2, g[Len(q)-1])
  <2>1. Len(q) - 1 \in 0..Len(w)
    BY <1>1
  <2> QED BY <1>2, <1>5, <2>1
<1>9. On(fat2, dat2, q, l.cluster)
  BY <1>1, <1>7, <1>8, OnWay DEF w
<1>10. ~Near(fat, dat, p, l)
  BY DEF Near
<1> QED BY <1>9, <1>10 DEF Spares, Lies

\* A text of which no cluster has changed is the same.
LEMMA TextSame ==
  ASSUME NEW ch, Len(ch) \in Nat, DOMAIN ch = 1..Len(ch), NEW dat, NEW dat2,
         \A n \in 1..Len(ch) : dat2[ch[n]] = dat[ch[n]]
  PROVE  TextIn(dat2, ch) = TextIn(dat, ch)
<1> DEFINE Zeros(d) == {n \in DOMAIN ch : d[ch[n]] = Zero}
           Size(d) == IF Zeros(d) = {} THEN Len(ch) ELSE Min(Zeros(d)) - 1
<1>1. Zeros(dat2) = Zeros(dat)
  OBVIOUS
<1>2. Zeros(dat) # {} => Min(Zeros(dat)) \in Zeros(dat)
  <2>1. Zeros(dat) \in SUBSET Nat
    OBVIOUS
  <2> HIDE DEF Zeros
  <2> QED BY <2>1, LeastOf
<1>3. Zeros(dat) # {} => Min(Zeros(dat)) \in 1..Len(ch)
  BY <1>2
<1> HIDE DEF Zeros
<1>4. Size(dat2) = Size(dat) /\ \A n \in 1..Size(dat) : n \in 1..Len(ch)
  BY <1>1, <1>3
<1>5. TextIn(dat, ch) = [n \in 1..Size(dat) |-> dat[ch[n]]]
      /\ TextIn(dat2, ch) = [n \in 1..Size(dat2) |-> dat2[ch[n]]]
  BY DEF TextIn, Zeros
<1> HIDE DEF Size
<1> QED BY <1>4, <1>5

\* The node under a path is that of the entry found there.
LEMMA NodeIs ==
  ASSUME NEW fat, NEW dat, DiskSound(fat, dat), NEW q \in Paths, NEW l, Lies(fat, dat, q, l)
  PROVE  NodeIn(fat, dat, q) = NodeAt(fat, dat, AtIn(dat, l))
<1> DEFINE m == CHOOSE m \in UsedIn(dat) : Lies(fat, dat, q, m)
<1>1. l \in UsedIn(dat)
  BY DEF Lies
<1>2. m \in UsedIn(dat) /\ Lies(fat, dat, q, m)
  BY <1>1
<1>3. NodeIn(fat, dat, q) = NodeAt(fat, dat, AtIn(dat, m))
  BY <1>1 DEF NodeIn
<1> HIDE DEF m
<1>4. m = l
  BY <1>2, LiesOne
<1> QED BY <1>3, <1>4

\* So the node under another path stays the same.
LEMMA NodeStays ==
  ASSUME NEW fat, NEW dat, DiskSound(fat, dat), NEW fat2, NEW dat2, DiskSound(fat2, dat2), NEW p, Len(p) \in Nat,
         Spares(fat, dat, fat2, dat2, p), Brings(fat, dat, fat2, dat2, p), NEW q \in Paths, ~Under(p, q)
  PROVE  NodeIn(fat2, dat2, q) = NodeIn(fat, dat, q)
<1>1. Chained(fat)
  BY SoundFacts
<1>2. CASE \E l \in UsedIn(dat) : Lies(fat, dat, q, l)
  <2>1. PICK l \in UsedIn(dat) : Lies(fat, dat, q, l)
    BY <1>2
  <2>2. Lies(fat2, dat2, q, l) /\ AtIn(dat2, l) = AtIn(dat, l) /\ ~Near(fat, dat, p, l)
    BY <1>1, <2>1, LiesStays
  <2>3. /\ NodeIn(fat, dat, q) = NodeAt(fat, dat, AtIn(dat, l))
        /\ NodeIn(fat2, dat2, q) = NodeAt(fat2, dat2, AtIn(dat, l))
    BY <2>1, <2>2, NodeIs
  <2> DEFINE h == AtIn(dat, l).cluster
             ch == ChainIn(fat, h)
  <2>4. CASE AtIn(dat, l).dir
    BY <2>3, <2>4 DEF NodeAt
  <2>5. CASE ~AtIn(dat, l).dir
    <3>1. ChainIn(fat2, h) = ch /\ \A x \in Reach(fat, h) : dat2[x] = dat[x]
      BY <2>1, <2>2, <2>5 DEF Spares
    <3>2. h \in Entries
      BY <2>1, SoundFacts, HeadFacts
    <3>3. Shape(fat, h, ch)
      BY <1>1, <3>2, ChainShape DEF Chained
    <3>4. \A n \in 1..Len(ch) : ch[n] \in Reach(fat, h)
      BY <1>1, <3>2, ReachElems
    <3> HIDE DEF ch, h
    <3>5. Len(ch) \in Nat /\ DOMAIN ch = 1..Len(ch)
      BY <3>3 DEF Shape
    <3>6. \A n \in 1..Len(ch) : dat2[ch[n]] = dat[ch[n]]
      BY <3>1, <3>4
    <3>7. TextIn(dat2, ch) = TextIn(dat, ch)
      BY <3>5, <3>6, TextSame
    <3> QED BY <2>3, <2>5, <3>1, <3>7 DEF NodeAt, ch, h
  <2> QED BY <2>4, <2>5
<1>3. CASE \A l \in UsedIn(dat) : ~Lies(fat, dat, q, l)
  <2>1. ASSUME NEW l \in UsedIn(dat2), Lies(fat2, dat2, q, l) PROVE FALSE
    <3>1. ~Near(fat2, dat2, p, l)
      BY <2>1 DEF Near
    <3>2. l \in UsedIn(dat) /\ AtIn(dat2, l) = AtIn(dat, l)
      BY <3>1 DEF Brings
    <3>3. On(fat, dat, q, l.cluster)
      BY <2>1 DEF Brings, Lies
    <3> QED BY <1>3, <2>1, <3>2, <3>3 DEF Lies
  <2> QED BY <1>3, <2>1 DEF NodeIn
<1> QED BY <1>2, <1>3
-----------------------------------------------------------------------------
\* A chain of which the FAT has no other links is the same.
LEMMA ChainSame ==
  ASSUME NEW fat, Chained(fat), NEW fat2, Chained(fat2), NEW c \in Entries,
         \A d \in Reach(fat, c) : fat2[d] = fat[d] \/ (fat[d] \notin Entries /\ fat2[d] \notin Entries)
  PROVE  ChainIn(fat2, c) = ChainIn(fat, c)
<1> DEFINE s == ChainIn(fat, c)
           t == ChainIn(fat2, c)
<1>1. Shape(fat, c, s) /\ Shape(fat2, c, t)
  BY ChainShape DEF Chained
<1>2. \A i \in 1..Len(s) : s[i] \in Reach(fat, c)
  BY ReachElems
<1> HIDE DEF s, t
<1>3. /\ s \in Seq(Entries) /\ Len(s) \in Nat \ {0} /\ t \in Seq(Entries) /\ Len(t) \in Nat \ {0}
      /\ s[1] = t[1]
      /\ \A i \in 1..Len(s)-1 : fat[s[i]] = s[i+1]
      /\ \A i \in 1..Len(t)-1 : fat2[t[i]] = t[i+1]
      /\ fat[s[Len(s)]] \notin Entries /\ fat2[t[Len(t)]] \notin Entries
  BY <1>1 DEF Shape
<1> DEFINE S == {n \in Nat : n + 1 <= Len(s) => n + 1 <= Len(t) /\ t[n+1] = s[n+1]}
<1>4. 0 \in S
  BY <1>3
<1>5. ASSUME NEW n \in S PROVE n + 1 \in S
  <2>1. n \in Nat
    OBVIOUS
  <2> DEFINE k == n + 1
  <2>2. k \in Nat \ {0} /\ (k <= Len(s) => k <= Len(t) /\ t[k] = s[k])
    BY <2>1
  <2> HIDE DEF k
  <2>3. SUFFICES ASSUME k + 1 <= Len(s) PROVE k + 1 <= Len(t) /\ t[k+1] = s[k+1]
    BY <2>1 DEF k
  <2>4. /\ k \in 1..Len(s)-1 /\ k \in 1..Len(s) /\ k + 1 \in 1..Len(s)
        /\ k <= Len(t) /\ t[k] = s[k]
    BY <1>3, <2>2, <2>3
  <2>5. fat[s[k]] = s[k+1] /\ s[k+1] \in Entries /\ s[k] \in Reach(fat, c)
    BY <1>2, <1>3, <2>4
  <2>6. fat2[t[k]] = s[k+1] /\ fat2[t[k]] \in Entries
    BY <2>4, <2>5
  <2>7. k # Len(t)
    BY <1>3, <2>6
  <2>8. k \in 1..Len(t)-1
    BY <1>3, <2>2, <2>4, <2>7
  <2>9. fat2[t[k]] = t[k+1] /\ k + 1 <= Len(t)
    BY <1>3, <2>8
  <2> QED BY <2>6, <2>9
<1>6. S = Nat
  <2>1. S \in SUBSET Nat
    OBVIOUS
  <2> HIDE DEF S
  <2> QED BY <1>4, <1>5, <2>1, AllNats
<1>7. ASSUME NEW i \in 1..Len(s) PROVE i <= Len(t) /\ t[i] = s[i]
  <2>1. PICK n \in Nat : n = i - 1
    BY <1>3
  <2>2. n \in S
    <3> HIDE DEF S
    <3> QED BY <1>6
  <2>3. n + 1 <= Len(s) => n + 1 <= Len(t) /\ t[n+1] = s[n+1]
    BY <2>2
  <2> QED BY <1>3, <2>1, <2>3
<1>8. Len(s) <= Len(t) /\ t[Len(s)] = s[Len(s)] /\ s[Len(s)] \in Reach(fat, c)
  BY <1>2, <1>3, <1>7
<1>9. Len(t) = Len(s)
  <2>1. SUFFICES ASSUME Len(s) < Len(t) PROVE FALSE
    BY <1>3, <1>8
  <2>2. Len(s) \in 1..Len(t)-1 /\ Len(s) + 1 \in 1..Len(t)
    BY <1>3, <2>1
  <2>3. fat2[t[Len(s)]] = t[Len(s) + 1] /\ t[Len(s) + 1] \in Entries
    BY <1>3, <2>2
  <2> QED BY <1>3, <1>8, <2>3
<1>10. t = s
  BY <1>3, <1>7, <1>9, SeqEqual
<1> QED BY <1>10 DEF s, t

\* A way to a used entry is not new unless it leads through a directory that
\* holds something.
LEMMA OnBack ==
  ASSUME NEW fat, NEW dat, NEW fat2, Chained(fat2), NEW dat2,
         \A v \in Entries : \A m \in UsedIn(dat2) : m.cluster \in Reach(fat2, v) => m.cluster \in Reach(fat, v),
         \A m \in UsedIn(dat2) : AtIn(dat2, m).dir =>
            \/ m \in UsedIn(dat) /\ AtIn(dat2, m) = AtIn(dat, m)
            \/ \A k \in UsedIn(dat2) : k.cluster \notin Reach(fat2, AtIn(dat2, m).cluster),
         NEW q \in RootPaths, NEW l \in UsedIn(dat2), On(fat2, dat2, q, l.cluster)
  PROVE  On(fat, dat, q, l.cluster)
<1> DEFINE w == Front(q)
<1>1. Len(w) \in Nat /\ Len(w) = Len(q) - 1
  BY RootPathIs
<1>2. PICK g : IsWay(fat2, dat2, g, w) /\ g[Len(q)-1] \in Entries /\ l.cluster \in Reach(fat2, g[Len(q)-1])
  BY WayOn
<1> HIDE DEF w
<1>3. g \in [0..Len(w) -> Entries] /\ g[0] = Root
  BY <1>2 DEF IsWay
<1>4. ASSUME NEW k \in 0..Len(w) PROVE \E m \in UsedIn(dat2) : m.cluster \in Reach(fat2, g[k])
  <2>1. CASE k = Len(w)
    BY <1>1, <1>2, <2>1
  <2>2. CASE k # Len(w)
    <3>1. k + 1 \in 1..Len(w) /\ (k + 1) - 1 = k
      BY <1>1, <2>2
    <3>2. Leads(fat2, dat2, g[k], w[k+1], g[k+1])
      BY <1>2, <3>1 DEF IsWay
    <3> QED BY <3>2 DEF Leads
  <2> QED BY <2>1, <2>2
<1>5. ASSUME NEW k \in 1..Len(w) PROVE Leads(fat, dat, g[k-1], w[k], g[k])
  <2>1. Leads(fat2, dat2, g[k-1], w[k], g[k])
    BY <1>2 DEF IsWay
  <2>2. PICK m \in UsedIn(dat2) : /\ m.cluster \in Reach(fat2, g[k-1]) /\ AtIn(dat2, m).name = w[k]
                                  /\ AtIn(dat2, m).dir /\ AtIn(dat2, m).cluster = g[k]
    BY <2>1 DEF Leads
  <2>3. k \in 0..Len(w) /\ k - 1 \in 0..Len(w)
    BY <1>1
  <2>4. m \in UsedIn(dat) /\ AtIn(dat2, m) = AtIn(dat, m)
    BY <1>4, <2>2, <2>3
  <2>5. m.cluster \in Reach(fat, g[k-1])
    BY <1>3, <2>2, <2>3
  <2> QED BY <2>2, <2>4, <2>5 DEF Leads
<1>6. IsWay(fat, dat, g, w)
  BY <1>3, <1>5 DEF IsWay
<1>7. l.cluster \in Reach(fat, g[Len(q)-1])
  BY <1>2
<1> QED BY <1>6, <1>7, OnWay DEF w
-----------------------------------------------------------------------------
\* A disk that has become less brings nothing new.
LEMMA LessBrings ==
  ASSUME NEW fat, NEW fat2, Chained(fat2), Cuts(fat, fat2), NEW dat, HeadsSound(fat, dat), NEW dat2, Fewer(dat, dat2), NEW p
  PROVE  /\ Brings(fat, dat, fat2, dat2, p)
         /\ \A q \in Paths : \A x : On(fat2, dat2, q, x) => On(fat, dat, q, x)
<1>1. \A v \in Entries : Reach(fat2, v) \subseteq Reach(fat, v)
  BY DEF Cuts, Links
<1>2. ASSUME NEW q \in Paths, NEW x, On(fat2, dat2, q, x) PROVE On(fat, dat, q, x)
  <2>1. q \in RootPaths /\ Len(Front(q)) \in Nat
    BY RootPathIs DEF RootPaths
  <2>2. PICK g : IsWay(fat2, dat2, g, Front(q)) /\ g[Len(q)-1] \in Entries /\ x \in Reach(fat2, g[Len(q)-1])
    BY <1>2, <2>1, WayOn
  <2>3. IsWay(fat, dat, g, Front(q))
    BY <2>1, <2>2, WayBack
  <2>4. x \in Reach(fat, g[Len(q)-1])
    BY <1>1, <2>2
  <2> QED BY <2>1, <2>3, <2>4, OnWay
<1>3. \A l \in UsedIn(dat2) : l \in UsedIn(dat) /\ AtIn(dat2, l) = AtIn(dat, l)
  BY DEF Fewer
<1>4. \A l \in UsedIn(dat) : AtIn(dat, l).cluster \in Entries
  BY HeadFacts
<1> QED BY <1>1, <1>2, <1>3, <1>4 DEF Brings

\* The writes to the FAT: an end mark,
LEMMA EndBeside ==
  ASSUME NEW fat, NEW dat, DiskSound(fat, dat), NEW c \in Entries, fat[c] \notin Entries,
         NEW fat2, Puts(fat, fat2, c, EOC), NEW p
  PROVE  Spares(fat, dat, fat2, dat, p)
<1>1. FatSound(fat) /\ Chained(fat) /\ HeadsSound(fat, dat) /\ Root \in Entries /\ EOC \notin Entries
  BY SoundFacts, RootFacts
<1>2. /\ \A v \in Entries : Reach(fat2, v) = Reach(fat, v)
      /\ FatSound(fat2) /\ Chained(fat2) /\ fat2[c] = EOC /\ \A d \in Entries : d # c => fat2[d] = fat[d]
  BY <1>1, EndSame, FatIsChained
<1>3. ASSUME NEW l \in UsedIn(dat)
      PROVE  /\ Reach(fat, AtIn(dat, l).cluster) \subseteq Reach(fat2, AtIn(dat, l).cluster)
             /\ ChainIn(fat2, AtIn(dat, l).cluster) = ChainIn(fat, AtIn(dat, l).cluster)
  <2>1. AtIn(dat, l).cluster \in Entries
    BY <1>1, HeadFacts
  <2>2. \A d \in Reach(fat, AtIn(dat, l).cluster) : d \in Entries
    BY <1>1, <2>1, ReachClosed
  <2>3. ChainIn(fat2, AtIn(dat, l).cluster) = ChainIn(fat, AtIn(dat, l).cluster)
    BY <1>1, <1>2, <2>1, <2>2, ChainSame
  <2> QED BY <1>2, <2>1, <2>3
<1> QED BY <1>1, <1>2, <1>3 DEF Spares

\* a cluster given back,
LEMMA ZeroBeside ==
  ASSUME NEW fat, NEW dat, DiskSound(fat, dat), NEW c \in Entries \ {Root}, \A d \in Entries : fat[d] # c,
         NEW fat2, Puts(fat, fat2, c, 0), NEW p,
         \A l \in UsedIn(dat) : AtIn(dat, l).cluster = c => Near(fat, dat, p, l)
  PROVE  Spares(fat, dat, fat2, dat, p)
<1>1. FatSound(fat) /\ Chained(fat) /\ HeadsSound(fat, dat) /\ Root \in Entries
  BY SoundFacts, RootFacts
<1>2. /\ \A v \in Entries : v # c => Reach(fat2, v) = Reach(fat, v)
      /\ FatSound(fat2) /\ Chained(fat2) /\ fat2[c] = 0 /\ \A d \in Entries : d # c => fat2[d] = fat[d]
  BY <1>1, FreeLess, FatIsChained
<1>3. ASSUME NEW l \in UsedIn(dat), AtIn(dat, l).cluster # c
      PROVE  /\ Reach(fat, AtIn(dat, l).cluster) \subseteq Reach(fat2, AtIn(dat, l).cluster)
             /\ ChainIn(fat2, AtIn(dat, l).cluster) = ChainIn(fat, AtIn(dat, l).cluster)
  <2>1. AtIn(dat, l).cluster \in Entries
    BY <1>1, HeadFacts
  <2>2. \A d \in Reach(fat, AtIn(dat, l).cluster) : d \in Entries
    BY <1>1, <2>1, ReachClosed
  <2>3. c \notin Reach(fat, AtIn(dat, l).cluster)
    BY <1>1, <1>3, <2>1, <2>2, ReachPred
  <2>4. ChainIn(fat2, AtIn(dat, l).cluster) = ChainIn(fat, AtIn(dat, l).cluster)
    BY <1>1, <1>2, <2>1, <2>2, <2>3, ChainSame
  <2> QED BY <1>2, <1>3, <2>1, <2>4
<1> QED BY <1>1, <1>2, <1>3 DEF Spares

\* and a link.
LEMMA LinkBeside ==
  ASSUME NEW fat, NEW dat, DiskSound(fat, dat), NEW c \in Entries, fat[c] \notin Entries,
         NEW w \in Entries, Unclaimed(fat, dat, w), fat[w] \notin Entries, fat[w] # 0, c # w,
         NEW fat2, Puts(fat, fat2, c, w), NEW p, NearFile(fat, dat, p, c)
  PROVE  Spares(fat, dat, fat2, dat, p) /\ Brings(fat, dat, fat2, dat, p)
<1>1. FatSound(fat) /\ Chained(fat) /\ HeadsSound(fat, dat) /\ Root \in Entries /\ w # Root
      /\ (\A d \in Entries : fat[d] # w) /\ \A l \in UsedIn(dat) : l.cluster # w
  BY SoundFacts, RootFacts DEF Unclaimed
<1>2. /\ \A v \in Entries : /\ Reach(fat, v) \subseteq Reach(fat2, v)
                            /\ Reach(fat2, v) \subseteq Reach(fat, v) \cup {w}
                            /\ c \notin Reach(fat, v) => Reach(fat2, v) = Reach(fat, v)
      /\ FatSound(fat2) /\ Chained(fat2) /\ \A d \in Entries : d # c => fat2[d] = fat[d]
  BY <1>1, LinkAdds, FatIsChained
<1>3. \A l \in UsedIn(dat) : AtIn(dat, l).cluster \in Entries
  BY <1>1, HeadFacts
<1>4. ASSUME NEW l \in UsedIn(dat), c \notin Reach(fat, AtIn(dat, l).cluster)
      PROVE  ChainIn(fat2, AtIn(dat, l).cluster) = ChainIn(fat, AtIn(dat, l).cluster)
  <2>1. \A d \in Reach(fat, AtIn(dat, l).cluster) : d \in Entries
    BY <1>1, <1>3, ReachClosed
  <2> QED BY <1>1, <1>2, <1>3, <1>4, <2>1, ChainSame
<1>5. \A l \in UsedIn(dat) : ~AtIn(dat, l).dir /\ c \in Reach(fat, AtIn(dat, l).cluster) => Near(fat, dat, p, l)
  BY DEF NearFile
<1>6. Spares(fat, dat, fat2, dat, p)
  <2>1. Reach(fat, Root) \subseteq Reach(fat2, Root)
    BY <1>1, <1>2
  <2>2. \A l \in UsedIn(dat) : Reach(fat, AtIn(dat, l).cluster) \subseteq Reach(fat2, AtIn(dat, l).cluster)
    BY <1>2, <1>3
  <2>3. \A l \in UsedIn(dat) : \/ Near(fat, dat, p, l) \/ AtIn(dat, l).dir
                               \/ ChainIn(fat2, AtIn(dat, l).cluster) = ChainIn(fat, AtIn(dat, l).cluster)
    BY <1>4, <1>5
  <2> QED BY <2>1, <2>2, <2>3 DEF Spares
<1>7. Brings(fat, dat, fat2, dat, p)
  <2>1. \A v \in Entries : \A m \in UsedIn(dat) : m.cluster \in Reach(fat2, v) => m.cluster \in Reach(fat, v)
    BY <1>1, <1>2
  <2>2. \A l \in UsedIn(dat) : \A q \in Paths : On(fat2, dat, q, l.cluster) => On(fat, dat, q, l.cluster)
    BY <1>2, <2>1, OnBack DEF RootPaths
  <2>3. ASSUME NEW l \in UsedIn(dat), ~AtIn(dat, l).dir, NEW x \in Reach(fat2, AtIn(dat, l).cluster)
        PROVE  x \in Reach(fat, AtIn(dat, l).cluster) \/ Near(fat, dat, p, l)
    BY <1>2, <1>3, <1>5, <2>3
  <2> QED BY <2>2, <2>3 DEF Brings
<1> QED BY <1>6, <1>7

\* A write to a cluster.
LEMMA StoreBeside ==
  ASSUME NEW fat, NEW dat, NEW td, NEW rt, Good(fat, dat, td, rt), 1 \in 1..Len(td), td[1].f = "write_data",
         NEW c \in Entries, td[1].args[1] = c, NEW dat2, Storing(fat, dat, td, c, dat2),
         NEW p, NearWrite(fat, dat, p, td[1])
  PROVE  Spares(fat, dat, fat, dat2, p) /\ Brings(fat, dat, fat, dat2, p)
<1>1. /\ Chained(fat) /\ HeadsSound(fat, dat) /\ Root \in Entries /\ RowsSound(dat) /\ AllSound(fat, dat, td, rt)
      /\ WriteOK(fat, dat, td, 1)
  BY GoodFacts, SoundFacts, RootFacts DEF AllSound, CallSound
<1>2. /\ NearFile(fat, dat, p, c)
      /\ \A l \in UsedIn(dat) : Removes(td[1], l) => Near(fat, dat, p, l)
      /\ \A s \in 1..Slots : NewUse(dat, td[1], s) => NearName(fat, dat, p, RowFrom(td[1].args[2])[s].name, c)
  BY DEF NearWrite
<1>3. /\ \A l \in UsedIn(dat) : Removes(td[1], l) \/ (l \in UsedIn(dat2) /\ AtIn(dat2, l) = AtIn(dat, l))
      /\ \A l \in UsedIn(dat2) :
            \/ l \in UsedIn(dat) /\ AtIn(dat2, l) = AtIn(dat, l)
            \/ l.cluster = c /\ NewUse(dat, td[1], l.slot) /\ AtIn(dat2, l) = RowFrom(td[1].args[2])[l.slot]
      /\ \A d \in Entries : d # c => dat2[d] = dat[d]
  BY DEF Storing, Removed, Entered
<1>4. \A l \in UsedIn(dat) : AtIn(dat, l).cluster \in Entries /\ fat[l.cluster] # 0
  BY <1>1, HeadFacts
<1>5. \A l \in UsedIn(dat) : \A x \in Reach(fat, AtIn(dat, l).cluster) : x \in Entries
  BY <1>1, <1>4, ReachClosed
<1>6. Spares(fat, dat, fat, dat2, p)
  <2>1. ASSUME NEW l \in UsedIn(dat), ~Near(fat, dat, p, l), ~AtIn(dat, l).dir, NEW x \in Reach(fat, AtIn(dat, l).cluster)
        PROVE  dat2[x] = dat[x]
    <3>1. x # c
      BY <1>2, <2>1 DEF NearFile
    <3> QED BY <1>3, <1>5, <3>1
  <2> QED BY <1>2, <1>3, <2>1 DEF Spares
<1>7. ASSUME NEW m \in UsedIn(dat2), AtIn(dat2, m).dir, ~(m \in UsedIn(dat) /\ AtIn(dat2, m) = AtIn(dat, m))
      PROVE  \A k \in UsedIn(dat2) : k.cluster \notin Reach(fat, AtIn(dat2, m).cluster)
  <2> DEFINE x == AtIn(dat2, m).cluster
  <2>1. m \in Places /\ m.slot \in 1..Slots /\ NewUse(dat, td[1], m.slot) /\ AtIn(dat2, m) = RowFrom(td[1].args[2])[m.slot]
    BY <1>3, <1>7, PlaceIs DEF UsedIn
  <2>2. NewDir(dat, td[1], m.slot)
    BY <1>7, <2>1 DEF NewDir, NewUse
  <2>3. x \in Entries /\ fat[x] = 0 /\ fat[c] # 0
    BY <1>1, <2>1, <2>2, NewDirIs
  <2>4. Reach(fat, x) \subseteq {x}
    BY <1>1, <2>3, RootFacts, ReachAlone
  <2> HIDE DEF x
  <2>5. \A k \in UsedIn(dat2) : k.cluster # x
    BY <1>3, <1>4, <2>3
  <2> QED BY <2>4, <2>5 DEF x
<1>8. \A l \in UsedIn(dat2) : \A q \in Paths : On(fat, dat2, q, l.cluster) => On(fat, dat, q, l.cluster)
  <2>1. \A m \in UsedIn(dat2) : AtIn(dat2, m).dir =>
            \/ m \in UsedIn(dat) /\ AtIn(dat2, m) = AtIn(dat, m)
            \/ \A k \in UsedIn(dat2) : k.cluster \notin Reach(fat, AtIn(dat2, m).cluster)
    BY <1>7
  <2> QED BY <1>1, <2>1, OnBack DEF RootPaths
<1>9. ASSUME NEW l \in UsedIn(dat2), ~(l \in UsedIn(dat) /\ AtIn(dat2, l) = AtIn(dat, l))
      PROVE  Near(fat, dat2, p, l)
  <2>1. /\ l.slot \in 1..Slots /\ l.cluster = c /\ NewUse(dat, td[1], l.slot)
        /\ AtIn(dat2, l) = RowFrom(td[1].args[2])[l.slot]
    BY <1>3, <1>9, PlaceIs DEF UsedIn
  <2>2. NearName(fat, dat, p, AtIn(dat2, l).name, c)
    BY <1>2, <2>1
  <2>3. ASSUME NEW q \in Paths, Lies(fat, dat2, q, l) PROVE Under(p, q)
    <3>1. AtIn(dat2, l).name = Last(q) /\ On(fat, dat2, q, l.cluster)
      BY <2>3 DEF Lies
    <3>2. On(fat, dat, q, c)
      BY <1>8, <2>1, <3>1
    <3> QED BY <2>2, <3>1, <3>2 DEF NearName
  <2> QED BY <2>3 DEF Near
<1>10. Brings(fat, dat, fat, dat2, p)
  BY <1>8, <1>9 DEF Brings
<1> QED BY <1>6, <1>10
-----------------------------------------------------------------------------
\* A call that waits stays near when nothing new is far.
LEMMA NearCallStays ==
  ASSUME NEW fat, NEW dat, NEW fat2, NEW dat2, NEW p, Brings(fat, dat, fat2, dat2, p),
         NEW t, NearCall(fat, dat, p, t), t.f = "write_fat" => t.args[1] # 1,
         t.f = "write_data" => \A s \in 1..Slots : NewUse(dat2, t, s) =>
            NewUse(dat, t, s) /\ \A q \in Paths : On(fat2, dat2, q, t.args[1]) => On(fat, dat, q, t.args[1])
  PROVE  NearCall(fat2, dat2, p, t)
<1>1. \A c : NearFile(fat, dat, p, c) => NearFile(fat2, dat2, p, c)
  BY NearFileStays
<1>2. t.f = "write_data" => NearWrite(fat2, dat2, p, t)
  <2>1. SUFFICES ASSUME t.f = "write_data", t.args[1] \in Entries
        PROVE  /\ NearFile(fat2, dat2, p, t.args[1])
               /\ \A l \in UsedIn(dat2) : Removes(t, l) => Near(fat2, dat2, p, l)
               /\ \A s \in 1..Slots : NewUse(dat2, t, s) =>
                     NearName(fat2, dat2, p, RowFrom(t.args[2])[s].name, t.args[1])
    BY DEF NearWrite
  <2>2. /\ NearFile(fat, dat, p, t.args[1])
        /\ \A l \in UsedIn(dat) : Removes(t, l) => Near(fat, dat, p, l)
        /\ \A s \in 1..Slots : NewUse(dat, t, s) => NearName(fat, dat, p, RowFrom(t.args[2])[s].name, t.args[1])
    BY <2>1 DEF NearCall, NearWrite
  <2>3. \A l \in UsedIn(dat2) : Removes(t, l) => Near(fat2, dat2, p, l)
    BY <2>2, NearStays
  <2>4. ASSUME NEW s \in 1..Slots, NewUse(dat2, t, s)
        PROVE  NearName(fat2, dat2, p, RowFrom(t.args[2])[s].name, t.args[1])
    BY <2>1, <2>2, <2>4 DEF NearName
  <2> QED BY <1>1, <2>2, <2>3, <2>4
<1>3. t.f = "write_fat" => NearFat(fat2, dat2, p, t)
  BY DEF NearFat
<1> QED BY <1>1, <1>2, <1>3 DEF NearCall

\* The look at the tree stays the last call.
LEMMA LookStays ==
  ASSUME NEW td2, NEW td, NEW cs, Restacked(td2, td, cs), LookLast(td), td[1].f # "look",
         \A j \in 1..Len(cs) : cs[j].f # "look"
  PROVE  LookLast(td2) /\ td2 # <<>>
<1>1. /\ Len(td) \in Nat \ {0} /\ Len(cs) \in Nat /\ Len(td2) \in Nat
      /\ Len(td2) + 1 = Len(cs) + Len(td)
      /\ \A i \in 1..Len(cs) : td2[i] = cs[i]
      /\ \A i \in 1..Len(td)-1 : td2[i + Len(cs)] = td[i+1]
  BY DEF Restacked
<1>2. 1 \in 1..Len(td) /\ Len(td) # 1
  <2>1. 1 \in 1..Len(td)
    BY <1>1
  <2>2. td[1].f = "look" <=> 1 = Len(td)
    BY <2>1 DEF LookLast
  <2> QED BY <2>1, <2>2
<1> DEFINE a == Len(td)
           b == Len(cs)
           n == Len(td2)
<1>3. a \in Nat /\ b \in Nat /\ n \in Nat /\ n + 1 = b + a /\ a # 0 /\ a # 1
  BY <1>1, <1>2
<1>4. n > b
  <2> HIDE DEF a, b, n
  <2> QED BY <1>3
<1>5. ASSUME NEW m \in 1..Len(td2) PROVE td2[m].f = "look" <=> m = Len(td2)
  <2>1. CASE m <= Len(cs)
    <3>1. m \in 1..Len(cs) /\ m # Len(td2)
      BY <1>3, <1>4, <2>1
    <3>2. td2[m] = cs[m]
      BY <1>1, <3>1
    <3>3. td2[m].f # "look"
      BY <3>1, <3>2
    <3> QED BY <3>1, <3>3
  <2>2. CASE ~(m <= Len(cs))
    <3>1. PICK k \in Nat : k = m - Len(cs)
      BY <1>1, <2>2
    <3>2. k \in 1..Len(td)-1 /\ k + Len(cs) = m /\ k + 1 \in 1..Len(td) /\ (k + 1 = Len(td) <=> m = Len(td2))
      BY <1>1, <2>2, <3>1
    <3>3. td2[m] = td[k+1]
      BY <1>1, <3>2
    <3>4. td[k+1].f = "look" <=> k + 1 = Len(td)
      BY <3>2 DEF LookLast
    <3> QED BY <3>2, <3>3, <3>4
  <2> QED BY <2>1, <2>2
<1>6. td2 # <<>>
  <2>1. Len(td2) # 0
    BY <1>3, <1>4
  <2> QED BY <2>1
<1> QED BY <1>5, <1>6 DEF LookLast

\* What is left when the first call is done.
LEMMA WithinRest ==
  ASSUME NEW fat2, NEW dat2, NEW td2, NEW td, NEW cs, Restacked(td2, td, cs), NEW p, NEW rt2,
         \A i \in 2..Len(td) : NearCall(fat2, dat2, p, td[i]),
         \A i \in 2..Len(td) : td[i].f = "grow" => td[i-1].f \in {"extend_file", "return"},
         \A j \in 1..Len(cs) : NearCall(fat2, dat2, p, cs[j]),
         \A j \in 1..Len(cs) : cs[j].f = "grow" => j > 1 /\ cs[j-1].f \in {"extend_file", "return"},
         2 <= Len(td) /\ td[2].f = "grow" =>
            /\ Len(cs) = 0 => NearFile(fat2, dat2, p, rt2)
            /\ Len(cs) # 0 => cs[Len(cs)].f \in {"extend_file", "return"}
  PROVE  Within(fat2, dat2, td2, rt2, p)
<1>1. ASSUME NEW m \in 1..Len(td2) PROVE NearCall(fat2, dat2, p, td2[m])
  <2>1. CASE m \in 1..Len(cs) /\ td2[m] = cs[m]
    BY <2>1
  <2>2. CASE \E i \in 2..Len(td) : Lower(td2, td, cs, i, m)
    BY <2>2 DEF Lower
  <2> QED BY <2>1, <2>2, LowerIs
<1>2. ASSUME NEW m \in 1..Len(td2), td2[m].f = "grow"
      PROVE  /\ m = 1 => NearFile(fat2, dat2, p, rt2)
             /\ m > 1 => td2[m-1].f \in {"extend_file", "return"}
  <2>0. Len(cs) \in Nat /\ Len(td2) \in Nat /\ \A i \in 1..Len(cs) : td2[i] = cs[i]
    BY DEF Restacked
  <2>1. CASE m \in 1..Len(cs) /\ td2[m] = cs[m]
    <3>1. m > 1 /\ cs[m-1].f \in {"extend_file", "return"}
      BY <1>2, <2>1
    <3>2. m - 1 \in 1..Len(cs) /\ m # 1
      BY <2>0, <2>1, <3>1
    <3> QED BY <2>0, <3>1, <3>2
  <2>2. CASE \E i \in 2..Len(td) : Lower(td2, td, cs, i, m)
    <3>1. PICK i \in 2..Len(td) : Lower(td2, td, cs, i, m)
      BY <2>2
    <3>2. td[i].f = "grow" /\ td[i-1].f \in {"extend_file", "return"} /\ Len(td) \in Nat
      BY <1>2, <3>1 DEF Lower
    <3>3. \/ i > 2 /\ m > 1 /\ td2[m-1] = td[i-1]
          \/ i = 2 /\ m > 1 /\ Len(cs) \in 1..Len(cs) /\ m - 1 = Len(cs) /\ td2[m-1] = cs[Len(cs)]
          \/ i = 2 /\ m = 1 /\ Len(cs) = 0
      BY <3>1 DEF Lower
    <3>4. i = 2 => 2 <= Len(td) /\ td[2].f = "grow"
      BY <3>2
    <3>5. CASE i > 2 /\ m > 1 /\ td2[m-1] = td[i-1]
      BY <3>2, <3>5
    <3>6. CASE i = 2 /\ m > 1 /\ Len(cs) \in 1..Len(cs) /\ td2[m-1] = cs[Len(cs)]
      BY <2>0, <3>4, <3>6
    <3>7. CASE i = 2 /\ m = 1 /\ Len(cs) = 0
      BY <3>4, <3>7
    <3> QED BY <3>3, <3>5, <3>6, <3>7
  <2> QED BY <2>1, <2>2, LowerIs
<1> QED BY <1>1, <1>2 DEF Within, GrowsOn
-----------------------------------------------------------------------------
OthersFacts(fat, dat, td, rt, p, tr) ==
  /\ AsBefore(fat, dat, p, tr) /\ LookLast(td) /\ (td = <<>> => \A q \in Paths : NodeIn(fat, dat, q) = tr[q])
  /\ \A i \in 1..Len(td) : NearCall(fat, dat, p, td[i])
  /\ GrowsOn(fat, dat, td, rt, p)

\* The parts of Others.
LEMMA OthersAre ==
  ASSUME NEW fat, NEW dat, NEW td, NEW rt, NEW p, NEW tr, Others(fat, dat, td, rt, p, tr)
  PROVE  OthersFacts(fat, dat, td, rt, p, tr)
BY DEF Others, Within, OthersFacts

\* A write that spares what lies under the other paths
LEMMA OthersWritten ==
  ASSUME NEW fat, NEW dat, NEW td, NEW rt, NEW p, Len(p) \in Nat, NEW tr, Others(fat, dat, td, rt, p, tr),
         DiskSound(fat, dat), NEW fat2, NEW dat2, DiskSound(fat2, dat2),
         Spares(fat, dat, fat2, dat2, p), Brings(fat, dat, fat2, dat2, p),
         NEW td2, NEW f, NEW cs, Moves(td2, td, f, cs), IsNone(cs), f \in {"write_fat", "write_data"},
         \A i \in 2..Len(td) : NearCall(fat2, dat2, p, td[i])
  PROVE  Others(fat2, dat2, td2, rt, p, tr)
<1>1. OthersFacts(fat, dat, td, rt, p, tr)
  BY OthersAre
<1>2. Restacked(td2, td, cs) /\ td[1].f = f /\ Len(cs) = 0 /\ Len(td) \in Nat
  BY MovesStack DEF IsNone
<1>3. AsBefore(fat2, dat2, p, tr)
  <2>1. \A q \in Paths : ~Under(p, q) => NodeIn(fat2, dat2, q) = NodeIn(fat, dat, q)
    BY NodeStays
  <2> QED BY <1>1, <2>1 DEF OthersFacts, AsBefore
<1>4. LookLast(td2) /\ td2 # <<>>
  <2>1. \A j \in 1..Len(cs) : cs[j].f # "look"
    BY NoCalls
  <2> QED BY <1>1, <1>2, <2>1, LookStays DEF OthersFacts
<1>5. Within(fat2, dat2, td2, rt, p)
  <2>1. ASSUME NEW i \in 2..Len(td), td[i].f = "grow" PROVE td[i-1].f \in {"extend_file", "return"}
    <3>1. i \in 1..Len(td) /\ i > 1
      BY <1>2
    <3> QED BY <1>1, <2>1, <3>1 DEF OthersFacts, GrowsOn
  <2>2. ~(2 <= Len(td) /\ td[2].f = "grow")
    <3>1. 2 <= Len(td) => 2 \in 2..Len(td) /\ 2 - 1 = 1
      BY <1>2
    <3> QED BY <1>2, <2>1, <3>1
  <2>3. \A j \in 1..Len(cs) : FALSE
    BY NoCalls
  <2> QED BY <1>2, <2>1, <2>2, <2>3, WithinRest
<1> QED BY <1>3, <1>4, <1>5 DEF Others

\* A call that stores a new entry waits for stores only.
LEMMA NewUseAdds ==
  ASSUME NEW fat, NEW dat, NEW td, NEW i \in 1..Len(td), td[i].f = "write_data", WriteOK(fat, dat, td, i),
         NEW s \in 1..Slots, NewUse(dat, td[i], s)
  PROVE  \A j \in 1..i-1 : td[j].f = "write_data"
<1>1. ~Thins(dat, td[i].args[1], td[i].args[2])
  BY DEF NewUse, Thins
<1>2. Adds(fat, dat, td, i, td[i].args[1], td[i].args[2])
  BY <1>1 DEF NewUse, WriteOK
<1> QED BY <1>2 DEF Adds

\* The writes to the FAT.
LEMMA OthersFatWritten ==
  ASSUME NEW fat, NEW dat, NEW td, NEW rt, Good(fat, dat, td, rt), NEW p, Len(p) \in Nat, NEW tr, Others(fat, dat, td, rt, p, tr),
         NEW fat2, NEW td2, NEW cs, Moves(td2, td, "write_fat", cs), IsNone(cs), td[1].args[1] = 1, td[1].args[2] = fat2
  PROVE  Others(fat2, dat, td2, rt, p, tr)
<1>1. OthersFacts(fat, dat, td, rt, p, tr)
  BY OthersAre
<1>2. Restacked(td2, td, cs) /\ td[1].f = "write_fat" /\ Len(td) \in Nat /\ 1 \in 1..Len(td)
  BY MovesStack
<1>3. /\ DiskSound(fat, dat) /\ AllSound(fat, dat, td, rt) /\ Chained(fat) /\ HeadsSound(fat, dat)
      /\ FatSound(fat) /\ fat \in [Entries -> Links]
  BY GoodFacts, SoundFacts DEF Chained
<1>4. DiskSound(fat2, dat) /\ Chained(fat2)
  <2>1. Good(fat2, dat, td2, rt)
    BY FatWritten
  <2>2. DiskSound(fat2, dat)
    BY <2>1, GoodFacts
  <2> QED BY <2>2, SoundFacts
<1>5. PICK c \in Entries, w \in Links : fat2 = [fat EXCEPT ![c] = w] /\ ChangeOK(fat, dat, td, 1, c, w)
                                        /\ (w \in Entries => fat[w] # 0)
  <2>1. CallSound(fat, dat, td, rt, 1)
    BY <1>2, <1>3 DEF AllSound
  <2>2. WriteFatOK(fat, dat, td, 1)
    BY <1>2, <2>1 DEF CallSound
  <2> QED BY <2>2 DEF WriteFatOK
<1>6. Puts(fat, fat2, c, w) /\ fat2[c] = w
  BY <1>3, <1>5 DEF Puts
<1>7. Spares(fat, dat, fat2, dat, p) /\ Brings(fat, dat, fat2, dat, p)
  <2>1. CASE w = EOC
    <3>1. fat[c] \notin Entries
      BY <1>5, <2>1 DEF ChangeOK, EndOK
    <3>2. Puts(fat, fat2, c, EOC)
      BY <1>6, <2>1
    <3>3. Cuts(fat, fat2) /\ Fewer(dat, dat)
      BY <1>3, <3>1, <3>2, EndDisk, FewerSame
    <3> QED BY <1>3, <1>4, <3>1, <3>2, <3>3, EndBeside, LessBrings
  <2>2. CASE w = 0
    <3>1. /\ ~Calm(td) /\ c \in Entries \ {Root} /\ (\A d \in Entries : fat[d] # c)
          /\ \A l \in UsedIn(dat) : l.cluster # c /\ (AtIn(dat, l).cluster = c => Paid(fat, dat, td, l))
      BY <1>5, <2>2 DEF ChangeOK, ZeroOK
    <3>2. Puts(fat, fat2, c, 0)
      BY <1>6, <2>2
    <3>3. Cuts(fat, fat2) /\ Fewer(dat, dat)
      BY <1>3, <3>1, <3>2, ZeroDisk, FewerSame
    <3>4. ASSUME NEW l \in UsedIn(dat), AtIn(dat, l).cluster = c PROVE Near(fat, dat, p, l)
      <4>1. PICK i \in 1..Len(td) : Pays(fat, dat, td[i], l)
        BY <3>1, <3>4 DEF Paid
      <4>2. CASE Removes(td[i], l)
        <5>1. td[i].f = "write_data" /\ td[i].args[1] = l.cluster /\ l.cluster \in Entries
          BY <4>2, PlaceIs DEF Removes, UsedIn
        <5>2. NearWrite(fat, dat, p, td[i])
          BY <1>1, <5>1 DEF OthersFacts, NearCall
        <5> QED BY <4>2, <5>1, <5>2 DEF NearWrite
      <4>3. CASE Sets(fat, td[i], c, EOC)
        <5>1. CASE td[i].f = "modify_fat"
          <6>1. ModifyOK(fat, dat, td, i) /\ td[i].args[1] = c /\ td[i].args[2] = EOC
            BY <1>3, <4>3, <5>1 DEF AllSound, CallSound, Sets
          <6> QED BY <3>1, <6>1 DEF ModifyOK, ChangeOK, EndOK
        <5>2. CASE td[i].f = "write_fat"
          <6>1. WriteFatOK(fat, dat, td, i) /\ td[i].args[1] = 1 /\ td[i].args[2] = [fat EXCEPT ![c] = EOC]
            BY <1>3, <4>3, <5>2 DEF AllSound, CallSound, Sets
          <6>2. i = 1
            BY <6>1 DEF WriteFatOK
          <6>3. fat2[c] = EOC
            BY <1>3, <6>1, <6>2
          <6> QED BY <1>6, <2>2, <6>3, RootFacts
        <5> QED BY <4>3, <5>1, <5>2 DEF Sets
      <4> QED BY <3>4, <4>1, <4>2, <4>3 DEF Pays
    <3> QED BY <1>3, <1>4, <3>1, <3>2, <3>3, <3>4, ZeroBeside, LessBrings
  <2>3. CASE w \in Entries
    <3>1. Unclaimed(fat, dat, w) /\ fat[w] \notin Entries /\ fat[w] # 0 /\ c # w /\ fat[c] \notin Entries
      BY <1>5, <2>3 DEF ChangeOK, LinkOn
    <3>2. NearFat(fat, dat, p, td[1])
      BY <1>1, <1>2 DEF OthersFacts, NearCall
    <3>3. NearFile(fat, dat, p, c)
      BY <1>6, <2>3, <3>1, <3>2 DEF NearFat
    <3> QED BY <1>3, <1>6, <2>3, <3>1, <3>3, LinkBeside
  <2> QED BY <1>5, <2>1, <2>2, <2>3 DEF Links
<1>8. ASSUME NEW i \in 2..Len(td) PROVE NearCall(fat2, dat, p, td[i])
  <2>1. i \in 1..Len(td) /\ 1 \in 1..i-1 /\ i # 1
    BY <1>2
  <2>2. NearCall(fat, dat, p, td[i]) /\ CallSound(fat, dat, td, rt, i)
    BY <1>1, <1>3, <2>1 DEF OthersFacts, AllSound
  <2>3. td[i].f = "write_fat" => td[i].args[1] # 1
    BY <2>1, <2>2 DEF CallSound, WriteFatOK
  <2>4. td[i].f = "write_data" => \A s \in 1..Slots : ~NewUse(dat, td[i], s)
    <3>1. td[i].f = "write_data" => WriteOK(fat, dat, td, i)
      BY <2>2 DEF CallSound
    <3> QED BY <1>2, <2>1, <3>1, NewUseAdds
  <2> QED BY <1>7, <2>2, <2>3, <2>4, NearCallStays
<1> QED BY <1>3, <1>4, <1>7, <1>8, OthersWritten

\* A write to a cluster.
LEMMA OthersDataWritten ==
  ASSUME NEW fat, NEW dat, NEW td, NEW rt, Good(fat, dat, td, rt), NEW p, Len(p) \in Nat, NEW tr, Others(fat, dat, td, rt, p, tr),
         NEW dat2, NEW td2, NEW cs, Moves(td2, td, "write_data", cs), IsNone(cs),
         NEW c \in Entries, td[1].args[1] = c, Puts(dat, dat2, c, td[1].args[2])
  PROVE  Others(fat, dat2, td2, rt, p, tr)
<1>1. OthersFacts(fat, dat, td, rt, p, tr)
  BY OthersAre
<1>2. Restacked(td2, td, cs) /\ td[1].f = "write_data" /\ Len(td) \in Nat /\ 1 \in 1..Len(td)
  BY MovesStack
<1>3. DiskSound(fat, dat) /\ AllSound(fat, dat, td, rt) /\ Chained(fat) /\ HeadsSound(fat, dat)
  BY GoodFacts, SoundFacts
<1>4. DiskSound(fat, dat2)
  BY DataWritten, GoodFacts
<1>5. Storing(fat, dat, td, c, dat2)
  BY <1>2, StoresIt
<1>6. NearWrite(fat, dat, p, td[1])
  BY <1>1, <1>2 DEF OthersFacts, NearCall
<1>7. Spares(fat, dat, fat, dat2, p) /\ Brings(fat, dat, fat, dat2, p)
  BY <1>2, <1>5, <1>6, StoreBeside
<1>8. ASSUME NEW i \in 2..Len(td) PROVE NearCall(fat, dat2, p, td[i])
  <2>1. i \in 1..Len(td) /\ 1 \in 1..i-1 /\ i # 1
    BY <1>2
  <2>2. NearCall(fat, dat, p, td[i]) /\ CallSound(fat, dat, td, rt, i)
    BY <1>1, <1>3, <2>1 DEF OthersFacts, AllSound
  <2>3. td[i].f = "write_fat" => td[i].args[1] # 1
    BY <2>1, <2>2 DEF CallSound, WriteFatOK
  <2>4. ASSUME td[i].f = "write_data", NEW s \in 1..Slots, NewUse(dat2, td[i], s)
        PROVE  NewUse(dat, td[i], s) /\ \A q \in Paths : On(fat, dat2, q, td[i].args[1]) => On(fat, dat, q, td[i].args[1])
    <3>1. td[i].args[1] \in Entries /\ WriteOK(fat, dat, td, i)
      BY <2>2, <2>4 DEF CallSound, NewUse
    <3>2. td[i].args[1] # c
      BY <1>2, <2>1, <3>1 DEF WriteOK
    <3>3. dat2[td[i].args[1]] = dat[td[i].args[1]] /\ Fewer(dat, dat2)
      BY <1>5, <2>4, <3>1, <3>2 DEF Storing
    <3>4. AtIn(dat2, [cluster |-> td[i].args[1], slot |-> s]) = AtIn(dat, [cluster |-> td[i].args[1], slot |-> s])
      BY <3>3 DEF AtIn
    <3>5. NewUse(dat, td[i], s)
      BY <2>4, <3>4 DEF NewUse
    <3> QED BY <1>3, <3>3, <3>5, CutsSame, LessBrings
  <2> QED BY <1>7, <2>2, <2>3, <2>4, NearCallStays
<1> QED BY <1>3, <1>4, <1>7, <1>8, OthersWritten
-----------------------------------------------------------------------------
\* What comes in the place of a call that leaves the disk alone.
Replaces(fat, dat, p, f, cs, rt2) ==
  /\ \A j \in 1..Len(cs) : cs[j].f # "look" /\ NearCall(fat, dat, p, cs[j])
  /\ \A j \in 1..Len(cs) : cs[j].f = "grow" => j > 1 /\ cs[j-1].f \in {"extend_file", "return"}
  /\ f \in {"extend_file", "return"} =>
       /\ Len(cs) = 0 => NearFile(fat, dat, p, rt2)
       /\ Len(cs) # 0 => cs[Len(cs)].f \in {"extend_file", "return"}

\* A step that leaves the disk alone.
LEMMA OthersMoved ==
  ASSUME NEW fat, NEW dat, NEW td, NEW rt, NEW p, NEW tr, Others(fat, dat, td, rt, p, tr),
         NEW td2, NEW f, f # "look", NEW cs, Moves(td2, td, f, cs), NEW rt2, Replaces(fat, dat, p, f, cs, rt2)
  PROVE  Others(fat, dat, td2, rt2, p, tr)
<1>1. OthersFacts(fat, dat, td, rt, p, tr)
  BY OthersAre
<1>2. Restacked(td2, td, cs) /\ td[1].f = f /\ Len(td) \in Nat
  BY MovesStack
<1>3. LookLast(td2) /\ td2 # <<>>
  BY <1>1, <1>2, LookStays DEF OthersFacts, Replaces
<1>4. ASSUME NEW i \in 2..Len(td) PROVE NearCall(fat, dat, p, td[i]) /\ (td[i].f = "grow" => td[i-1].f \in {"extend_file", "return"})
  <2>1. i \in 1..Len(td) /\ i > 1
    BY <1>2
  <2> QED BY <1>1, <2>1 DEF OthersFacts, GrowsOn
<1>5. 2 <= Len(td) /\ td[2].f = "grow" => f \in {"extend_file", "return"}
  <2>1. 2 <= Len(td) => 2 \in 2..Len(td) /\ 2 - 1 = 1
    BY <1>2
  <2> QED BY <1>2, <1>4, <2>1
<1>6. Within(fat, dat, td2, rt2, p)
  <2>1. \A j \in 1..Len(cs) : NearCall(fat, dat, p, cs[j])
    BY DEF Replaces
  <2>2. \A j \in 1..Len(cs) : cs[j].f = "grow" => j > 1 /\ cs[j-1].f \in {"extend_file", "return"}
    BY DEF Replaces
  <2>3. 2 <= Len(td) /\ td[2].f = "grow" =>
            /\ Len(cs) = 0 => NearFile(fat, dat, p, rt2)
            /\ Len(cs) # 0 => cs[Len(cs)].f \in {"extend_file", "return"}
    BY <1>5 DEF Replaces
  <2> QED BY <1>2, <1>4, <2>1, <2>2, <2>3, WithinRest
<1> QED BY <1>1, <1>3, <1>6 DEF Others, OthersFacts

\* The running call.
LEMMA OthersRun ==
  ASSUME NEW fat, NEW dat, NEW td, NEW rt, NEW p, NEW tr, Others(fat, dat, td, rt, p, tr), 1 \in 1..Len(td)
  PROVE  NearCall(fat, dat, p, td[1]) /\ (td[1].f = "grow" => NearFile(fat, dat, p, rt))
<1>1. OthersFacts(fat, dat, td, rt, p, tr)
  BY OthersAre
<1> QED BY <1>1 DEF OthersFacts, GrowsOn

\* Calls that need not be near.
Distant(t) == t.f \in {"free_chain", "look"}
\* They touch no link of a file.
LEMMA FreeNear ==
  ASSUME NEW fat, NEW dat, NEW p, NEW t, Distant(t)
  PROVE  NearCall(fat, dat, p, t)
BY DEF Distant, NearCall

\* Nor do an end and a free mark.
LEMMA MarkNear ==
  ASSUME NEW fat, NEW dat, NEW p, NEW t, t.f = "modify_fat", t.args[2] \notin Entries
  PROVE  NearCall(fat, dat, p, t)
BY DEF NearCall

\* No call in the place of another.
LEMMA NoneReplaces ==
  ASSUME NEW fat, NEW dat, NEW p, NEW f, NEW cs, IsNone(cs), NEW rt2, f \in {"extend_file", "return"} => NearFile(fat, dat, p, rt2)
  PROVE  Replaces(fat, dat, p, f, cs, rt2)
<1>1. Len(cs) = 0 /\ \A j \in 1..Len(cs) : FALSE
  BY NoCalls DEF IsNone
<1> QED BY <1>1 DEF Replaces

\* What belongs to no file.
LEMMA NearNone ==
  ASSUME NEW fat, NEW dat, NEW p, NEW c, \A l \in UsedIn(dat) : ~AtIn(dat, l).dir => c \notin Reach(fat, AtIn(dat, l).cluster)
  PROVE  NearFile(fat, dat, p, c)
BY DEF NearFile

\* What is no cluster belongs to no file.
LEMMA NearOutside ==
  ASSUME NEW fat, NEW dat, DiskSound(fat, dat), NEW p, NEW c, c \notin Entries
  PROVE  NearFile(fat, dat, p, c)
<1>1. Chained(fat) /\ HeadsSound(fat, dat)
  BY SoundFacts
<1>2. ASSUME NEW l \in UsedIn(dat) PROVE c \notin Reach(fat, AtIn(dat, l).cluster)
  <2>1. AtIn(dat, l).cluster \in Entries
    BY <1>1, HeadFacts
  <2> QED BY <1>1, <2>1, ReachWithin
<1> QED BY <1>2, NearNone

\* Nor does a cluster of a directory,
LEMMA NearDir ==
  ASSUME NEW fat, NEW dat, DiskSound(fat, dat), NEW p, NEW v, DirHead(dat, v), NEW c, c \in Reach(fat, v)
  PROVE  NearFile(fat, dat, p, c)
<1>1. ~InFile(fat, dat, c)
  BY FileNoDir
<1> QED BY <1>1, NearNone DEF InFile

\* nor one that is still free.
LEMMA NearNew ==
  ASSUME NEW fat, NEW dat, DiskSound(fat, dat), NEW p, NEW w, Unclaimed(fat, dat, w)
  PROVE  NearFile(fat, dat, p, w)
<1>1. Chained(fat) /\ HeadsSound(fat, dat)
  BY SoundFacts
<1>2. ASSUME NEW l \in UsedIn(dat), w \in Reach(fat, AtIn(dat, l).cluster) PROVE FALSE
  <2>1. AtIn(dat, l).cluster \in Entries
    BY <1>1, HeadFacts
  <2>2. AtIn(dat, l).cluster # w
    BY DEF Unclaimed
  <2>3. \E e \in Reach(fat, AtIn(dat, l).cluster) : fat[e] = w
    BY <1>1, <1>2, <2>1, <2>2, ReachPred
  <2>4. \A e \in Reach(fat, AtIn(dat, l).cluster) : e \in Entries
    BY <1>1, <2>1, ReachWithin
  <2> QED BY <2>3, <2>4 DEF Unclaimed
<1> QED BY <1>2, NearNone

\* A cluster that is cleared before it is used.
LEMMA NearZero ==
  ASSUME NEW fat, NEW dat, DiskSound(fat, dat), NEW p, NEW w, Unclaimed(fat, dat, w),
         NEW t, t.f = "write_data", t.args[1] = w, t.args[2] = Zero
  PROVE  NearCall(fat, dat, p, t)
<1>1. NearFile(fat, dat, p, w)
  BY NearNew
<1>2. \A l \in UsedIn(dat) : ~Removes(t, l)
  BY DEF Removes, Unclaimed
<1>3. \A s \in 1..Slots : ~NewUse(dat, t, s)
  BY TidyRow DEF NewUse
<1>4. NearWrite(fat, dat, p, t)
  BY <1>1, <1>2, <1>3 DEF NearWrite
<1> QED BY <1>4 DEF NearCall
-----------------------------------------------------------------------------
\* The last cluster of a chain belongs to the files its first one belongs to.
LEMMA NearLast ==
  ASSUME DiskSound(fats[1], data), NEW p, NEW c \in Links \cup {1}, NearFile(fats[1], data, p, c)
  PROVE  NearFile(fats[1], data, p, LastOf(c))
<1>1. Chained(fats[1]) /\ HeadsSound(fats[1], data) /\ FatSound(fats[1])
  BY SoundFacts
<1>2. CASE c \in Entries
  <2>1. LastOf(c) = Last(ChainIn(fats[1], c))
    BY <1>2, ChainOrNone DEF LastOf, Chain
  <2>2. LastOf(c) \in Reach(fats[1], c)
    BY <1>1, <1>2, <2>1, ReachLast
  <2>3. ASSUME NEW l \in UsedIn(data), ~AtIn(data, l).dir, LastOf(c) \in Reach(fats[1], AtIn(data, l).cluster)
        PROVE  Near(fats[1], data, p, l)
    <3>1. AtIn(data, l).cluster \in Entries /\ \A d \in Entries : fats[1][d] # AtIn(data, l).cluster
      BY <1>1, HeadFacts
    <3>2. \A a, b \in Entries : fats[1][a] = fats[1][b] /\ fats[1][a] \in Entries => a = b
      BY <1>1, FatIsChained
    <3>3. c \in Reach(fats[1], AtIn(data, l).cluster)
      BY <1>1, <1>2, <2>2, <2>3, <3>1, <3>2, ReachMeets
    <3> QED BY <2>3, <3>3 DEF NearFile
  <2> QED BY <2>3 DEF NearFile
<1>3. CASE c \notin Entries
  <2>1. ~InChain(c)
    BY <1>3, ChainOrNone DEF InChain, Root
  <2>2. LastOf(c) \notin Entries
    BY <2>1, RootFacts DEF LastOf
  <2> QED BY <2>2, NearOutside
<1> QED BY <1>2, <1>3

\* So does the next one.
LEMMA NearNext ==
  ASSUME NEW fat, NEW dat, DiskSound(fat, dat), NEW p, NEW c, NearFile(fat, dat, p, c)
  PROVE  NearFile(fat, dat, p, EntryIn(fat, c))
<1>1. Chained(fat) /\ HeadsSound(fat, dat) /\ FatSound(fat)
  BY SoundFacts
<1>2. CASE EntryIn(fat, c) \in Entries
  <2>1. c \in Entries /\ EntryIn(fat, c) = fat[c] /\ fat[c] \in Entries
    BY <1>2, TypeFacts DEF EntryIn
  <2>2. ASSUME NEW l \in UsedIn(dat), ~AtIn(dat, l).dir, fat[c] \in Reach(fat, AtIn(dat, l).cluster)
        PROVE  Near(fat, dat, p, l)
    <3>1. AtIn(dat, l).cluster \in Entries /\ fat[c] # AtIn(dat, l).cluster
      BY <1>1, <2>1, HeadFacts
    <3>2. PICK e \in Reach(fat, AtIn(dat, l).cluster) : fat[e] = fat[c]
      BY <1>1, <2>2, <3>1, ReachPred
    <3>3. e \in Entries
      BY <1>1, <3>1, ReachWithin
    <3>4. e = c
      BY <1>1, <2>1, <3>2, <3>3, FatIsChained
    <3> QED BY <2>2, <3>4 DEF NearFile
  <2> QED BY <2>1, <2>2 DEF NearFile
<1>3. CASE EntryIn(fat, c) \notin Entries
  BY <1>3, NearOutside
<1> QED BY <1>2, <1>3

\* What is found by a name lies under it.
LEMMA NearTarget ==
  ASSUME NEW fat, NEW dat, DiskSound(fat, dat), NEW p, NEW q, NEW loc, Target(fat, dat, q, loc), Under(p, q)
  PROVE  Near(fat, dat, p, loc)
<1> SUFFICES ASSUME NEW u \in Paths, Lies(fat, dat, u, loc) PROVE Under(p, u)
  BY DEF Near
<1>1. q \in Seq(NamesOf) /\ q # <<>> /\ Last(q) = Last(u)
      /\ \E g : IsWay(fat, dat, g, Front(q)) /\ loc.cluster \in Reach(fat, g[Len(q)-1])
  BY DEF Target, Lies
<1>2. On(fat, dat, u, loc.cluster)
  BY DEF Lies
<1>3. q = u
  BY <1>1, <1>2, LiesOnce
<1> QED BY <1>3

\* Its directory holds no text.
LEMMA NearPlace ==
  ASSUME NEW fat, NEW dat, DiskSound(fat, dat), NEW p, NEW q, NEW loc, Target(fat, dat, q, loc)
  PROVE  NearFile(fat, dat, p, loc.cluster)
<1>1. PICK g : IsWay(fat, dat, g, Front(q)) /\ loc.cluster \in Reach(fat, g[Len(q)-1])
  BY DEF Target
<1>2. q \in Seq(NamesOf) /\ q # <<>>
  BY DEF Target
<1>3. Len(Front(q)) \in Nat /\ Len(q) - 1 \in 0..Len(Front(q))
  BY <1>2, FrontIs
<1>4. DirHead(dat, g[Len(q)-1])
  BY <1>1, <1>3, WayHeads
<1> QED BY <1>1, <1>4, NearDir

\* The steps of delete_file.
LEMMA OthersDeleted ==
  ASSUME NEW fat, NEW dat, NEW td, NEW rt, DiskSound(fat, dat), NEW p, NEW tr, Others(fat, dat, td, rt, p, tr), NEW td2, NEW cs,
         Moves(td2, td, "delete_file", cs), NEW q, td[1].args[1] = q, NEW loc, Target(fat, dat, q, loc), NEW list,
         DeletesBy(dat, loc, q, list, cs)
  PROVE  Others(fat, dat, td2, rt, p, tr)
<1>1. td[1].f = "delete_file" /\ 1 \in 1..Len(td)
  BY MovesStack
<1>2. Under(p, q)
  BY <1>1, OthersRun DEF NearCall
<1>3. /\ Len(cs) = 3 /\ cs[1].f = "delete_inside" /\ cs[1].args[1] = q /\ cs[2].f = "free_chain"
      /\ cs[3].f = "write_data" /\ cs[3].args[1] = loc.cluster /\ cs[3].args[2] = MarkOf(dat, loc)
  BY DEF DeletesBy
<1>4. NearCall(fat, dat, p, cs[1]) /\ NearCall(fat, dat, p, cs[2])
  BY <1>2, <1>3 DEF NearCall
<1>5. NearCall(fat, dat, p, cs[3])
  <2>1. NearFile(fat, dat, p, loc.cluster) /\ Near(fat, dat, p, loc)
    BY <1>2, NearPlace, NearTarget
  <2> DEFINE img == MarkOf(dat, loc)
  <2>2. Thins(dat, loc.cluster, img) /\ \A l \in UsedIn(dat) : l.cluster = loc.cluster /\ ~InUse(RowFrom(img)[l.slot]) => l = loc
    BY MarkIs
  <2> HIDE DEF img
  <2>3. \A l \in UsedIn(dat) : Removes(cs[3], l) => l = loc
    BY <1>3, <2>2 DEF Removes, img
  <2>4. \A s \in 1..Slots : ~NewUse(dat, cs[3], s)
    BY <1>3, <2>2 DEF NewUse, Thins, img
  <2>5. NearWrite(fat, dat, p, cs[3])
    BY <1>3, <2>1, <2>3, <2>4 DEF NearWrite
  <2> QED BY <1>3, <2>5 DEF NearCall
<1>6. \A j \in 1..Len(cs) : j = 1 \/ j = 2 \/ j = 3
  BY <1>3
<1>7. Replaces(fat, dat, p, "delete_file", cs, rt)
  BY <1>3, <1>4, <1>5, <1>6 DEF Replaces
<1> QED BY <1>7, OthersMoved

\* What is in a directory lies under its path.
LEMMA OthersInside ==
  ASSUME NEW fat, NEW dat, NEW td, NEW rt, Good(fat, dat, td, rt), NEW p, Len(p) \in Nat, NEW tr, Others(fat, dat, td, rt, p, tr),
         NEW td2, NEW cs, Moves(td2, td, "delete_inside", cs), NEW q, td[1].args[1] = q, NEW list, td[1].args[2] = list,
         NEW n, NEW k,
         \/ IsNone(cs)
         \/ IsOne(cs, DeleteInside(q, list, k))
         \/ n \in 1..Len(list) /\ list[n].name \notin Unused
            /\ IsTwo(cs, delete_file(Append(q, list[n].name)), DeleteInside(q, list, k))
  PROVE  Others(fat, dat, td2, rt, p, tr)
<1>1. td[1].f = "delete_inside" /\ 1 \in 1..Len(td)
  BY MovesStack
<1>2. Under(p, q)
  BY <1>1, OthersRun DEF NearCall
<1>3. /\ q \in AllPaths
      /\ \A m \in 1..Len(list) : list[m].name \in Known \cup Unused \cup {"text"}
  BY InsideFacts DEF IsInside
<1>4. q \in Seq(NamesOf)
  BY <1>3 DEF AllPaths, NamesOf
<1>5. NearCall(fat, dat, p, DeleteInside(q, list, k))
  BY <1>2, CallsAre DEF NearCall
<1>6. n \in 1..Len(list) /\ list[n].name \notin Unused => NearCall(fat, dat, p, delete_file(Append(q, list[n].name)))
  <2> SUFFICES ASSUME n \in 1..Len(list), list[n].name \notin Unused
               PROVE  NearCall(fat, dat, p, delete_file(Append(q, list[n].name)))
    OBVIOUS
  <2>1. list[n].name \in NamesOf
    BY <1>3 DEF NamesOf
  <2>2. Under(p, Append(q, list[n].name))
    BY <1>2, <1>4, <2>1, UnderAppend
  <2> QED BY <2>2, CallsAre DEF NearCall
<1>7. CASE IsNone(cs)
  <2>1. Replaces(fat, dat, p, "delete_inside", cs, rt)
    BY <1>7, NoneReplaces
  <2> QED BY <2>1, OthersMoved
<1>8. CASE IsOne(cs, DeleteInside(q, list, k))
  <2>1. Len(cs) = 1 /\ \A j \in 1..Len(cs) : cs[j] = DeleteInside(q, list, k)
    BY <1>8 DEF IsOne
  <2>2. Replaces(fat, dat, p, "delete_inside", cs, rt)
    BY <1>5, <2>1, CallsAre DEF Replaces
  <2> QED BY <2>2, OthersMoved
<1>9. CASE n \in 1..Len(list) /\ list[n].name \notin Unused
            /\ IsTwo(cs, delete_file(Append(q, list[n].name)), DeleteInside(q, list, k))
  <2> DEFINE d == delete_file(Append(q, list[n].name))
  <2>0. d.f = "delete_file" /\ DeleteInside(q, list, k).f = "delete_inside" /\ NearCall(fat, dat, p, d)
    BY <1>6, <1>9, CallsAre
  <2>1. Len(cs) = 2 /\ cs[1] = d /\ cs[2] = DeleteInside(q, list, k)
    BY <1>9 DEF IsTwo
  <2> HIDE DEF d
  <2>2. \A j \in 1..Len(cs) : j = 1 \/ j = 2
    BY <2>1
  <2>3. Replaces(fat, dat, p, "delete_inside", cs, rt)
    BY <1>5, <2>0, <2>1, <2>2 DEF Replaces
  <2> QED BY <2>3, OthersMoved
<1> QED BY <1>7, <1>8, <1>9
-----------------------------------------------------------------------------
\* A call that ends.
LEMMA OthersPopped ==
  ASSUME NEW fat, NEW dat, NEW td, NEW rt, NEW p, NEW tr, Others(fat, dat, td, rt, p, tr),
         NEW td2, NEW f, f \notin {"look", "extend_file", "return"}, NEW cs, Moves(td2, td, f, cs), IsNone(cs)
  PROVE  Others(fat, dat, td2, rt, p, tr)
<1>1. Replaces(fat, dat, p, f, cs, rt)
  BY NoneReplaces
<1> QED BY <1>1, OthersMoved

\* modify_fat: each copy of the FAT is written.
LEMMA OthersModified ==
  ASSUME NEW fat, NEW dat, NEW td, NEW rt, Good(fat, dat, td, rt), NEW p, NEW tr, Others(fat, dat, td, rt, p, tr), NEW td2, NEW cs,
         Moves(td2, td, "modify_fat", cs), NEW c \in Entries, td[1].args[1] = c, NEW w, td[1].args[2] = w,
         NEW img, Puts(fat, img, c, w), IsWrites(cs, img)
  PROVE  Others(fat, dat, td2, rt, p, tr)
<1>1. td[1].f = "modify_fat" /\ 1 \in 1..Len(td)
  BY MovesStack
<1>2. DiskSound(fat, dat)
  BY GoodFacts
<1>3. fat \in [Entries -> Links]
  BY <1>2, SoundFacts DEF Chained
<1>4. \A y \in Entries : img[y] = IF y = c THEN w ELSE fat[y]
  BY <1>3 DEF Puts
<1>5. w \in Entries => NearFile(fat, dat, p, c)
  <2>1. NearCall(fat, dat, p, td[1])
    BY <1>1, OthersRun
  <2> QED BY <1>1, <2>1 DEF NearCall
<1>6. \A k \in 1..Len(cs) : cs[k].f = "write_fat" /\ cs[k].args[2] = img
  BY DEF IsWrites
<1>7. ASSUME NEW k \in 1..Len(cs) PROVE NearCall(fat, dat, p, cs[k])
  <2>1. NearFat(fat, dat, p, cs[k])
    BY <1>4, <1>5, <1>6 DEF NearFat
  <2> QED BY <1>6, <2>1 DEF NearCall
<1>8. Replaces(fat, dat, p, "modify_fat", cs, rt)
  BY <1>6, <1>7 DEF Replaces
<1> QED BY <1>8, OthersMoved

\* The result of extend_file.
LEMMA OthersReturned ==
  ASSUME NEW fat, NEW dat, NEW td, NEW rt, NEW p, NEW tr, Others(fat, dat, td, rt, p, tr), NEW td2, NEW cs,
         Moves(td2, td, "return", cs), IsNone(cs), NEW rt2, rt2 = td[1].args[1]
  PROVE  Others(fat, dat, td2, rt2, p, tr)
<1>1. td[1].f = "return" /\ 1 \in 1..Len(td)
  BY MovesStack
<1>2. NearFile(fat, dat, p, rt2)
  <2>1. NearCall(fat, dat, p, td[1])
    BY <1>1, OthersRun
  <2> QED BY <1>1, <2>1 DEF NearCall
<1>3. Replaces(fat, dat, p, "return", cs, rt2)
  BY <1>2, NoneReplaces
<1> QED BY <1>3, OthersMoved

\* extend_file finds no cluster.
LEMMA OthersNotExtended ==
  ASSUME NEW fat, NEW dat, NEW td, NEW rt, Good(fat, dat, td, rt), NEW p, NEW tr, Others(fat, dat, td, rt, p, tr), NEW td2, NEW cs,
         Moves(td2, td, "extend_file", cs), IsNone(cs), NEW rt2, rt2 = 1
  PROVE  Others(fat, dat, td2, rt2, p, tr)
<1>1. DiskSound(fat, dat)
  BY GoodFacts
<1>2. rt2 \notin Entries
  BY DEF Entries
<1>3. NearFile(fat, dat, p, rt2)
  BY <1>1, <1>2, NearOutside
<1>4. Replaces(fat, dat, p, "extend_file", cs, rt2)
  BY <1>3, NoneReplaces
<1> QED BY <1>4, OthersMoved

\* A file that grows is one of those under the path.
LEMMA OthersExtended ==
  ASSUME NEW td, NEW rt, Good(fats[1], data, td, rt), NEW p, NEW tr, Others(fats[1], data, td, rt, p, tr), NEW td2, NEW cs,
         Moves(td2, td, "extend_file", cs), NEW new \in Entries, fats[1][new] = 0,
         NEW c, c = LastOf(td[1].args[1]),
         IsFour(cs, modify_fat(new, EOC), modify_fat(c, new), WriteData(new, Zero), Returns(new))
  PROVE  Others(fats[1], data, td2, rt, p, tr)
<1>1. td[1].f = "extend_file" /\ 1 \in 1..Len(td)
  BY MovesStack
<1>2. DiskSound(fats[1], data) /\ Unclaimed(fats[1], data, new)
  BY <1>1, GoodFacts, FreeUnclaimed
<1>3. NearFile(fats[1], data, p, c)
  <2>1. NearCall(fats[1], data, p, td[1])
    BY <1>1, OthersRun
  <2>2. NearFile(fats[1], data, p, td[1].args[1])
    BY <1>1, <2>1 DEF NearCall
  <2>3. td[1].args[1] \in Links \cup {1}
    BY ExtendWaits
  <2> QED BY <1>2, <2>2, <2>3, NearLast
<1>4. /\ modify_fat(new, EOC).f = "modify_fat" /\ modify_fat(new, EOC).args[2] = EOC
      /\ modify_fat(c, new).f = "modify_fat" /\ modify_fat(c, new).args[1] = c
      /\ WriteData(new, Zero).f = "write_data" /\ WriteData(new, Zero).args[1] = new /\ WriteData(new, Zero).args[2] = Zero
      /\ Returns(new).f = "return" /\ Returns(new).args[1] = new
  BY CallsAre
<1>5. Len(cs) = 4 /\ cs[1] = modify_fat(new, EOC) /\ cs[2] = modify_fat(c, new) /\ cs[3] = WriteData(new, Zero) /\ cs[4] = Returns(new)
  BY DEF IsFour
<1>6. NearCall(fats[1], data, p, cs[1])
  BY <1>4, <1>5, RootFacts, MarkNear
<1>7. NearCall(fats[1], data, p, cs[2])
  BY <1>3, <1>4, <1>5 DEF NearCall
<1>8. NearCall(fats[1], data, p, cs[3])
  BY <1>2, <1>4, <1>5, NearZero
<1>9. NearCall(fats[1], data, p, cs[4])
  <2>1. NearFile(fats[1], data, p, new)
    BY <1>2, NearNew
  <2> QED BY <1>4, <1>5, <2>1 DEF NearCall
<1>10. /\ cs[1].f = "modify_fat" /\ cs[2].f = "modify_fat" /\ cs[3].f = "write_data" /\ cs[4].f = "return"
       /\ \A j \in 1..Len(cs) : j = 1 \/ j = 2 \/ j = 3 \/ j = 4
  BY <1>4, <1>5
<1>11. Replaces(fats[1], data, p, "extend_file", cs, rt)
  BY <1>5, <1>6, <1>7, <1>8, <1>9, <1>10 DEF Replaces
<1> QED BY <1>11, OthersMoved

\* Freeing touches no link.
LEMMA OthersFreed ==
  ASSUME NEW fat, NEW dat, NEW td, NEW rt, NEW p, NEW tr, Others(fat, dat, td, rt, p, tr), NEW td2, NEW cs,
         Moves(td2, td, "free_chain", cs), NEW c, NEW x, IsTwo(cs, modify_fat(c, 0), FreeFrom(x))
  PROVE  Others(fat, dat, td2, rt, p, tr)
<1>1. Len(cs) = 2 /\ cs[1].f = "modify_fat" /\ cs[1].args[2] = 0 /\ cs[2].f = "free_chain"
  BY CallsAre DEF IsTwo
<1>2. NearCall(fat, dat, p, cs[1]) /\ NearCall(fat, dat, p, cs[2])
  BY <1>1, RootFacts, MarkNear, FreeNear DEF Distant
<1>3. \A j \in 1..Len(cs) : j = 1 \/ j = 2
  BY <1>1
<1>4. Replaces(fat, dat, p, "free_chain", cs, rt)
  BY <1>1, <1>2, <1>3 DEF Replaces
<1> QED BY <1>4, OthersMoved

\* The steps of create_file are about its path.
LEMMA OthersCreated ==
  ASSUME NEW fat, NEW dat, NEW td, NEW rt, NEW p, Len(p) \in Nat, NEW tr, Others(fat, dat, td, rt, p, tr), NEW td2, NEW cs,
         Moves(td2, td, "create_file", cs), NEW q, td[1].args[1] = q, NEW d,
         IsOne(cs, CreateAt(q, d)) \/ IsTwo(cs, delete_file(q), CreateAt(q, d))
  PROVE  Others(fat, dat, td2, rt, p, tr)
<1>1. td[1].f = "create_file" /\ 1 \in 1..Len(td)
  BY MovesStack
<1>2. q = p /\ Under(p, q)
  <2>1. NearCall(fat, dat, p, td[1])
    BY <1>1, OthersRun
  <2>2. q = p
    BY <1>1, <2>1 DEF NearCall
  <2> QED BY <2>2, UnderSelf
<1>3. /\ CreateAt(q, d).f = "find_new" /\ CreateAt(q, d).args[1] = q
      /\ delete_file(q).f = "delete_file" /\ delete_file(q).args[1] = q
  BY CallsAre
<1>4. NearCall(fat, dat, p, CreateAt(q, d)) /\ NearCall(fat, dat, p, delete_file(q))
  BY <1>2, <1>3 DEF NearCall
<1>5. \A j \in 1..Len(cs) : cs[j] = CreateAt(q, d) \/ cs[j] = delete_file(q)
  <2>1. CASE IsOne(cs, CreateAt(q, d))
    BY <2>1 DEF IsOne
  <2>2. CASE IsTwo(cs, delete_file(q), CreateAt(q, d))
    <3>1. Len(cs) = 2 /\ cs[1] = delete_file(q) /\ cs[2] = CreateAt(q, d)
      BY <2>2 DEF IsTwo
    <3>2. \A j \in 1..Len(cs) : j = 1 \/ j = 2
      BY <3>1
    <3> QED BY <3>1, <3>2
  <2> QED BY <2>1, <2>2
<1>6. Replaces(fat, dat, p, "create_file", cs, rt)
  BY <1>3, <1>4, <1>5 DEF Replaces
<1> QED BY <1>6, OthersMoved

\* The place for the new entry, or the directory's new cluster.
LEMMA OthersPlaced ==
  ASSUME NEW td, NEW rt, Good(fats[1], data, td, rt), NEW p, NEW tr, Others(fats[1], data, td, rt, p, tr), NEW td2, NEW cs,
         Moves(td2, td, "find_new", cs), NEW q \in Paths, td[1].args[1] = q, NEW d, NEW loc,
         NEW c, c = file_path_destination(Front(q)),
         \/ IsNone(cs)
         \/ IsOne(cs, PlaceAt(loc, q, d))
         \/ c # -1 /\ IsTwo(cs, extend_file(c), PlaceInNew(q, d))
  PROVE  Others(fats[1], data, td2, rt, p, tr)
<1>1. td[1].f = "find_new" /\ 1 \in 1..Len(td)
  BY MovesStack
<1>2. q = p
  <2>1. NearCall(fats[1], data, p, td[1])
    BY <1>1, OthersRun
  <2> QED BY <1>1, <2>1 DEF NearCall
<1>3. CASE IsNone(cs)
  BY <1>3, OthersPopped
<1>4. CASE IsOne(cs, PlaceAt(loc, q, d))
  <2>1. Len(cs) = 1 /\ cs[1].f = "new_entry" /\ cs[1].args[2] = q
    BY <1>4, CallsAre DEF IsOne
  <2>2. NearCall(fats[1], data, p, cs[1])
    BY <1>2, <2>1 DEF NearCall
  <2>3. \A j \in 1..Len(cs) : j = 1
    BY <2>1
  <2>4. Replaces(fats[1], data, p, "find_new", cs, rt)
    BY <2>1, <2>2, <2>3 DEF Replaces
  <2> QED BY <2>4, OthersMoved
<1>5. CASE c # -1 /\ IsTwo(cs, extend_file(c), PlaceInNew(q, d))
  <2>1. DiskSound(fats[1], data)
    BY GoodFacts
  <2>2. Front(q) \in Seq(NamesOf) /\ Len(Front(q)) \in Nat
    BY PathParts
  <2>3. PICK g : IsWay(fats[1], data, g, Front(q)) /\ c = g[Len(Front(q))]
    BY <1>5, <2>1, <2>2, Destination
  <2>4. DirHead(data, c) /\ c \in Entries
    <3>1. Len(Front(q)) \in 0..Len(Front(q))
      BY <2>2
    <3> QED BY <2>1, <2>2, <2>3, <3>1, WayHeads
  <2>5. c \in Reach(fats[1], c)
    <3>1. Chained(fats[1])
      BY <2>1, SoundFacts
    <3> QED BY <2>4, <3>1, ReachClosed
  <2>6. NearFile(fats[1], data, p, c)
    BY <2>1, <2>4, <2>5, NearDir
  <2>7. /\ Len(cs) = 2 /\ cs[1].f = "extend_file" /\ cs[1].args[1] = c
        /\ cs[2].f = "entry_in_new" /\ cs[2].args[1] = q
    BY <1>5, CallsAre DEF IsTwo
  <2>8. NearCall(fats[1], data, p, cs[1])
    BY <2>6, <2>7 DEF NearCall
  <2>9. NearCall(fats[1], data, p, cs[2])
    BY <1>2, <2>7 DEF NearCall
  <2>10. \A j \in 1..Len(cs) : j = 1 \/ j = 2
    BY <2>7
  <2>11. Replaces(fats[1], data, p, "find_new", cs, rt)
    BY <2>7, <2>8, <2>9, <2>10 DEF Replaces
  <2> QED BY <2>11, OthersMoved
<1> QED BY <1>3, <1>4, <1>5

\* The place in the new cluster.
LEMMA OthersTaken ==
  ASSUME NEW fat, NEW dat, NEW td, NEW rt, NEW p, NEW tr, Others(fat, dat, td, rt, p, tr), NEW td2, NEW cs,
         Moves(td2, td, "entry_in_new", cs), NEW q, td[1].args[1] = q, NEW d, NEW loc,
         IsNone(cs) \/ IsOne(cs, PlaceAt(loc, q, d))
  PROVE  Others(fat, dat, td2, rt, p, tr)
<1>1. td[1].f = "entry_in_new" /\ 1 \in 1..Len(td)
  BY MovesStack
<1>2. q = p
  <2>1. NearCall(fat, dat, p, td[1])
    BY <1>1, OthersRun
  <2> QED BY <1>1, <2>1 DEF NearCall
<1>3. CASE IsNone(cs)
  BY <1>3, OthersPopped
<1>4. CASE IsOne(cs, PlaceAt(loc, q, d))
  <2>1. Len(cs) = 1 /\ cs[1].f = "new_entry" /\ cs[1].args[2] = q
    BY <1>4, CallsAre DEF IsOne
  <2>2. NearCall(fat, dat, p, cs[1])
    BY <1>2, <2>1 DEF NearCall
  <2>3. \A j \in 1..Len(cs) : j = 1
    BY <2>1
  <2>4. Replaces(fat, dat, p, "entry_in_new", cs, rt)
    BY <2>1, <2>2, <2>3 DEF Replaces
  <2> QED BY <2>4, OthersMoved
<1> QED BY <1>3, <1>4
-----------------------------------------------------------------------------
\* The new entry has the name of the path, in its directory.
LEMMA OthersMade ==
  ASSUME NEW fat, NEW dat, NEW td, NEW rt, Good(fat, dat, td, rt), OwnTree(fat, dat, td, rt),
         NEW p, Len(p) \in Nat, NEW tr, Others(fat, dat, td, rt, p, tr), NEW td2, NEW cs,
         Moves(td2, td, "new_entry", cs), NEW loc, td[1].args[1] = loc,
         NEW q, td[1].args[2] = q, NEW d, td[1].args[3] = d, NEW new \in Entries, fat[new] = 0,
         IsThree(cs, WriteData(new, Zero), WriteData(loc.cluster, WithIn(dat, loc, q, d, new)), modify_fat(new, EOC))
  PROVE  Others(fat, dat, td2, rt, p, tr)
<1>1. td[1].f = "new_entry" /\ 1 \in 1..Len(td)
  BY MovesStack
<1>2. PlaceOK(fat, dat, td, 1) /\ DiskSound(fat, dat)
  BY <1>1, GoodFacts DEF AllSound, CallSound
<1>3. q \in Paths /\ d \in BOOLEAN /\ loc \in Places /\ Last(q) \in Names /\ q \in Seq(NamesOf) /\ q # <<>>
  BY <1>2, PathParts DEF PlaceOK
<1>4. q = p
  <2>1. NearCall(fat, dat, p, td[1])
    BY <1>1, OthersRun
  <2> QED BY <1>1, <2>1 DEF NearCall
<1>5. Chained(fat) /\ RowsSound(dat) /\ Unclaimed(fat, dat, new) /\ loc.cluster \in Entries /\ loc.slot \in 1..Slots
  BY <1>1, <1>2, <1>3, SoundFacts, FreeUnclaimed, PlaceIs
<1> DEFINE img == WithIn(dat, loc, q, d, new)
<1>6. /\ RowFrom(img)[loc.slot].name = Last(q) /\ InUse(RowFrom(img)[loc.slot])
      /\ \A s \in 1..Slots : s # loc.slot => RowFrom(img)[s] = AtIn(dat, [cluster |-> loc.cluster, slot |-> s])
  BY <1>3, <1>5, WithRows
<1>7. Len(cs) = 3 /\ cs[1] = WriteData(new, Zero) /\ cs[2] = WriteData(loc.cluster, img) /\ cs[3] = modify_fat(new, EOC)
  BY DEF IsThree
<1> HIDE DEF img
<1>8. /\ cs[1].f = "write_data" /\ cs[1].args[1] = new /\ cs[1].args[2] = Zero
      /\ cs[2].f = "write_data" /\ cs[2].args[1] = loc.cluster /\ cs[2].args[2] = img
      /\ cs[3].f = "modify_fat" /\ cs[3].args[2] = EOC
  BY <1>7, CallsAre
<1>9. NearCall(fat, dat, p, cs[1])
  BY <1>2, <1>5, <1>8, NearZero
<1>10. NearCall(fat, dat, p, cs[2])
  <2>1. NearFile(fat, dat, p, loc.cluster)
    <3>1. PICK v \in Entries : DirHead(dat, v) /\ loc.cluster \in Reach(fat, v)
      BY <1>1, <1>2 DEF PlaceOK, InDir
    <3> QED BY <1>2, <3>1, NearDir
  <2>2. ASSUME NEW l \in UsedIn(dat), Removes(cs[2], l) PROVE FALSE
    <3>1. l.cluster = loc.cluster /\ ~InUse(RowFrom(img)[l.slot])
      BY <1>8, <2>2 DEF Removes
    <3>2. l = [cluster |-> l.cluster, slot |-> l.slot] /\ l.slot \in 1..Slots /\ InUse(AtIn(dat, l))
      BY PlaceIs DEF UsedIn
    <3>3. l.slot # loc.slot
      BY <1>6, <3>1
    <3>4. RowFrom(img)[l.slot] = AtIn(dat, l)
      BY <1>6, <3>1, <3>2, <3>3
    <3> QED BY <3>1, <3>2, <3>4
  <2>3. On(fat, dat, q, loc.cluster)
    <3>1. OwnCall(fat, dat, td, rt, 1)
      BY <1>1 DEF OwnTree, AllOwned
    <3> QED BY <1>1, <3>1 DEF OwnCall
  <2>4. NearName(fat, dat, p, Last(q), loc.cluster)
    <3> SUFFICES ASSUME NEW u \in Paths, Last(u) = Last(q), On(fat, dat, u, loc.cluster) PROVE Under(p, u)
      BY DEF NearName
    <3>1. q \in RootPaths
      BY <1>3 DEF RootPaths
    <3>2. PICK g : IsWay(fat, dat, g, Front(q)) /\ loc.cluster \in Reach(fat, g[Len(q)-1])
      BY <1>5, <2>3, <3>1, WayOn
    <3>3. q = u
      BY <1>2, <1>3, <3>2, LiesOnce
    <3> QED BY <1>4, <3>3, UnderSelf
  <2>5. ASSUME NEW s \in 1..Slots, NewUse(dat, cs[2], s)
        PROVE  NearName(fat, dat, p, RowFrom(cs[2].args[2])[s].name, cs[2].args[1])
    <3>1. s = loc.slot
      BY <1>6, <1>8, <2>5 DEF NewUse
    <3> QED BY <1>6, <1>8, <2>4, <3>1
  <2>6. NearWrite(fat, dat, p, cs[2])
    BY <1>8, <2>1, <2>2, <2>5 DEF NearWrite
  <2> QED BY <1>8, <2>6 DEF NearCall
<1>11. NearCall(fat, dat, p, cs[3])
  BY <1>8, RootFacts, MarkNear
<1>12. \A j \in 1..Len(cs) : j = 1 \/ j = 2 \/ j = 3
  BY <1>7
<1>13. Replaces(fat, dat, p, "new_entry", cs, rt)
  BY <1>7, <1>8, <1>9, <1>10, <1>11, <1>12 DEF Replaces
<1> QED BY <1>13, OthersMoved

\* The text goes to the file under the path.
LEMMA OthersTexts ==
  ASSUME NEW td, NEW rt, Good(fats[1], data, td, rt), NEW p, Len(p) \in Nat, NEW tr, Others(fats[1], data, td, rt, p, tr),
         NEW td2, NEW cs, Moves(td2, td, "write_to_file", cs), NEW q, td[1].args[1] = q, NEW t, NEW n,
         NEW start, start = AtIn(data, Find(q)).cluster,
         \/ Find(q) = NotFound /\ IsNone(cs)
         \/ Find(q) # NotFound /\ IsTwo(cs, modify_fat(LastOf(start), EOC), Fill(start, 1, t))
         \/ Find(q) # NotFound /\ IsTwo(cs, extend_file(start), Grow(n, t, start))
         \/ Find(q) # NotFound /\ IsOne(cs, Fill(start, 1, t))
  PROVE  Others(fats[1], data, td2, rt, p, tr)
<1>1. td[1].f = "write_to_file" /\ 1 \in 1..Len(td)
  BY MovesStack
<1>2. DiskSound(fats[1], data)
  BY GoodFacts
<1>3. q = p
  <2>1. NearCall(fats[1], data, p, td[1])
    BY <1>1, OthersRun
  <2> QED BY <1>1, <2>1 DEF NearCall
<1>4. q \in Paths
  BY <1>1, GoodFacts DEF AllSound, CallSound
<1>5. CASE IsNone(cs)
  BY <1>5, OthersPopped
<1>6. CASE Find(q) # NotFound
  <2> DEFINE loc == Find(q)
  <2>1. q \in AllPaths /\ Last(q) # "kernel"
    BY <1>4, PathParts
  <2>2. Target(fats[1], data, q, loc)
    BY <1>2, <1>6, <2>1, TargetIs
  <2>3. loc \in UsedIn(data)
    BY <1>4, <2>2, FoundUsed
  <2>4. Near(fats[1], data, p, loc)
    BY <1>2, <1>3, <2>2, UnderSelf, NearTarget
  <2> HIDE DEF loc
  <2>5. start = AtIn(data, loc).cluster
    BY DEF loc
  <2>6. HeadsSound(fats[1], data) /\ FatSound(fats[1]) /\ Chained(fats[1])
    BY <1>2, SoundFacts
  <2>7. start \in Entries /\ \A c \in Entries : fats[1][c] # start
    BY <2>3, <2>5, <2>6, HeadFacts
  <2>8. NearFile(fats[1], data, p, start)
    <3> SUFFICES ASSUME NEW l \in UsedIn(data), start \in Reach(fats[1], AtIn(data, l).cluster) PROVE Near(fats[1], data, p, l)
      BY DEF NearFile
    <3>1. AtIn(data, l).cluster \in Entries /\ \A c \in Entries : fats[1][c] # AtIn(data, l).cluster
      BY <2>6, HeadFacts
    <3>2. start \in Reach(fats[1], start)
      BY <2>6, <2>7, ReachClosed
    <3>3. start = AtIn(data, l).cluster
      BY <2>6, <2>7, <3>1, <3>2, HeadsMeet
    <3>4. l = loc
      BY <2>3, <2>5, <2>6, <3>3, HeadFacts
    <3> QED BY <2>4, <3>4
  <2>9. /\ modify_fat(LastOf(start), EOC).f = "modify_fat" /\ modify_fat(LastOf(start), EOC).args[2] = EOC
        /\ Fill(start, 1, t).f = "fill" /\ Fill(start, 1, t).args[1] = start
        /\ extend_file(start).f = "extend_file" /\ extend_file(start).args[1] = start
        /\ Grow(n, t, start).f = "grow" /\ Grow(n, t, start).args[3] = start
    BY CallsAre
  <2>10. NearCall(fats[1], data, p, modify_fat(LastOf(start), EOC))
    BY <2>9, RootFacts, MarkNear
  <2>11. NearCall(fats[1], data, p, Fill(start, 1, t)) /\ NearCall(fats[1], data, p, extend_file(start))
         /\ NearCall(fats[1], data, p, Grow(n, t, start))
    BY <2>8, <2>9 DEF NearCall
  <2>12. CASE IsTwo(cs, modify_fat(LastOf(start), EOC), Fill(start, 1, t))
    <3>1. Len(cs) = 2 /\ cs[1] = modify_fat(LastOf(start), EOC) /\ cs[2] = Fill(start, 1, t)
      BY <2>12 DEF IsTwo
    <3>2. \A j \in 1..Len(cs) : j = 1 \/ j = 2
      BY <3>1
    <3>3. Replaces(fats[1], data, p, "write_to_file", cs, rt)
      BY <2>9, <2>10, <2>11, <3>1, <3>2 DEF Replaces
    <3> QED BY <3>3, OthersMoved
  <2>13. CASE IsTwo(cs, extend_file(start), Grow(n, t, start))
    <3>1. Len(cs) = 2 /\ cs[1] = extend_file(start) /\ cs[2] = Grow(n, t, start)
      BY <2>13 DEF IsTwo
    <3>2. (\A j \in 1..Len(cs) : j = 1 \/ j = 2) /\ 2 - 1 = 1
      BY <3>1
    <3>3. Replaces(fats[1], data, p, "write_to_file", cs, rt)
      BY <2>9, <2>11, <3>1, <3>2 DEF Replaces
    <3> QED BY <3>3, OthersMoved
  <2>14. CASE IsOne(cs, Fill(start, 1, t))
    <3>1. Len(cs) = 1 /\ cs[1] = Fill(start, 1, t)
      BY <2>14 DEF IsOne
    <3>2. \A j \in 1..Len(cs) : j = 1
      BY <3>1
    <3>3. Replaces(fats[1], data, p, "write_to_file", cs, rt)
      BY <2>9, <2>11, <3>1, <3>2 DEF Replaces
    <3> QED BY <3>3, OthersMoved
  <2> QED BY <1>5, <1>6, <2>12, <2>13, <2>14
<1> QED BY <1>5, <1>6

\* The file grows on from the cluster it was given last.
LEMMA OthersGrown ==
  ASSUME NEW fat, NEW dat, NEW td, NEW rt, NEW p, NEW tr, Others(fat, dat, td, rt, p, tr), NEW td2, NEW cs,
         Moves(td2, td, "grow", cs), NEW n, NEW t, NEW c, td[1].args[3] = c,
         \/ IsTwo(cs, extend_file(rt), Grow(n, t, c))
         \/ IsNone(cs)
         \/ IsOne(cs, Fill(c, 1, t))
  PROVE  Others(fat, dat, td2, rt, p, tr)
<1>1. td[1].f = "grow" /\ 1 \in 1..Len(td)
  BY MovesStack
<1>2. NearFile(fat, dat, p, c) /\ NearFile(fat, dat, p, rt)
  <2>1. NearCall(fat, dat, p, td[1]) /\ NearFile(fat, dat, p, rt)
    BY <1>1, OthersRun
  <2> QED BY <1>1, <2>1 DEF NearCall
<1>3. /\ Fill(c, 1, t).f = "fill" /\ Fill(c, 1, t).args[1] = c
      /\ extend_file(rt).f = "extend_file" /\ extend_file(rt).args[1] = rt
      /\ Grow(n, t, c).f = "grow" /\ Grow(n, t, c).args[3] = c
  BY CallsAre
<1>4. NearCall(fat, dat, p, Fill(c, 1, t)) /\ NearCall(fat, dat, p, extend_file(rt)) /\ NearCall(fat, dat, p, Grow(n, t, c))
  BY <1>2, <1>3 DEF NearCall
<1>5. CASE IsNone(cs)
  BY <1>5, OthersPopped
<1>6. CASE IsTwo(cs, extend_file(rt), Grow(n, t, c))
  <2>1. Len(cs) = 2 /\ cs[1] = extend_file(rt) /\ cs[2] = Grow(n, t, c)
    BY <1>6 DEF IsTwo
  <2>2. (\A j \in 1..Len(cs) : j = 1 \/ j = 2) /\ 2 - 1 = 1
    BY <2>1
  <2>3. Replaces(fat, dat, p, "grow", cs, rt)
    BY <1>3, <1>4, <2>1, <2>2 DEF Replaces
  <2> QED BY <2>3, OthersMoved
<1>7. CASE IsOne(cs, Fill(c, 1, t))
  <2>1. Len(cs) = 1 /\ cs[1] = Fill(c, 1, t)
    BY <1>7 DEF IsOne
  <2>2. \A j \in 1..Len(cs) : j = 1
    BY <2>1
  <2>3. Replaces(fat, dat, p, "grow", cs, rt)
    BY <1>3, <1>4, <2>1, <2>2 DEF Replaces
  <2> QED BY <2>3, OthersMoved
<1> QED BY <1>5, <1>6, <1>7

\* One piece of the text.
LEMMA OthersFilled ==
  ASSUME NEW fat, NEW dat, NEW td, NEW rt, Good(fat, dat, td, rt), TidyTree(fat, dat, td),
         NEW p, NEW tr, Others(fat, dat, td, rt, p, tr),
         NEW td2, NEW cs, Moves(td2, td, "fill", cs), NEW c, td[1].args[1] = c, NEW x \in Pieces, NEW k, NEW t,
         IsTwo(cs, WriteData(c, x), Fill(EntryIn(fat, c), k, t))
  PROVE  Others(fat, dat, td2, rt, p, tr)
<1>1. 1 \in 1..Len(td) /\ td[1].f = "fill" /\ DiskSound(fat, dat)
  BY MovesStack, GoodFacts
<1>2. TidyText(fat, dat, td, 1, c)
  BY <1>1, TidyFacts DEF TidyCall
<1>3. NearFile(fat, dat, p, c)
  <2>1. NearCall(fat, dat, p, td[1])
    BY <1>1, OthersRun
  <2> QED BY <1>1, <2>1 DEF NearCall
<1> DEFINE e == EntryIn(fat, c)
<1>4. NearFile(fat, dat, p, e)
  BY <1>1, <1>3, NearNext
<1> HIDE DEF e
<1>5. /\ Len(cs) = 2 /\ cs[1].f = "write_data" /\ cs[1].args[1] = c /\ cs[1].args[2] = x
      /\ cs[2].f = "fill" /\ cs[2].args[1] = e
  BY CallsAre DEF IsTwo, e
<1>6. ASSUME NEW l \in UsedIn(dat), c \in Entries PROVE ~Removes(cs[1], l)
  <2>1. InFile(fat, dat, c)
    BY <1>2, <1>6 DEF TidyText
  <2>2. l.cluster # c
    BY <1>1, <2>1, FileHoldsNone
  <2> QED BY <1>5, <2>2 DEF Removes
<1>7. \A s \in 1..Slots : ~NewUse(dat, cs[1], s)
  BY <1>5, TidyRow DEF NewUse
<1>8. NearCall(fat, dat, p, cs[1])
  <2>1. NearWrite(fat, dat, p, cs[1])
    BY <1>3, <1>5, <1>6, <1>7 DEF NearWrite
  <2> QED BY <1>5, <2>1 DEF NearCall
<1>9. NearCall(fat, dat, p, cs[2])
  BY <1>4, <1>5 DEF NearCall
<1>10. \A j \in 1..Len(cs) : j = 1 \/ j = 2
  BY <1>5
<1>11. Replaces(fat, dat, p, "fill", cs, rt)
  BY <1>5, <1>8, <1>9, <1>10 DEF Replaces
<1> QED BY <1>11, OthersMoved
-----------------------------------------------------------------------------
(* The actions *)

Sound == Good(fats[1], data, todo, ret)

\* Directories hold entries.
Clean == TidyTree(fats[1], data, todo)

\* No cluster is lost.
Whole == OwnTree(fats[1], data, todo, ret)

\* What lies elsewhere stays.
Spared(fat2, dat2, td2, rt2) ==
  \A p, tr : Len(p) \in Nat /\ Others(fats[1], data, todo, ret, p, tr) => Others(fat2, dat2, td2, rt2, p, tr)

\* The step keeps all three, and within a command what lies elsewhere.
Stays == /\ Good(fats'[1], data', todo', ret')
         /\ Clean => TidyTree(fats'[1], data', todo')
         /\ Clean /\ Whole => OwnTree(fats'[1], data', todo', ret')
         /\ Clean /\ Whole /\ todo # <<>> /\ todo[1].f # "look" => Spared(fats'[1], data', todo', ret')

\* The running call.
LEMMA Runs ==
  ASSUME Sound, NEW f, Running(f)
  PROVE  /\ todo \in Seq(Range(todo)) /\ todo # <<>> /\ Head(todo) = todo[1] /\ todo[1].f = f /\ 1 \in 1..Len(todo)
         /\ Args = todo[1].args /\ CallSound(fats[1], data, todo, ret, 1) /\ ret \in Entries \cup {0, 1}
         /\ \A cs : cs \in Seq(Range(cs)) /\ Becomes(cs) => Moves(todo', todo, f, cs)
<1>1. todo \in Seq(Range(todo)) /\ AllSound(fats[1], data, todo, ret) /\ ret \in Entries \cup {0, 1}
  BY GoodFacts DEF Sound
<1>2. todo # <<>> /\ Head(todo) = todo[1] /\ todo[1].f = f /\ 1 \in 1..Len(todo) /\ Args = todo[1].args
  BY <1>1 DEF Running, Args
<1>3. CallSound(fats[1], data, todo, ret, 1)
  BY <1>1, <1>2 DEF AllSound
<1>4. \A cs : cs \in Seq(Range(cs)) /\ Becomes(cs) => Moves(todo', todo, f, cs)
  BY <1>1, <1>2 DEF Becomes, Moves
<1> QED BY <1>1, <1>2, <1>3, <1>4

\* A step that changes nothing but the calls.
LEMMA Same ==
  ASSUME NEW cs, Does(cs)
  PROVE  Becomes(cs) /\ fats' = fats /\ data' = data /\ ret' = ret
BY DEF Does, Computes

-----------------------------------------------------------------------------
(* The end of the partition.  As long as no cluster behind it was handed    *)
(* out, nothing on the disk or in the calls leads there, so that each write *)
(* to a cluster arrives.                                                    *)

\* What is written to x arrives: x is no cluster behind the partition.
Lands(x) == x \in Entries => x \in Clusters
RowLands(img) == \A s \in 1..Slots : Lands(RowFrom(img)[s].cluster)

\* The call leads to no cluster behind the partition.
CallLands(t) ==
  /\ t.f = "write_fat" => \A c \in Entries : Lands(t.args[2][c])
  /\ t.f = "modify_fat" => Lands(t.args[2])
  /\ t.f = "write_data" => Lands(t.args[1]) /\ RowLands(t.args[2])
  /\ t.f = "fill" => Lands(t.args[1])
  /\ t.f = "grow" => Lands(t.args[3])

Landing == /\ \A c \in Entries : Lands(fats[1][c]) /\ RowLands(data[c])
           /\ \A i \in 1..Len(todo) : CallLands(todo[i])

\* The marks are no clusters, and the root lies in the partition.
LEMMA MarksLand == Lands(0) /\ Lands(EOC) /\ Lands(-1) /\ Lands(Root)
<1>1. Root \in Clusters
  BY FatAssumption DEF Root, Clusters
<1> QED BY <1>1, TypeFacts DEF Lands

\* Zeros and text lead nowhere.
LEMMA ZeroLands == RowLands(Zero) /\ \A x \in Pieces : RowLands(x)
<1>1. \A s \in 1..Slots : Zero[s].cluster = 0
  BY DEF Zero, Blank, Entry
<1>2. RowLands(Zero)
  BY <1>1, ZeroIs, MarksLand DEF RowLands
<1>3. ASSUME NEW x \in Pieces, NEW s \in 1..Slots PROVE Lands(RowFrom(x)[s].cluster)
  <2>1. RowFrom(x)[s] = TextEntry
    BY <1>3 DEF RowFrom
  <2>2. TextEntry.cluster = EOC
    BY DEF TextEntry, Entry
  <2> QED BY <2>1, <2>2, MarksLand
<1> QED BY <1>2, <1>3 DEF RowLands

\* Nor does an entry on the disk lead behind the partition,
LEMMA EntryLands ==
  ASSUME Landing, NEW l \in Places
  PROVE  Lands(AtIn(data, l).cluster)
BY PlaceIs DEF Landing, RowLands, AtIn

\* and no cluster of a directory lies there.
LEMMA DirLands ==
  ASSUME DiskSound(fats[1], data), Landing, NEW v, DirHead(data, v), NEW x \in Reach(fats[1], v)
  PROVE  Lands(x)
<1> DEFINE T == {d \in Entries : Lands(d)}
<1>1. Chained(fats[1]) /\ v \in Entries
  BY SoundFacts, DirHeadFacts
<1>2. Lands(v)
  <2>1. CASE v = Root BY <2>1, MarksLand
  <2>2. ASSUME NEW l \in UsedIn(data), AtIn(data, l).cluster = v PROVE Lands(v)
    BY <2>2, EntryLands DEF UsedIn
  <2> QED BY <2>1, <2>2 DEF DirHead
<1>3. Closed(fats[1], T) /\ v \in T
  BY <1>1, <1>2 DEF Closed, Landing
<1> HIDE DEF T
<1>4. Reach(fats[1], v) \subseteq T
  BY <1>1, <1>3, ReachLeast
<1>5. x \in T
  BY <1>4
<1> QED BY <1>5 DEF T

\* The calls,
LEMMA CallsThatLand ==
  /\ \A t : t.f \notin {"write_fat", "modify_fat", "write_data", "fill", "grow"} => CallLands(t)
  /\ \A c, v : Lands(v) => CallLands(modify_fat(c, v))
  /\ \A k, img : (\A c \in Entries : Lands(img[c])) => CallLands(WriteFat(k, img))
  /\ \A c, img : Lands(c) /\ RowLands(img) => CallLands(WriteData(c, img))
  /\ \A c, i, t : Lands(c) => CallLands(Fill(c, i, t))
  /\ \A n, t, c : Lands(c) => CallLands(Grow(n, t, c))
BY CallsAre DEF CallLands

\* and lists of calls.
ListLands(cs) == cs \in Seq(Range(cs)) /\ \A i \in 1..Len(cs) : CallLands(cs[i])

LEMMA ListsThatLand ==
  /\ ListLands(<<>>)
  /\ \A a : CallLands(a) => ListLands(<<a>>)
  /\ \A a, b : CallLands(a) /\ CallLands(b) => ListLands(<<a, b>>)
  /\ \A a, b, c : CallLands(a) /\ CallLands(b) /\ CallLands(c) => ListLands(<<a, b, c>>)
  /\ \A a, b, c, d : CallLands(a) /\ CallLands(b) /\ CallLands(c) /\ CallLands(d) => ListLands(<<a, b, c, d>>)
<1>1. \A cs : IsNone(cs) => ListLands(cs)
  BY NoCalls DEF ListLands, IsNone
<1>2. \A cs, a : IsOne(cs, a) /\ CallLands(a) => ListLands(cs)
  BY DEF ListLands, IsOne
<1>3. \A cs, a, b : IsTwo(cs, a, b) /\ CallLands(a) /\ CallLands(b) => ListLands(cs)
  <2>1. \A i \in 1..2 : i = 1 \/ i = 2
    OBVIOUS
  <2> QED BY <2>1 DEF ListLands, IsTwo
<1>4. \A cs, a, b, c : IsThree(cs, a, b, c) /\ CallLands(a) /\ CallLands(b) /\ CallLands(c) => ListLands(cs)
  <2>1. \A i \in 1..3 : i = 1 \/ i = 2 \/ i = 3
    OBVIOUS
  <2> QED BY <2>1 DEF ListLands, IsThree
<1>5. \A cs, a, b, c, d : IsFour(cs, a, b, c, d) /\ CallLands(a) /\ CallLands(b) /\ CallLands(c) /\ CallLands(d)
                          => ListLands(cs)
  <2>1. \A i \in 1..4 : i = 1 \/ i = 2 \/ i = 3 \/ i = 4
    OBVIOUS
  <2> QED BY <2>1 DEF ListLands, IsFour
<1> QED BY <1>1, <1>2, <1>3, <1>4, <1>5, Tuples

\* The calls after a step.
LEMMA CallsLand ==
  ASSUME Sound, Landing, NEW f, Running(f), NEW cs, ListLands(cs), Becomes(cs)
  PROVE  \A i \in 1..Len(todo') : CallLands(todo'[i])
<1>1. todo \in Seq(Range(todo)) /\ todo # <<>>
  BY Runs
<1>2. Follows(todo', todo, cs)
  BY <1>1, Stacked DEF Becomes, ListLands
<1>3. ASSUME NEW i \in 1..Len(todo') PROVE CallLands(todo'[i])
  <2>1. CASE i \in 1..Len(cs) /\ todo'[i] = cs[i]
    BY <2>1 DEF ListLands
  <2>2. CASE i - Len(cs) + 1 \in 2..Len(todo) /\ todo'[i] = todo[i - Len(cs) + 1]
    <3>1. i - Len(cs) + 1 \in 1..Len(todo)
      BY <1>1, <2>2
    <3> QED BY <2>2, <3>1 DEF Landing
  <2> QED BY <1>2, <2>1, <2>2 DEF Follows
<1> QED BY <1>3

\* A call that is expanded and writes nothing.
LEMMA LandsOn ==
  ASSUME Sound, Landing, NEW f, Running(f), NEW cs, ListLands(cs), Does(cs)
  PROVE  Landing'
<1>1. Becomes(cs) /\ fats' = fats /\ data' = data
  BY Same
<1>2. \A i \in 1..Len(todo') : CallLands(todo'[i])
  BY <1>1, CallsLand
<1> QED BY <1>1, <1>2 DEF Landing

\* Which cluster is handed out decides whether a call leads there.
LEMMA NewLands ==
  ASSUME ~TakesBehind, get_empty_cluster # -1,
         (Running("extend_file") /\ EndOf(Args[1]) >= EOC) \/ Running("new_entry")
  PROVE  Lands(get_empty_cluster)
<1>1. get_empty_cluster \in Entries /\ ~(get_empty_cluster > LastCluster)
  BY EmptyCluster DEF TakesBehind
<1> QED BY <1>1, FatAssumption DEF Lands, Entries, Clusters

\* Each action keeps it so: the writes,
LEMMA LandWriteFat ==
  ASSUME IInv, Sound, Landing, DoWriteFat
  PROVE  Landing'
<1>1. /\ Running("write_fat") /\ fats' = [fats EXCEPT ![Args[1]] = Args[2]] /\ Becomes(<<>>)
      /\ data' = data
  BY DEF DoWriteFat
<1>2. todo[1].f = "write_fat" /\ Args = todo[1].args /\ 1 \in 1..Len(todo)
  BY <1>1, Runs
<1>3. \A c \in Entries : Lands(Args[2][c])
  BY <1>2 DEF Landing, CallLands
<1>4. fats'[1] = Args[2] \/ fats'[1] = fats[1]
  BY <1>1, TypeFacts DEF IInv
<1>5. \A i \in 1..Len(todo') : CallLands(todo'[i])
  BY <1>1, CallsLand, ListsThatLand
<1> QED BY <1>1, <1>3, <1>4, <1>5 DEF Landing

LEMMA LandWriteData ==
  ASSUME Sound, Landing, DoWriteData
  PROVE  Landing' /\ Lands(Args[1])
<1>1. /\ Running("write_data") /\ Becomes(<<>>) /\ fats' = fats
      /\ data' = data \/ data' = [data EXCEPT ![Args[1]] = Args[2]]
  BY DEF DoWriteData
<1>2. todo[1].f = "write_data" /\ Args = todo[1].args /\ 1 \in 1..Len(todo)
  BY <1>1, Runs
<1>3. Lands(Args[1]) /\ RowLands(Args[2])
  BY <1>2 DEF Landing, CallLands
<1>4. DOMAIN data = Entries
  BY GoodFacts DEF Sound, DiskSound, RowsSound
<1>5. \A c \in Entries : data'[c] = data[c] \/ data'[c] = Args[2]
  BY <1>1, <1>4
<1>6. \A c \in Entries : RowLands(data'[c])
  BY <1>3, <1>5 DEF Landing
<1>7. \A i \in 1..Len(todo') : CallLands(todo'[i])
  BY <1>1, CallsLand, ListsThatLand
<1>8. \A c \in Entries : Lands(fats'[1][c])
  BY <1>1 DEF Landing
<1>9. Landing'
  BY <1>6, <1>7, <1>8 DEF Landing, RowLands, RowFrom
<1> QED BY <1>3, <1>9

\* modify_fat,
LEMMA LandModifyFat ==
  ASSUME Sound, Landing, DoModifyFat
  PROVE  Landing'
<1> DEFINE img == [fats[1] EXCEPT ![Args[1]] = Args[2]]
           all == [k \in 1..NumFats |-> WriteFat(k, img)]
           cs == IF Args[1] < Root THEN <<>> ELSE all
<1>1. Running("modify_fat") /\ Does(cs)
  BY DEF DoModifyFat
<1>2. todo[1].f = "modify_fat" /\ Args = todo[1].args /\ 1 \in 1..Len(todo)
  BY <1>1, Runs
<1>3. DOMAIN fats[1] = Entries /\ Lands(Args[2])
  BY <1>2, GoodFacts DEF Sound, DiskSound, FatSound, Landing, CallLands
<1>4. \A c \in Entries : Lands(img[c])
  BY <1>3 DEF Landing
<1> HIDE DEF img
<1>5. NumFats \in Nat \ {0} /\ DOMAIN all = 1..NumFats /\ all = [k \in 1..NumFats |-> all[k]]
      /\ \A k \in 1..NumFats : all[k] = WriteFat(k, img)
  BY FatAssumption
<1> HIDE DEF all
<1>6. all \in Seq(Range(all)) /\ Len(all) = NumFats
  BY <1>5, FunIsSeq
<1>7. ListLands(all)
  BY <1>4, <1>5, <1>6, CallsThatLand DEF ListLands
<1>8. ListLands(cs)
  BY <1>7, ListsThatLand
<1> HIDE DEF cs
<1> QED BY <1>1, <1>8, LandsOn

\* extend_file,
LEMMA LandExtend ==
  ASSUME Sound, Landing, ~TakesBehind, Extend
  PROVE  Landing'
<1> DEFINE new == get_empty_cluster
           cs == <<modify_fat(new, EOC), modify_fat(LastOf(Args[1]), new), WriteData(new, Zero), Returns(new)>>
<1>1. Running("extend_file") /\ Does(cs) /\ EndOf(Args[1]) >= EOC /\ new # -1
  BY DEF Extend
<1>2. Lands(new)
  BY <1>1, NewLands
<1>3. Returns(new).f = "return"
  BY CallsAre
<1>4. ListLands(cs)
  BY <1>2, <1>3, MarksLand, ZeroLands, CallsThatLand, ListsThatLand
<1> HIDE DEF cs
<1> QED BY <1>1, <1>4, LandsOn

\* delete_file,
LEMMA LandDelete ==
  ASSUME Sound, Landing, Delete
  PROVE  Landing'
<1> DEFINE p == Args[1]
           loc == Find(p)
           e == At(loc)
           ch == Chain(e.cluster)
           list == [n \in Positions(ch) |-> At(Place(ch, n))]
           img == [RowOf(loc.cluster) EXCEPT ![loc.slot].name = "0xE5"]
           inside == IF e.dir THEN list ELSE <<>>
           cs == <<DeleteInside(p, inside, 1), FreeFrom(e.cluster), WriteData(loc.cluster, img)>>
<1>1. Running("delete_file") /\ loc # NotFound /\ Does(cs)
  BY DEF Delete
<1>2. p \in AllPaths /\ Last(p) # "kernel"
  BY <1>1, Runs DEF CallSound
<1>3. loc \in Places /\ \E g : IsWay(fats[1], data, g, Front(p)) /\ loc.cluster \in Reach(fats[1], g[Len(p)-1])
  BY <1>1, <1>2, Finding, GoodFacts DEF Sound, AllPaths, NamesOf
<1>4. DeleteInside(p, inside, 1).f = "delete_inside" /\ FreeFrom(e.cluster).f = "free_chain"
  BY CallsAre
<1> HIDE DEF inside, list, ch, e, loc
<1>5. Lands(loc.cluster)
  <2>1. Len(Front(p)) \in Nat /\ Len(Front(p)) = Len(p) - 1
    BY <1>2, FrontIs DEF AllPaths
  <2>2. Len(p) - 1 \in 0..Len(Front(p))
    BY <2>1
  <2>3. PICK g : IsWay(fats[1], data, g, Front(p)) /\ loc.cluster \in Reach(fats[1], g[Len(p)-1])
    BY <1>3
  <2>4. DirHead(data, g[Len(p)-1])
    BY <2>1, <2>2, <2>3, WayHeads, GoodFacts DEF Sound
  <2> QED BY <2>3, <2>4, DirLands, GoodFacts DEF Sound
<1>6. RowLands(img)
  <2>1. loc.cluster \in Entries /\ RowOf(loc.cluster) = RowFrom(data[loc.cluster])
    BY <1>3, PlaceIs DEF RowOf, RowFrom
  <2>2. RowFrom(data[loc.cluster]) \in Rows /\ RowLands(data[loc.cluster])
    BY <2>1, RowIs, GoodFacts DEF Sound, DiskSound, Landing
  <2>3. img \in Rows /\ \A s \in 1..Slots : img[s].cluster = RowFrom(data[loc.cluster])[s].cluster
    <3>1. "0xE5" \in Unused
      BY DEF Unused
    <3> QED BY <2>1, <2>2, <3>1 DEF Rows
  <2>4. RowFrom(img) = img
    BY <2>3, TextAssumption DEF RowFrom
  <2> QED BY <2>2, <2>3, <2>4 DEF RowLands
<1> HIDE DEF img
<1>7. ListLands(cs)
  BY <1>4, <1>5, <1>6, CallsThatLand, ListsThatLand
<1> HIDE DEF cs
<1> QED BY <1>1, <1>7, LandsOn

\* create_file,
LEMMA LandNewEntry ==
  ASSUME Sound, Landing, ~TakesBehind, NewEntry
  PROVE  Landing'
<1> DEFINE new == get_empty_cluster
           loc == Args[1]
           e == Entry(Last(Args[2]), Args[3], new)
           img == [RowOf(loc.cluster) EXCEPT ![loc.slot] = e]
           three == <<WriteData(new, Zero), WriteData(loc.cluster, img), modify_fat(new, EOC)>>
           cs == IF new = -1 THEN <<>> ELSE three
<1>1. Running("new_entry") /\ Does(cs)
  BY DEF NewEntry, WithEntry
<1>2. todo[1].args = Args /\ PlaceOK(fats[1], data, todo, 1)
  BY <1>1, Runs DEF CallSound
<1>3. /\ loc \in Places /\ Args[2] \in Paths /\ Args[3] \in BOOLEAN
      /\ \E v \in Entries : DirHead(data, v) /\ loc.cluster \in Reach(fats[1], v)
  BY <1>2 DEF PlaceOK, InDir
<1>4. Lands(loc.cluster)
  BY <1>3, DirLands, GoodFacts DEF Sound
<1>5. new # -1 => Lands(new) /\ new \in Entries
  BY <1>1, NewLands, EmptyCluster
<1>6. new # -1 => RowLands(img)
  <2>1. loc.cluster \in Entries /\ loc.slot \in 1..Slots /\ RowOf(loc.cluster) = RowFrom(data[loc.cluster])
    BY <1>3, PlaceIs DEF RowOf, RowFrom
  <2>2. RowFrom(data[loc.cluster]) \in Rows /\ RowLands(data[loc.cluster])
    BY <2>1, RowIs, GoodFacts DEF Sound, DiskSound, Landing
  <2>3. new # -1 => e \in [name : Names \cup Unused \cup {"kernel", "text"}, dir : BOOLEAN, cluster : Links]
                    /\ e.cluster = new
    BY <1>3, <1>5, PathParts DEF Entry, Links
  <2> HIDE DEF e
  <2>4. new # -1 => /\ img \in Rows
                    /\ \A s \in 1..Slots : img[s] = e \/ img[s] = RowFrom(data[loc.cluster])[s]
    BY <2>1, <2>2, <2>3 DEF Rows
  <2>5. new # -1 => RowFrom(img) = img
    BY <2>4, TextAssumption DEF RowFrom
  <2> QED BY <1>5, <2>2, <2>3, <2>4, <2>5 DEF RowLands
<1> HIDE DEF img, new, loc
<1>7. new # -1 => ListLands(three)
  BY <1>4, <1>5, <1>6, MarksLand, ZeroLands, CallsThatLand, ListsThatLand
<1> HIDE DEF three
<1>8. ListLands(cs)
  BY <1>7, ListsThatLand
<1> HIDE DEF cs
<1> QED BY <1>1, <1>8, LandsOn

\* write_to_file,
LEMMA LandWriteFile ==
  ASSUME Sound, Landing, WriteFile
  PROVE  Landing'
<1> DEFINE p == Args[1]
           t == Args[2]
           start == At(Find(p)).cluster
           size == Len(Chain(start))
           end == <<modify_fat(LastOf(start), EOC), Fill(start, 1, t)>>
           more == <<extend_file(start), Grow(Len(t) - size - 1, t, start)>>
           fit == <<Fill(start, 1, t)>>
           cs == IF Find(p) = NotFound THEN <<>>
                 ELSE IF size > Len(t) THEN end
                 ELSE IF size < Len(t) THEN more
                 ELSE fit
<1>1. Running("write_to_file") /\ Does(cs)
  BY DEF WriteFile
<1>2. p \in Paths
  BY <1>1, Runs DEF CallSound
<1>3. Find(p) # NotFound => Lands(start)
  <2>1. Find(p) # NotFound => Find(p) \in Places
    BY <1>2, Finding, PathParts, GoodFacts DEF Sound
  <2> QED BY <2>1, EntryLands, AtIs
<1>4. extend_file(start).f = "extend_file"
  BY CallsAre
<1> HIDE DEF start, size
<1>5. Find(p) # NotFound => ListLands(end) /\ ListLands(more) /\ ListLands(fit)
  BY <1>3, <1>4, MarksLand, CallsThatLand, ListsThatLand
<1> HIDE DEF end, more, fit
<1>6. ListLands(cs)
  BY <1>5, ListsThatLand
<1> HIDE DEF cs
<1> QED BY <1>1, <1>6, LandsOn

LEMMA LandGrow ==
  ASSUME Sound, Landing, GrowStep
  PROVE  Landing'
<1> DEFINE n == Args[1]
           t == Args[2]
           c == Args[3]
           more == <<extend_file(ret), Grow(n - 1, t, c)>>
           fit == <<Fill(c, 1, t)>>
           cs == IF n > 0 THEN more ELSE IF ret = 1 THEN <<>> ELSE fit
<1>1. Running("grow") /\ Does(cs)
  BY DEF GrowStep
<1>2. Lands(c)
  BY <1>1, Runs DEF Landing, CallLands
<1>3. extend_file(ret).f = "extend_file"
  BY CallsAre
<1>4. ListLands(more) /\ ListLands(fit)
  BY <1>2, <1>3, CallsThatLand, ListsThatLand
<1> HIDE DEF more, fit
<1>5. ListLands(cs)
  BY <1>4, ListsThatLand
<1> HIDE DEF cs
<1> QED BY <1>1, <1>5, LandsOn

LEMMA LandFill ==
  ASSUME Sound, Landing, FillStep
  PROVE  Landing'
<1> DEFINE c == Args[1]
           i == Args[2]
           t == Args[3]
           two == <<WriteData(c, t[i]), Fill(get_from_fat(c), i + 1, t)>>
           cs == IF i > Len(t) THEN <<>> ELSE two
<1>1. Running("fill") /\ Does(cs)
  BY DEF FillStep
<1>2. Lands(c) /\ t \in Texts /\ i \in Nat \ {0}
  BY <1>1, Runs DEF Landing, CallLands, CallSound
<1>3. Lands(get_from_fat(c))
  BY MarksLand DEF get_from_fat, EntryIn, Landing
<1>4. ~(i > Len(t)) => RowLands(t[i])
  <2>1. t \in Seq(Pieces)
    BY <1>2, TextAssumption
  <2>2. ~(i > Len(t)) => t[i] \in Pieces
    BY <1>2, <2>1
  <2> QED BY <2>2, ZeroLands
<1>5. ~(i > Len(t)) => ListLands(two)
  BY <1>2, <1>3, <1>4, CallsThatLand, ListsThatLand
<1> HIDE DEF two
<1>6. ListLands(cs)
  BY <1>5, ListsThatLand
<1> HIDE DEF cs
<1> QED BY <1>1, <1>6, LandsOn

\* the other calls,
LEMMA LandOthers ==
  ASSUME Sound, Landing,
         \/ DoReturn \/ ExtendFails \/ ExtendFull \/ DeleteMissing \/ DeleteInsideStep \/ FreeStep
         \/ Create \/ FindNew \/ EntryInNew \/ DoLook
  PROVE  Landing'
<1> USE ListsThatLand
<1>1. CASE ExtendFull
  BY <1>1 DEF ExtendFull, Landing
<1>2. CASE DoReturn \/ ExtendFails
  <2>1. Becomes(<<>>) /\ fats' = fats /\ data' = data /\ \E f : Running(f)
    BY <1>2 DEF DoReturn, ExtendFails, Computes
  <2>2. \A i \in 1..Len(todo') : CallLands(todo'[i])
    BY <2>1, CallsLand
  <2> QED BY <2>1, <2>2 DEF Landing
<1>3. \A t : t.f \in {"delete_file", "delete_inside", "free_chain", "find_new", "new_entry", "entry_in_new",
                      "extend_file"} => CallLands(t)
  BY CallsThatLand
<1>4. /\ \A p : CallLands(delete_file(p))
      /\ \A p, list, n : CallLands(DeleteInside(p, list, n))
      /\ \A c : CallLands(FreeFrom(c)) /\ CallLands(extend_file(c)) /\ CallLands(modify_fat(c, 0))
      /\ \A p, d : CallLands(CreateAt(p, d)) /\ CallLands(PlaceInNew(p, d))
      /\ \A loc, p, d : CallLands(PlaceAt(loc, p, d))
  BY <1>3, CallsAre, CallsThatLand, MarksLand
<1>5. CASE DeleteMissing \/ DoLook
  BY <1>5, LandsOn DEF DeleteMissing, DoLook
<1>6. CASE DeleteInsideStep
  <2>1. \E cs : ListLands(cs) /\ Does(cs)
    BY <1>4, <1>6 DEF DeleteInsideStep
  <2> QED BY <1>6, <2>1, LandsOn DEF DeleteInsideStep
<1>7. CASE FreeStep
  <2>1. \E cs : ListLands(cs) /\ Does(cs)
    BY <1>4, <1>7 DEF FreeStep
  <2> QED BY <1>7, <2>1, LandsOn DEF FreeStep
<1>8. CASE Create
  <2>1. \E cs : ListLands(cs) /\ Does(cs)
    BY <1>4, <1>8 DEF Create
  <2> QED BY <1>8, <2>1, LandsOn DEF Create
<1>9. CASE FindNew
  <2>1. \E cs : ListLands(cs) /\ Does(cs)
    BY <1>4, <1>9 DEF FindNew
  <2> QED BY <1>9, <2>1, LandsOn DEF FindNew
<1>10. CASE EntryInNew
  <2>1. \E cs : ListLands(cs) /\ Does(cs)
    BY <1>4, <1>10 DEF EntryInNew
  <2> QED BY <1>10, <2>1, LandsOn DEF EntryInNew
<1> QED BY <1>1, <1>2, <1>5, <1>6, <1>7, <1>8, <1>9, <1>10

\* and the commands.
LEMMA LandCommand ==
  ASSUME Landing, Command
  PROVE  Landing'
<1>1. PICK p \in Paths : \/ cmd_touch(p) \/ cmd_mkdir(p) \/ cmd_rm(p) \/ cmd_rm_r(p)
                         \/ \E t \in Texts : write_editor_buffer(p, t)
  BY DEF Command
<1>2. /\ \A d : CallLands(create_file(p, d))
      /\ \A t : CallLands(write_to_file(p, t))
      /\ CallLands(delete_file(p)) /\ CallLands(Look)
  BY CallsAre, CallsThatLand
<1>3. ASSUME NEW name, NEW t, NEW cs, ListLands(cs), Start(name, p, t, cs)
      PROVE  Landing'
  BY <1>3 DEF Start, ListLands, Landing
<1>4. /\ ListLands(<<create_file(p, FALSE), Look>>) /\ ListLands(<<create_file(p, TRUE), Look>>)
      /\ ListLands(<<delete_file(p), Look>>) /\ ListLands(<<Look>>)
      /\ \A t : ListLands(<<create_file(p, FALSE), write_to_file(p, t), Look>>)
  BY <1>2, ListsThatLand
<1>5. CASE cmd_touch(p) BY <1>3, <1>4, <1>5, Zenon DEF cmd_touch
<1>6. CASE cmd_mkdir(p) BY <1>3, <1>4, <1>6, Zenon DEF cmd_mkdir
<1>7. CASE cmd_rm(p)
  <2>1. CASE IsDirectory(p) BY <1>3, <1>4, <1>7, <2>1, Zenon DEF cmd_rm
  <2>2. CASE ~IsDirectory(p) BY <1>3, <1>4, <1>7, <2>2, Zenon DEF cmd_rm
  <2> QED BY <2>1, <2>2
<1>8. CASE cmd_rm_r(p) BY <1>3, <1>4, <1>8, Zenon DEF cmd_rm_r
<1>9. CASE \E t \in Texts : write_editor_buffer(p, t) BY <1>3, <1>4, <1>9, Zenon DEF write_editor_buffer
<1> QED BY <1>1, <1>5, <1>6, <1>7, <1>8, <1>9

\* At first nothing leads there either.
LEMMA LandInit ==
  ASSUME Init
  PROVE  Landing
<1>1. \A c \in Entries : Lands(fats[1][c])
  BY TypeFacts, MarksLand DEF Init
<1>2. Kernel => Lands(Root + 1)
  BY FatAssumption DEF Lands, Clusters, Root
<1>3. \A c \in Entries : RowLands(data[c])
  <2> DEFINE e == Entry("kernel", FALSE, Root + 1)
             row == [Zero EXCEPT ![1] = e]
  <2>1. \A c \in Entries : data[c] = Zero \/ (Kernel /\ data[c] = row)
    BY DEF Init
  <2>2. e.cluster = Root + 1
    BY DEF Entry
  <2>3. Kernel => e \in [name : Names \cup Unused \cup {"kernel", "text"}, dir : BOOLEAN, cluster : Links]
    BY FatAssumption DEF Entry, Links, Entries, Root
  <2> HIDE DEF e
  <2>4. Kernel => row \in Rows /\ \A s \in 1..Slots : row[s] = e \/ row[s] = Zero[s]
    BY <2>3, ZeroIs DEF Rows
  <2>5. Kernel => RowFrom(row) = row
    BY <2>4, TextAssumption DEF RowFrom
  <2>6. \A s \in 1..Slots : Lands(Zero[s].cluster)
    BY ZeroLands, ZeroIs DEF RowLands
  <2>7. Kernel => RowLands(row)
    BY <1>2, <2>2, <2>4, <2>5, <2>6 DEF RowLands
  <2> QED BY <2>1, <2>7, ZeroLands
<1>4. \A i \in 1..Len(todo) : CallLands(todo[i])
  BY ListsThatLand DEF Init, ListLands
<1> QED BY <1>1, <1>3, <1>4 DEF Landing

-----------------------------------------------------------------------------
\* Each action keeps the tree sound: the writes,
LEMMA SoundWriteFat ==
  ASSUME IInv, Sound, DoWriteFat
  PROVE  Stays
<1>1. /\ Running("write_fat") /\ fats' = [fats EXCEPT ![Args[1]] = Args[2]] /\ Becomes(<<>>)
      /\ data' = data /\ ret' = ret
  BY DEF DoWriteFat
<1>2. IsNone(<<>>) /\ Moves(todo', todo, "write_fat", <<>>) /\ Args = todo[1].args /\ ret \in Entries \cup {0, 1}
      /\ todo[1].f = "write_fat"
  BY <1>1, Runs, Tuples DEF IsNone
<1>3. fats \in [1..NumFats -> [Entries -> Links]] /\ 1 \in 1..NumFats
  BY TypeFacts DEF IInv
<1>4. CASE Args[1] = 1
  <2>1. fats'[1] = todo[1].args[2] /\ todo[1].args[1] = 1
    BY <1>1, <1>2, <1>3, <1>4
  <2>2. Good(fats'[1], data, todo', ret)
    BY <1>2, <2>1, FatWritten DEF Sound
  <2>3. Clean => TidyTree(fats'[1], data, todo')
    BY <1>2, <2>1, TidyFatWritten DEF Sound, Clean
  <2>4. Whole => OwnTree(fats'[1], data, todo', ret)
    BY <1>2, <2>1, OwnFatWritten DEF Sound, Whole
  <2>5. Whole => Spared(fats'[1], data, todo', ret)
    BY <1>2, <2>1, OthersFatWritten DEF Sound, Spared
  <2> QED BY <1>1, <2>2, <2>3, <2>4, <2>5 DEF Stays
<1>5. CASE Args[1] # 1
  <2>1. fats'[1] = fats[1]
    BY <1>1, <1>3, <1>5
  <2>2. \A y \in Entries : \A w : ~Sets(fats[1], todo[1], y, w)
    BY <1>2, <1>5 DEF Sets
  <2>3. \A l \in UsedIn(data) : ~Removes(todo[1], l)
    BY <1>2 DEF Removes
  <2>4. Good(fats[1], data, todo', ret)
    BY <1>2, <2>2, <2>3, PassivePop DEF Sound
  <2>5. Clean => TidyTree(fats[1], data, todo')
    <3>1. \A y \in Entries : ~Zeroes(todo[1], y)
      BY <1>2 DEF Zeroes
    <3> QED BY <1>2, <3>1, TidyPop DEF Sound, Clean
  <2>6. Whole => OwnTree(fats[1], data, todo', ret)
    <3>1. \A x \in Entries : ~Holds(fats[1], todo[1], x)
      BY <1>2, <2>2, RootFacts DEF Holds, Changes, Enters
    <3> QED BY <1>2, <2>2, <3>1, OwnPop DEF Sound, Whole
  <2>7. Spared(fats[1], data, todo', ret)
    BY <1>2, OthersPopped DEF Spared
  <2> QED BY <1>1, <2>1, <2>4, <2>5, <2>6, <2>7 DEF Stays
<1> QED BY <1>4, <1>5

\* to a FAT copy and to a cluster,
LEMMA SoundWriteData ==
  ASSUME Sound, Lands(Args[1]), DoWriteData
  PROVE  Stays
<1>1. /\ Running("write_data") /\ Becomes(<<>>) /\ fats' = fats /\ ret' = ret
      /\ data' = IF Args[1] \in Clusters THEN [data EXCEPT ![Args[1]] = Args[2]] ELSE data
  BY DEF DoWriteData
<1>2. IsNone(<<>>) /\ Moves(todo', todo, "write_data", <<>>) /\ Args = todo[1].args /\ ret \in Entries \cup {0, 1}
      /\ todo[1].f = "write_data"
  BY <1>1, Runs, Tuples DEF IsNone
<1>3. Clusters \subseteq Entries /\ (Args[1] \in Entries => Args[1] \in Clusters)
  BY FatAssumption DEF Clusters, Entries, Lands
<1>4. CASE Args[1] \in Entries
  <2>1. data' = [data EXCEPT ![todo[1].args[1]] = todo[1].args[2]] /\ todo[1].args[1] \in Entries
    BY <1>1, <1>2, <1>3, <1>4
  <2>2. Puts(data, data', todo[1].args[1], todo[1].args[2])
    BY <2>1 DEF Puts
  <2>3. Good(fats[1], data', todo', ret)
    BY <1>2, <2>1, <2>2, DataWritten DEF Sound
  <2>4. Clean => TidyTree(fats[1], data', todo')
    BY <1>2, <2>1, <2>2, TidyDataWritten DEF Sound, Clean
  <2>5. Whole => OwnTree(fats[1], data', todo', ret)
    BY <1>2, <2>1, <2>2, OwnDataWritten DEF Sound, Whole
  <2>6. Spared(fats[1], data', todo', ret)
    BY <1>2, <2>1, <2>2, OthersDataWritten DEF Sound, Spared
  <2> QED BY <1>1, <2>3, <2>4, <2>5, <2>6 DEF Stays
<1>5. CASE Args[1] \notin Entries
  <2>1. data' = data
    BY <1>1, <1>3, <1>5
  <2>2. \A y \in Entries : \A w : ~Sets(fats[1], todo[1], y, w)
    BY <1>2 DEF Sets
  <2>3. \A l \in UsedIn(data) : ~Removes(todo[1], l)
    BY <1>2, <1>5, PlaceIs DEF Removes, UsedIn
  <2>4. Good(fats[1], data, todo', ret)
    BY <1>2, <2>2, <2>3, PassivePop DEF Sound
  <2>5. Clean => TidyTree(fats[1], data, todo')
    <3>1. \A y \in Entries : ~Zeroes(todo[1], y)
      BY <1>2, <1>5 DEF Zeroes
    <3> QED BY <1>2, <3>1, TidyPop DEF Sound, Clean
  <2>6. Whole => OwnTree(fats[1], data, todo', ret)
    <3>1. \A x \in Entries : ~Holds(fats[1], todo[1], x)
      BY <1>2, <1>5, <2>2 DEF Holds, Changes, Enters
    <3> QED BY <1>2, <2>2, <3>1, OwnPop DEF Sound, Whole
  <2>7. Spared(fats[1], data, todo', ret)
    BY <1>2, OthersPopped DEF Spared
  <2> QED BY <1>1, <2>1, <2>4, <2>5, <2>6, <2>7 DEF Stays
<1> QED BY <1>4, <1>5

\* modify_fat,
LEMMA SoundModifyFat ==
  ASSUME Sound, DoModifyFat
  PROVE  Stays
<1> DEFINE img == [fats[1] EXCEPT ![Args[1]] = Args[2]]
           cs == [k \in 1..NumFats |-> WriteFat(k, img)]
<1>1. /\ Running("modify_fat") /\ fats' = fats /\ data' = data /\ ret' = ret
      /\ Becomes(IF Args[1] < Root THEN <<>> ELSE cs)
  BY DEF DoModifyFat, Does, Computes
<1>2. Args = todo[1].args /\ ret \in Entries \cup {0, 1} /\ todo[1].f = "modify_fat"
      /\ ModifyOK(fats[1], data, todo, 1)
  BY <1>1, Runs DEF CallSound
<1>3. Args[1] \in Entries \cup {0}
  BY <1>2 DEF ModifyOK
<1>4. CASE Args[1] < Root
  <2>1. IsNone(<<>>) /\ Moves(todo', todo, "modify_fat", <<>>)
    BY <1>1, <1>4, Runs, Tuples DEF IsNone
  <2>2. Args[1] \notin Entries
    BY <1>3, <1>4 DEF Entries, Root
  <2>3. \A y \in Entries : \A w : ~Sets(fats[1], todo[1], y, w)
    BY <1>2, <2>2 DEF Sets
  <2>4. \A l \in UsedIn(data) : ~Removes(todo[1], l)
    BY <1>2 DEF Removes
  <2>5. Good(fats[1], data, todo', ret)
    BY <1>2, <2>1, <2>3, <2>4, PassivePop DEF Sound
  <2>6. Clean => TidyTree(fats[1], data, todo')
    <3>1. \A y \in Entries : ~Zeroes(todo[1], y)
      BY <1>2 DEF Zeroes
    <3> QED BY <2>1, <3>1, TidyPop DEF Sound, Clean
  <2>7. Whole => OwnTree(fats[1], data, todo', ret)
    <3>1. \A x \in Entries : ~Holds(fats[1], todo[1], x)
      BY <1>2, <2>3 DEF Holds, Changes, Enters
    <3> QED BY <1>2, <2>1, <2>3, <3>1, OwnPop DEF Sound, Whole
  <2>8. Spared(fats[1], data, todo', ret)
    BY <2>1, OthersPopped DEF Spared
  <2> QED BY <1>1, <2>5, <2>6, <2>7, <2>8 DEF Stays
<1>5. CASE ~(Args[1] < Root)
  <2>1. Args[1] \in Entries
    BY <1>3, <1>5 DEF Root
  <2> HIDE DEF img
  <2>2. IsWrites(cs, img)
    <3>1. NumFats \in Nat \ {0}
      BY FatAssumption
    <3>2. DOMAIN cs = 1..NumFats /\ cs = [k \in 1..NumFats |-> cs[k]] /\ \A k \in 1..NumFats : cs[k] = WriteFat(k, img)
      OBVIOUS
    <3> HIDE DEF cs
    <3>3. cs \in Seq(Range(cs)) /\ Len(cs) = NumFats
      BY <3>1, <3>2, FunIsSeq
    <3> QED BY <3>1, <3>2, <3>3, CallsAre DEF IsWrites
  <2> HIDE DEF cs
  <2>3. Moves(todo', todo, "modify_fat", cs)
    BY <1>1, <1>5, <2>2, Runs DEF IsWrites
  <2>4. Puts(fats[1], img, Args[1], Args[2])
    BY DEF Puts, img
  <2>5. Good(fats[1], data, todo', ret)
    BY <1>2, <2>1, <2>2, <2>3, <2>4, FatModified DEF Sound
  <2>6. Clean => TidyTree(fats[1], data, todo')
    BY <1>2, <2>1, <2>2, <2>3, <2>4, TidyModified DEF Sound, Clean
  <2>7. Whole => OwnTree(fats[1], data, todo', ret)
    BY <1>2, <2>1, <2>2, <2>3, <2>4, OwnModified DEF Sound, Whole
  <2>8. Spared(fats[1], data, todo', ret)
    BY <1>2, <2>1, <2>2, <2>3, <2>4, OthersModified DEF Sound, Spared
  <2> QED BY <1>1, <2>5, <2>6, <2>7, <2>8 DEF Stays
<1> QED BY <1>4, <1>5

\* extend_file's result.
LEMMA SoundReturn ==
  ASSUME Sound, DoReturn
  PROVE  Stays
<1>1. /\ Running("return") /\ Becomes(<<>>) /\ fats' = fats /\ data' = data /\ ret' = Args[1]
  BY DEF DoReturn, Computes
<1>2. IsNone(<<>>) /\ Moves(todo', todo, "return", <<>>) /\ Args = todo[1].args /\ todo[1].f = "return"
      /\ CallSound(fats[1], data, todo, ret, 1)
  BY <1>1, Runs, Tuples DEF IsNone
<1>3. ret' = todo[1].args[1] /\ ret' \in Entries \cup {0, 1}
  BY <1>1, <1>2 DEF CallSound
<1>4. \A y \in Entries : \A w : ~Sets(fats[1], todo[1], y, w)
  BY <1>2 DEF Sets
<1>5. \A l \in UsedIn(data) : ~Removes(todo[1], l)
  BY <1>2 DEF Removes
<1>6. Good(fats[1], data, todo', ret')
  BY <1>2, <1>3, <1>4, <1>5, PassivePop DEF Sound
<1>7. Clean => TidyTree(fats[1], data, todo')
  <2>1. \A y \in Entries : ~Zeroes(todo[1], y)
    BY <1>2 DEF Zeroes
  <2> QED BY <1>2, <2>1, TidyPop DEF Sound, Clean
<1>8. Whole => OwnTree(fats[1], data, todo', ret')
  BY <1>2, <1>3, NoCalls, OwnSilent DEF Sound, Whole, Silent, IsNone
<1>9. Spared(fats[1], data, todo', ret')
  BY <1>2, <1>3, OthersReturned DEF Spared
<1> QED BY <1>1, <1>6, <1>7, <1>8, <1>9 DEF Stays

\* The steps of extend_file.
LEMMA SoundExtend ==
  ASSUME Sound, ExtendFails \/ ExtendFull \/ Extend
  PROVE  Stays
<1>1. CASE ExtendFull
  BY <1>1 DEF ExtendFull, Sound, Clean, Whole, Stays, Spared
<1>2. CASE ExtendFails
  <2>1. Running("extend_file") /\ Becomes(<<>>) /\ fats' = fats /\ data' = data /\ ret' = 1
    BY <1>2 DEF ExtendFails, Computes
  <2>2. IsNone(<<>>) /\ Moves(todo', todo, "extend_file", <<>>)
    BY <2>1, Runs, Tuples DEF IsNone
  <2>3. Good(fats[1], data, todo', ret')
    BY <2>1, <2>2, NotExtended DEF Sound
  <2>4. Clean => TidyTree(fats[1], data, todo')
    <3>1. todo[1].f = "extend_file"
      BY <2>1, Runs
    <3>2. \A y \in Entries : ~Zeroes(todo[1], y)
      BY <3>1 DEF Zeroes
    <3> QED BY <2>2, <3>2, TidyPop DEF Sound, Clean
  <2>5. Whole => OwnTree(fats[1], data, todo', ret')
    BY <2>1, <2>2, OwnNotExtended DEF Sound, Whole
  <2>6. Spared(fats[1], data, todo', ret')
    BY <2>1, <2>2, OthersNotExtended DEF Sound, Spared
  <2> QED BY <2>1, <2>3, <2>4, <2>5, <2>6 DEF Stays
<1>3. CASE Extend
  <2> DEFINE new == get_empty_cluster
             c == LastOf(Args[1])
             cs == <<modify_fat(new, EOC), modify_fat(c, new), WriteData(new, Zero), Returns(new)>>
  <2>1. /\ Running("extend_file") /\ Becomes(cs) /\ fats' = fats /\ data' = data /\ ret' = ret
        /\ EndOf(Args[1]) >= EOC /\ new # -1
    BY <1>3 DEF Extend, Does, Computes
  <2>2. new \in Entries /\ fats[1][new] = 0 /\ c # new
    BY <2>1, NewIsOther
  <2>3. IsFour(cs, modify_fat(new, EOC), modify_fat(c, new), WriteData(new, Zero), Returns(new))
    BY Tuples
  <2> HIDE DEF cs, new
  <2>4. Moves(todo', todo, "extend_file", cs) /\ Args = todo[1].args
    BY <2>1, <2>3, Runs DEF IsFour
  <2>5. c = LastOf(todo[1].args[1])
    BY <2>4
  <2> HIDE DEF c
  <2>6. Good(fats[1], data, todo', ret)
    BY <2>2, <2>3, <2>4, <2>5, Extended DEF Sound
  <2>7. Clean => TidyTree(fats[1], data, todo')
    BY <2>2, <2>3, <2>4, TidyExtended DEF Sound, Clean
  <2>8. Whole => OwnTree(fats[1], data, todo', ret)
    BY <2>1, <2>2, <2>3, <2>4, <2>5, OwnExtended DEF Sound, Whole
  <2>9. Spared(fats[1], data, todo', ret)
    BY <2>2, <2>3, <2>4, <2>5, OthersExtended DEF Sound, Spared
  <2> QED BY <2>1, <2>6, <2>7, <2>8, <2>9 DEF Stays
<1> QED BY <1>1, <1>2, <1>3

-----------------------------------------------------------------------------
\* A step in the place of which come only calls that leave the disk alone.
LEMMA WholeSilent ==
  ASSUME Sound, Whole, NEW f, NEW cs, Moves(todo', todo, f, cs), Silent(todo[1]), f \notin {"extend_file", "return"},
         \A j \in 1..Len(cs) : Silent(cs[j]) /\ cs[j].f \notin {"extend_file", "new_entry", "entry_in_new"}
  PROVE  OwnTree(fats[1], data, todo', ret)
BY OwnSilent DEF Sound, Whole

\* The steps of delete_file,
LEMMA SoundDeleteMissing ==
  ASSUME Sound, DeleteMissing
  PROVE  Stays
<1>1. Running("delete_file") /\ Find(Args[1]) = NotFound /\ Does(<<>>)
  BY DEF DeleteMissing
<1>2. Becomes(<<>>) /\ fats' = fats /\ data' = data /\ ret' = ret
  BY <1>1, Same
<1>3. IsNone(<<>>) /\ Moves(todo', todo, "delete_file", <<>>) /\ Args = todo[1].args
  BY <1>1, <1>2, Runs, Tuples DEF IsNone
<1>4. Find(todo[1].args[1]) = NotFound
  BY <1>1, <1>3
<1>5. Good(fats[1], data, todo', ret)
  BY <1>3, <1>4, DeletedNone DEF Sound
<1>6. Clean => TidyTree(fats[1], data, todo')
  <2>1. todo[1].f = "delete_file"
    BY <1>1, Runs
  <2>2. \A y \in Entries : ~Zeroes(todo[1], y)
    BY <2>1 DEF Zeroes
  <2> QED BY <1>3, <2>2, TidyPop DEF Sound, Clean
<1>7. Whole => OwnTree(fats[1], data, todo', ret)
  <2>1. Silent(todo[1])
    BY <1>1, Runs DEF Silent
  <2> QED BY <1>3, <2>1, NoCalls, WholeSilent
<1>8. Spared(fats[1], data, todo', ret)
  BY <1>3, OthersPopped DEF Spared
<1> QED BY <1>2, <1>5, <1>6, <1>7, <1>8 DEF Stays

\* from what it finds
LEMMA SoundDelete ==
  ASSUME Sound, Delete
  PROVE  Stays
<1> DEFINE p == Args[1]
           loc == Find(p)
           e == At(loc)
           ch == Chain(e.cluster)
           list == [n \in Positions(ch) |-> At(Place(ch, n))]
           img == [RowOf(loc.cluster) EXCEPT ![loc.slot].name = "0xE5"]
           inside == IF e.dir THEN list ELSE <<>>
           cs == <<DeleteInside(p, inside, 1), FreeFrom(e.cluster), WriteData(loc.cluster, img)>>
<1>1. Running("delete_file") /\ loc # NotFound /\ Does(cs)
  BY DEF Delete
<1>2. e = AtIn(data, loc)
  BY AtIs
<1>3. list = ListOf(fats[1], data, e.cluster)
  <2>1. ch = ChainIn(fats[1], e.cluster)
    BY DEF Chain
  <2> HIDE DEF e
  <2>2. \A n \in Positions(ch) : At(Place(ch, n)) = AtIn(data, Place(ch, n))
    BY AtIs
  <2> QED BY <2>1, <2>2 DEF ListOf
<1>4. img = MarkOf(data, loc)
  BY DEF MarkOf, RowOf, RowFrom
<1>5. inside = IF AtIn(data, loc).dir THEN ListOf(fats[1], data, AtIn(data, loc).cluster) ELSE <<>>
  BY <1>2, <1>3
<1>6. IsThree(cs, DeleteInside(p, inside, 1), FreeFrom(e.cluster), WriteData(loc.cluster, img))
  BY Tuples
<1> HIDE DEF cs, inside, img, list, ch, e, loc
<1>7. DeletesBy(data, loc, p, inside, cs)
  BY <1>2, <1>4, <1>6, CallsAre DEF DeletesBy, IsThree
<1>8. Becomes(cs) /\ fats' = fats /\ data' = data /\ ret' = ret
  BY <1>1, Same
<1>9. Moves(todo', todo, "delete_file", cs) /\ todo[1].args[1] = p
  BY <1>1, <1>6, <1>8, Runs DEF IsThree
<1>10. loc = Find(p)
  BY DEF loc
<1> HIDE DEF p
<1>11. Good(fats[1], data, todo', ret)
  BY <1>1, <1>5, <1>7, <1>9, <1>10, Deleted DEF Sound
<1>12. Clean => TidyTree(fats[1], data, todo')
  <2>1. todo[1].f = "delete_file" /\ p \in AllPaths /\ Last(p) # "kernel"
    BY <1>1, <1>9, Runs DEF CallSound
  <2>2. Target(fats[1], data, p, loc)
    BY <1>1, <1>10, <2>1, TargetIs, GoodFacts DEF Sound
  <2> QED BY <1>7, <1>9, <2>2, TidyDeleted DEF Sound, Clean
<1>13. Whole => OwnTree(fats[1], data, todo', ret)
  <2>1. p \in AllPaths /\ Last(p) # "kernel"
    BY <1>1, <1>9, Runs DEF CallSound
  <2>2. Target(fats[1], data, p, loc)
    BY <1>1, <1>10, <2>1, TargetIs, GoodFacts DEF Sound
  <2> QED BY <1>7, <1>9, <2>2, OwnDeleted DEF Sound, Whole
<1>14. Spared(fats[1], data, todo', ret)
  <2>1. p \in AllPaths /\ Last(p) # "kernel"
    BY <1>1, <1>9, Runs DEF CallSound
  <2>2. DiskSound(fats[1], data) /\ Target(fats[1], data, p, loc)
    BY <1>1, <1>10, <2>1, TargetIs, GoodFacts DEF Sound
  <2> QED BY <1>7, <1>9, <2>2, OthersDeleted DEF Spared
<1> QED BY <1>8, <1>11, <1>12, <1>13, <1>14 DEF Stays

\* and what is in it
LEMMA SoundDeleteInside ==
  ASSUME Sound, DeleteInsideStep
  PROVE  Stays
<1> DEFINE p == Args[1]
           list == Args[2]
           n == Args[3]
           one == <<DeleteInside(p, list, n + 1)>>
           two == <<delete_file(Append(p, list[n].name)), DeleteInside(p, list, n + 1)>>
           cs == IF n \notin DOMAIN list THEN <<>> ELSE IF list[n].name \in Unused THEN one ELSE two
<1>1. Running("delete_inside") /\ Does(cs)
  BY DEF DeleteInsideStep
<1>2. Becomes(cs) /\ fats' = fats /\ data' = data /\ ret' = ret
  BY <1>1, Same
<1>3. IsNone(<<>>) /\ IsOne(one, DeleteInside(p, list, n + 1))
      /\ IsTwo(two, delete_file(Append(p, list[n].name)), DeleteInside(p, list, n + 1))
  BY Tuples
<1> HIDE DEF one, two
<1>4. cs \in Seq(Range(cs))
  BY <1>3 DEF IsNone, IsOne, IsTwo
<1>5. todo[1].args[1] = p /\ todo[1].args[2] = list /\ todo[1].args[3] = n
  BY <1>1, Runs
<1> HIDE DEF p, list, n
<1>6. cs = IF n \notin DOMAIN list THEN <<>> ELSE IF list[n].name \in Unused THEN one ELSE two
  OBVIOUS
<1> HIDE DEF cs
<1>7. Moves(todo', todo, "delete_inside", cs)
  BY <1>1, <1>2, <1>4, Runs
<1>8. DOMAIN list = 1..Len(list)
  <2>1. IsInside(fats[1], data, todo, p, list, n)
    BY <1>5, <1>7, InsideFacts DEF Sound
  <2> QED BY <2>1 DEF IsInside
<1>0. ASSUME \A j \in 1..Len(cs) : cs[j].f \in {"delete_file", "delete_inside"}
      PROVE  Whole => OwnTree(fats[1], data, todo', ret)
  <2>1. Silent(todo[1])
    BY <1>1, Runs DEF Silent
  <2>2. \A j \in 1..Len(cs) : Silent(cs[j]) /\ cs[j].f \notin {"extend_file", "new_entry", "entry_in_new"}
    BY <1>0 DEF Silent
  <2> QED BY <1>7, <2>1, <2>2, WholeSilent
<1>9. CASE n \notin DOMAIN list
  <2>1. IsNone(cs) /\ todo[1].args[3] \notin 1..Len(todo[1].args[2])
    BY <1>3, <1>5, <1>6, <1>8, <1>9
  <2>2. Good(fats[1], data, todo', ret)
    BY <1>7, <2>1, InsideDone DEF Sound
  <2>3. \A j \in 1..Len(cs) : cs[j].f \in {"delete_file", "delete_inside"}
    BY <2>1, NoCalls
  <2>4. Clean => TidyTree(fats[1], data, todo')
    BY <1>7, <2>3, TidyInside DEF Sound, Clean
  <2>5. Spared(fats[1], data, todo', ret)
    BY <1>7, <2>1, OthersPopped DEF Spared
  <2> QED BY <1>0, <1>2, <2>2, <2>3, <2>4, <2>5 DEF Stays
<1>10. CASE n \in DOMAIN list /\ list[n].name \in Unused
  <2>1. IsOne(cs, DeleteInside(p, list, n + 1)) /\ n \in 1..Len(list)
    BY <1>3, <1>6, <1>8, <1>10
  <2>2. Good(fats[1], data, todo', ret)
    BY <1>5, <1>7, <1>10, <2>1, InsidePassed DEF Sound
  <2>3. \A j \in 1..Len(cs) : cs[j].f \in {"delete_file", "delete_inside"}
    BY <2>1, CallsAre DEF IsOne
  <2>4. Clean => TidyTree(fats[1], data, todo')
    BY <1>7, <2>3, TidyInside DEF Sound, Clean
  <2>5. Spared(fats[1], data, todo', ret)
    <3> DEFINE k == n + 1
    <3>1. IsOne(cs, DeleteInside(p, list, k))
      BY <2>1
    <3> HIDE DEF k
    <3> QED BY <1>5, <1>7, <3>1, OthersInside DEF Sound, Spared
  <2> QED BY <1>0, <1>2, <2>2, <2>3, <2>4, <2>5 DEF Stays
<1>11. CASE n \in DOMAIN list /\ list[n].name \notin Unused
  <2>1. IsTwo(cs, delete_file(Append(p, list[n].name)), DeleteInside(p, list, n + 1)) /\ n \in 1..Len(list)
    BY <1>3, <1>6, <1>8, <1>11
  <2>2. Good(fats[1], data, todo', ret)
    BY <1>5, <1>7, <1>11, <2>1, InsideDown DEF Sound
  <2>3. \A j \in 1..Len(cs) : cs[j].f \in {"delete_file", "delete_inside"}
    BY <2>1, CallsAre DEF IsTwo
  <2>4. Clean => TidyTree(fats[1], data, todo')
    BY <1>7, <2>3, TidyInside DEF Sound, Clean
  <2>5. Spared(fats[1], data, todo', ret)
    <3> DEFINE k == n + 1
    <3>1. IsTwo(cs, delete_file(Append(p, list[n].name)), DeleteInside(p, list, k))
      BY <2>1
    <3> HIDE DEF k
    <3> QED BY <1>5, <1>7, <1>11, <2>1, <3>1, OthersInside DEF Sound, Spared
  <2> QED BY <1>0, <1>2, <2>2, <2>3, <2>4, <2>5 DEF Stays
<1> QED BY <1>9, <1>10, <1>11

\* to its clusters.
LEMMA SoundFree ==
  ASSUME Sound, FreeStep
  PROVE  Stays
<1> DEFINE c == Args[1]
           two == <<modify_fat(c, 0), FreeFrom(get_from_fat(c))>>
           cs == IF InChain(c) THEN two ELSE <<>>
<1>1. Running("free_chain") /\ Does(cs)
  BY DEF FreeStep
<1>2. Becomes(cs) /\ fats' = fats /\ data' = data /\ ret' = ret
  BY <1>1, Same
<1>3. IsNone(<<>>) /\ IsTwo(two, modify_fat(c, 0), FreeFrom(get_from_fat(c)))
  BY Tuples
<1> HIDE DEF two
<1>4. cs \in Seq(Range(cs))
  BY <1>3 DEF IsNone, IsTwo
<1>5. todo[1].args[1] = c /\ c \in Links
  BY <1>1, Runs DEF CallSound, FreeOK
<1> HIDE DEF c
<1>6. cs = IF InChain(c) THEN two ELSE <<>>
  OBVIOUS
<1> HIDE DEF cs
<1>7. Moves(todo', todo, "free_chain", cs)
  BY <1>1, <1>2, <1>4, Runs
<1>8. CASE InChain(c)
  <2>1. c \in Entries
    BY <1>5, <1>8, ChainOrNone
  <2>2. get_from_fat(c) = fats[1][c]
    BY <2>1 DEF get_from_fat, EntryIn
  <2>3. IsTwo(cs, modify_fat(c, 0), FreeFrom(fats[1][c]))
    BY <1>3, <1>6, <1>8, <2>2
  <2>4. Good(fats[1], data, todo', ret)
    BY <1>5, <1>7, <2>1, <2>3, FreedNext DEF Sound
  <2>5. Clean => TidyTree(fats[1], data, todo')
    BY <1>7, <2>3, TidyFreed DEF Sound, Clean
  <2>6. Whole => OwnTree(fats[1], data, todo', ret)
    BY <1>5, <1>7, <2>1, <2>3, OwnFreed DEF Sound, Whole
  <2>7. Spared(fats[1], data, todo', ret)
    BY <1>7, <2>3, OthersFreed DEF Spared
  <2> QED BY <1>2, <2>4, <2>5, <2>6, <2>7 DEF Stays
<1>9. CASE ~InChain(c)
  <2>1. IsNone(cs)
    BY <1>3, <1>6, <1>9
  <2>2. Good(fats[1], data, todo', ret)
    BY <1>7, <2>1, FreedAll DEF Sound
  <2>3. Clean => TidyTree(fats[1], data, todo')
    <3>1. todo[1].f = "free_chain"
      BY <1>1, Runs
    <3>2. \A y \in Entries : ~Zeroes(todo[1], y)
      BY <3>1 DEF Zeroes
    <3> QED BY <1>7, <2>1, <3>2, TidyPop DEF Sound, Clean
  <2>4. Whole => OwnTree(fats[1], data, todo', ret)
    <3>1. todo[1].f = "free_chain" /\ c \notin Entries
      BY <1>1, <1>9, Runs, ChainOrNone
    <3>2. Chained(fats[1])
      BY GoodFacts, SoundFacts DEF Sound
    <3>3. Reach(fats[1], c) = {}
      BY <1>5, <3>1, <3>2, ReachNone
    <3>4. \A x \in Entries : \A w : ~Sets(fats[1], todo[1], x, w)
      BY <3>1 DEF Sets
    <3>5. \A x \in Entries : ~Holds(fats[1], todo[1], x)
      BY <1>5, <3>1, <3>3, <3>4 DEF Holds, Changes, Enters
    <3> QED BY <1>5, <1>7, <2>1, <3>1, <3>4, <3>5, OwnPop DEF Sound, Whole
  <2>5. Spared(fats[1], data, todo', ret)
    BY <1>7, <2>1, OthersPopped DEF Spared
  <2> QED BY <1>2, <2>2, <2>3, <2>4, <2>5 DEF Stays
<1> QED BY <1>8, <1>9

\* The steps of create_file,
LEMMA SoundCreate ==
  ASSUME Sound, Create
  PROVE  Stays
<1> DEFINE p == Args[1]
           d == Args[2]
           one == <<CreateAt(p, d)>>
           two == <<delete_file(p), CreateAt(p, d)>>
           cs == IF Find(p) = NotFound THEN one ELSE two
<1>1. Running("create_file") /\ Does(cs)
  BY DEF Create
<1>2. Becomes(cs) /\ fats' = fats /\ data' = data /\ ret' = ret
  BY <1>1, Same
<1>3. IsOne(one, CreateAt(p, d)) /\ IsTwo(two, delete_file(p), CreateAt(p, d))
  BY Tuples
<1> HIDE DEF one, two
<1>4. cs \in Seq(Range(cs))
  BY <1>3 DEF IsOne, IsTwo
<1>5. todo[1].args[1] = p /\ todo[1].args[2] = d
  BY <1>1, Runs
<1> HIDE DEF p, d
<1>6. \/ Find(p) = NotFound /\ IsOne(cs, CreateAt(p, d))
      \/ Find(p) # NotFound /\ IsTwo(cs, delete_file(p), CreateAt(p, d))
  BY <1>3
<1> HIDE DEF cs
<1>7. Moves(todo', todo, "create_file", cs)
  BY <1>1, <1>2, <1>4, Runs
<1>8. Good(fats[1], data, todo', ret)
  BY <1>5, <1>6, <1>7, Created DEF Sound
<1>9. Clean => TidyTree(fats[1], data, todo')
  BY <1>5, <1>6, <1>7, TidyCreated DEF Sound, Clean
<1>10. Whole => OwnTree(fats[1], data, todo', ret)
  <2>1. Silent(todo[1])
    BY <1>1, Runs DEF Silent
  <2>2. \A j \in 1..Len(cs) : cs[j].f \in {"delete_file", "find_new"}
    BY <1>6, CallsAre DEF IsOne, IsTwo
  <2>3. \A j \in 1..Len(cs) : Silent(cs[j]) /\ cs[j].f \notin {"extend_file", "new_entry", "entry_in_new"}
    BY <2>2 DEF Silent
  <2> QED BY <1>7, <2>1, <2>3, WholeSilent
<1>11. Spared(fats[1], data, todo', ret)
  BY <1>5, <1>6, <1>7, OthersCreated DEF Spared
<1> QED BY <1>2, <1>8, <1>9, <1>10, <1>11 DEF Stays

\* the search for a place,
LEMMA SoundFindNew ==
  ASSUME Sound, FindNew
  PROVE  Stays
<1> DEFINE p == Args[1]
           d == Args[2]
           c == file_path_destination(Front(p))
           loc == UnusedAt(c)
           one == <<PlaceAt(loc, p, d)>>
           two == <<extend_file(c), PlaceInNew(p, d)>>
           cs == IF c = -1 THEN <<>> ELSE IF loc # NotFound THEN one ELSE two
<1>1. Running("find_new") /\ Does(cs)
  BY DEF FindNew, UnusedAt
<1>2. Becomes(cs) /\ fats' = fats /\ data' = data /\ ret' = ret
  BY <1>1, Same
<1>3. IsNone(<<>>) /\ IsOne(one, PlaceAt(loc, p, d)) /\ IsTwo(two, extend_file(c), PlaceInNew(p, d))
  BY Tuples
<1> HIDE DEF one, two
<1>4. cs \in Seq(Range(cs))
  BY <1>3 DEF IsNone, IsOne, IsTwo
<1>5. todo[1].args[1] = p /\ todo[1].args[2] = d /\ c = file_path_destination(Front(p))
  BY <1>1, Runs
<1>0. c = file_path_destination(Front(p)) /\ p \in Paths
  BY <1>1, <1>5, Runs DEF CallSound, CreateAtOK
<1> HIDE DEF p, d, c
<1>6. \/ c = -1 /\ IsNone(cs)
      \/ c # -1 /\ UnusedAt(c) # NotFound /\ IsOne(cs, PlaceAt(UnusedAt(c), p, d))
      \/ c # -1 /\ IsTwo(cs, extend_file(c), PlaceInNew(p, d))
  BY <1>3
<1> HIDE DEF cs
<1>7. Moves(todo', todo, "find_new", cs)
  BY <1>1, <1>2, <1>4, Runs
<1>8. Good(fats[1], data, todo', ret)
  BY <1>5, <1>6, <1>7, NewPlace DEF Sound
<1>9. Clean => TidyTree(fats[1], data, todo')
  BY <1>5, <1>6, <1>7, TidyPlaced DEF Sound, Clean
<1>10. Whole => OwnTree(fats[1], data, todo', ret)
  BY <1>0, <1>6, <1>7, OwnPlaced DEF Sound, Whole
<1>11. Spared(fats[1], data, todo', ret)
  BY <1>0, <1>5, <1>6, <1>7, OthersPlaced DEF Sound, Spared
<1> QED BY <1>2, <1>8, <1>9, <1>10, <1>11 DEF Stays

\* the place in a new cluster
LEMMA SoundEntryInNew ==
  ASSUME Sound, EntryInNew
  PROVE  Stays
<1> DEFINE p == Args[1]
           d == Args[2]
           one == <<PlaceAt([cluster |-> ret, slot |-> 1], p, d)>>
           cs == IF ret = 1 THEN <<>> ELSE one
<1>1. Running("entry_in_new") /\ Does(cs)
  BY DEF EntryInNew
<1>2. Becomes(cs) /\ fats' = fats /\ data' = data /\ ret' = ret
  BY <1>1, Same
<1>3. IsNone(<<>>) /\ IsOne(one, PlaceAt([cluster |-> ret, slot |-> 1], p, d))
  BY Tuples
<1> HIDE DEF one
<1>4. cs \in Seq(Range(cs))
  BY <1>3 DEF IsNone, IsOne
<1>5. todo[1].args[1] = p /\ todo[1].args[2] = d
  BY <1>1, Runs
<1> HIDE DEF p, d
<1>6. \/ ret = 1 /\ IsNone(cs)
      \/ ret # 1 /\ IsOne(cs, PlaceAt([cluster |-> ret, slot |-> 1], p, d))
  BY <1>3
<1> HIDE DEF cs
<1>7. Moves(todo', todo, "entry_in_new", cs)
  BY <1>1, <1>2, <1>4, Runs
<1>8. Good(fats[1], data, todo', ret)
  BY <1>5, <1>6, <1>7, NewTaken DEF Sound
<1>9. Clean => TidyTree(fats[1], data, todo')
  BY <1>5, <1>6, <1>7, TidyTaken DEF Sound, Clean
<1>10. Whole => OwnTree(fats[1], data, todo', ret)
  BY <1>5, <1>6, <1>7, OwnTaken DEF Sound, Whole
<1>11. Spared(fats[1], data, todo', ret)
  BY <1>5, <1>6, <1>7, OthersTaken DEF Spared
<1> QED BY <1>2, <1>8, <1>9, <1>10, <1>11 DEF Stays

\* and the entry.
LEMMA SoundNewEntry ==
  ASSUME Sound, NewEntry
  PROVE  Stays
<1> DEFINE new == get_empty_cluster
           loc == Args[1]
           p == Args[2]
           d == Args[3]
           three == <<WriteData(new, Zero), WithEntry(loc, p, d, new), modify_fat(new, EOC)>>
           cs == IF new = -1 THEN <<>> ELSE three
<1>1. Running("new_entry") /\ Does(cs)
  BY DEF NewEntry
<1>2. Becomes(cs) /\ fats' = fats /\ data' = data /\ ret' = ret
  BY <1>1, Same
<1>3. IsNone(<<>>) /\ IsThree(three, WriteData(new, Zero), WithEntry(loc, p, d, new), modify_fat(new, EOC))
  BY Tuples
<1> HIDE DEF three
<1>4. cs \in Seq(Range(cs))
  BY <1>3 DEF IsNone, IsThree
<1>5. todo[1].args[1] = loc /\ todo[1].args[2] = p /\ todo[1].args[3] = d
  BY <1>1, Runs
<1> HIDE DEF loc, p, d
<1>6. WithEntry(loc, p, d, new) = WriteData(loc.cluster, WithIn(data, loc, p, d, new))
  BY DEF WithEntry, WithIn, RowOf, RowFrom
<1>7. \/ new = -1 /\ IsNone(cs)
      \/ new # -1 /\ IsThree(cs, WriteData(new, Zero), WriteData(loc.cluster, WithIn(data, loc, p, d, new)), modify_fat(new, EOC))
  BY <1>3, <1>6
<1> HIDE DEF cs
<1>8. Moves(todo', todo, "new_entry", cs)
  BY <1>1, <1>2, <1>4, Runs
<1>9. new # -1 => new \in Entries /\ fats[1][new] = 0
  BY EmptyCluster
<1> HIDE DEF new
<1>10. Good(fats[1], data, todo', ret)
  BY <1>5, <1>7, <1>8, <1>9, EntryMade, EntryNotMade DEF Sound
<1>11. Clean => TidyTree(fats[1], data, todo')
  <2>1. CASE new = -1 /\ IsNone(cs)
    <3>1. todo[1].f = "new_entry"
      BY <1>1, Runs
    <3>2. \A y \in Entries : ~Zeroes(todo[1], y)
      BY <3>1 DEF Zeroes
    <3> QED BY <1>8, <2>1, <3>2, TidyPop DEF Sound, Clean
  <2>2. CASE ~(new = -1 /\ IsNone(cs))
    BY <1>5, <1>7, <1>8, <1>9, <2>2, TidyMade DEF Sound, Clean
  <2> QED BY <2>1, <2>2
<1>12. Whole => OwnTree(fats[1], data, todo', ret)
  <2>1. CASE new = -1 /\ IsNone(cs)
    <3>1. Silent(todo[1])
      BY <1>1, Runs DEF Silent
    <3> QED BY <1>8, <2>1, <3>1, NoCalls, WholeSilent
  <2>2. CASE ~(new = -1 /\ IsNone(cs))
    BY <1>5, <1>7, <1>8, <1>9, <2>2, OwnMade DEF Sound, Whole
  <2> QED BY <2>1, <2>2
<1>13. Whole => Spared(fats[1], data, todo', ret)
  <2>1. CASE new = -1 /\ IsNone(cs)
    BY <1>8, <2>1, OthersPopped DEF Spared
  <2>2. CASE ~(new = -1 /\ IsNone(cs))
    BY <1>5, <1>7, <1>8, <1>9, <2>2, OthersMade DEF Sound, Whole, Spared
  <2> QED BY <2>1, <2>2
<1> QED BY <1>2, <1>10, <1>11, <1>12, <1>13 DEF Stays

\* The steps of write_to_file:
LEMMA SoundWriteFile ==
  ASSUME Sound, WriteFile
  PROVE  Stays
<1> DEFINE p == Args[1]
           t == Args[2]
           start == At(Find(p)).cluster
           size == Len(Chain(start))
           end == <<modify_fat(LastOf(start), EOC), Fill(start, 1, t)>>
           more == <<extend_file(start), Grow(Len(t) - size - 1, t, start)>>
           fit == <<Fill(start, 1, t)>>
           cs == IF Find(p) = NotFound THEN <<>>
                 ELSE IF size > Len(t) THEN end
                 ELSE IF size < Len(t) THEN more
                 ELSE fit
<1>1. Running("write_to_file") /\ Does(cs)
  BY DEF WriteFile
<1>2. Becomes(cs) /\ fats' = fats /\ data' = data /\ ret' = ret
  BY <1>1, Same
<1>3. /\ IsNone(<<>>) /\ IsTwo(end, modify_fat(LastOf(start), EOC), Fill(start, 1, t))
      /\ IsTwo(more, extend_file(start), Grow(Len(t) - size - 1, t, start)) /\ IsOne(fit, Fill(start, 1, t))
  BY Tuples
<1> HIDE DEF end, more, fit
<1>4. cs \in Seq(Range(cs))
  BY <1>3 DEF IsNone, IsOne, IsTwo
<1>5. todo[1].args[1] = p /\ todo[1].args[2] = t
  BY <1>1, Runs
<1> HIDE DEF p, t
<1>6. start = AtIn(data, Find(p)).cluster /\ size = Len(Chain(start))
  BY AtIs
<1> HIDE DEF start, size
<1>7. \/ Find(p) = NotFound /\ IsNone(cs)
      \/ Find(p) # NotFound /\ IsTwo(cs, modify_fat(LastOf(start), EOC), Fill(start, 1, t))
      \/ Find(p) # NotFound /\ size < Len(t) /\ IsTwo(cs, extend_file(start), Grow(Len(t) - size - 1, t, start))
      \/ Find(p) # NotFound /\ IsOne(cs, Fill(start, 1, t))
  BY <1>3
<1> HIDE DEF cs
<1>8. Moves(todo', todo, "write_to_file", cs)
  BY <1>1, <1>2, <1>4, Runs
<1>9. Good(fats[1], data, todo', ret)
  BY <1>5, <1>6, <1>7, <1>8, TextToWrite DEF Sound
<1>10. Clean => TidyTree(fats[1], data, todo')
  <2> SUFFICES ASSUME Clean PROVE TidyTree(fats[1], data, todo')
    OBVIOUS
  <2>1. todo[1].f = "write_to_file" /\ 1 \in 1..Len(todo)
    BY <1>1, Runs
  <2>2. CASE Find(p) = NotFound /\ IsNone(cs)
    <3>1. \A y \in Entries : ~Zeroes(todo[1], y)
      BY <2>1 DEF Zeroes
    <3> QED BY <1>8, <2>2, <3>1, TidyPop DEF Sound, Clean
  <2>3. CASE Find(p) # NotFound
    <3>1. p \in AllPaths /\ Last(p) # "kernel"
      <4>1. CallSound(fats[1], data, todo, ret, 1)
        BY <1>1, Runs
      <4>2. p \in Paths
        BY <1>5, <2>1, <4>1 DEF CallSound
      <4> QED BY <4>2, PathParts
    <3>2. Target(fats[1], data, p, Find(p))
      BY <2>3, <3>1, TargetIs, GoodFacts DEF Sound
    <3>3. start \in Entries => InFile(fats[1], data, start)
      BY <1>5, <1>6, <2>1, <3>2, FileFound DEF Sound, Clean
    <3>4. extend_file(start).f = "extend_file" /\ modify_fat(LastOf(start), EOC).f = "modify_fat"
          /\ modify_fat(LastOf(start), EOC).args[2] = EOC
      BY CallsAre
    <3>5. Fill(start, 1, t).f = "fill" /\ Fill(start, 1, t).args[1] = start
      BY CallsAre
    <3>6. Grow(Len(t) - size - 1, t, start).f = "grow" /\ Grow(Len(t) - size - 1, t, start).args[3] = start
      BY CallsAre
    <3> QED BY <1>7, <1>8, <2>3, <3>3, <3>4, <3>5, <3>6, TidyWriting DEF Sound, Clean
  <2> QED BY <1>7, <2>2, <2>3
<1>11. Whole => OwnTree(fats[1], data, todo', ret)
  <2> DEFINE n == Len(t) - size - 1
  <2>1. \/ Find(p) = NotFound /\ IsNone(cs)
        \/ Find(p) # NotFound /\ IsTwo(cs, modify_fat(LastOf(start), EOC), Fill(start, 1, t))
        \/ Find(p) # NotFound /\ IsTwo(cs, extend_file(start), Grow(n, t, start))
        \/ Find(p) # NotFound /\ IsOne(cs, Fill(start, 1, t))
    BY <1>7
  <2> HIDE DEF n
  <2> QED BY <1>5, <1>6, <1>8, <2>1, OwnTexts DEF Sound, Whole
<1>12. Spared(fats[1], data, todo', ret)
  <2> DEFINE n == Len(t) - size - 1
  <2>1. \/ Find(p) = NotFound /\ IsNone(cs)
        \/ Find(p) # NotFound /\ IsTwo(cs, modify_fat(LastOf(start), EOC), Fill(start, 1, t))
        \/ Find(p) # NotFound /\ IsTwo(cs, extend_file(start), Grow(n, t, start))
        \/ Find(p) # NotFound /\ IsOne(cs, Fill(start, 1, t))
    BY <1>7
  <2> HIDE DEF n
  <2> QED BY <1>5, <1>6, <1>8, <2>1, OthersTexts DEF Sound, Spared
<1> QED BY <1>2, <1>9, <1>10, <1>11, <1>12 DEF Stays

\* the longer chain
LEMMA SoundGrow ==
  ASSUME Sound, GrowStep
  PROVE  Stays
<1> DEFINE n == Args[1]
           t == Args[2]
           c == Args[3]
           more == <<extend_file(ret), Grow(n - 1, t, c)>>
           fit == <<Fill(c, 1, t)>>
           cs == IF n > 0 THEN more ELSE IF ret = 1 THEN <<>> ELSE fit
<1>1. Running("grow") /\ Does(cs)
  BY DEF GrowStep
<1>2. Becomes(cs) /\ fats' = fats /\ data' = data /\ ret' = ret
  BY <1>1, Same
<1>3. IsNone(<<>>) /\ IsTwo(more, extend_file(ret), Grow(n - 1, t, c)) /\ IsOne(fit, Fill(c, 1, t))
  BY Tuples
<1> HIDE DEF more, fit
<1>4. cs \in Seq(Range(cs))
  BY <1>3 DEF IsNone, IsOne, IsTwo
<1>5. todo[1].args[1] = n /\ todo[1].args[2] = t /\ todo[1].args[3] = c
  BY <1>1, Runs
<1> HIDE DEF n, t, c
<1>6. \/ n > 0 /\ IsTwo(cs, extend_file(ret), Grow(n - 1, t, c))
      \/ IsNone(cs)
      \/ IsOne(cs, Fill(c, 1, t))
  BY <1>3
<1> HIDE DEF cs
<1>7. Moves(todo', todo, "grow", cs)
  BY <1>1, <1>2, <1>4, Runs
<1>8. Good(fats[1], data, todo', ret)
  BY <1>5, <1>6, <1>7, Grown DEF Sound
<1>9. Clean => TidyTree(fats[1], data, todo')
  <2> SUFFICES ASSUME Clean PROVE TidyTree(fats[1], data, todo')
    OBVIOUS
  <2>1. todo[1].f = "grow" /\ 1 \in 1..Len(todo)
    BY <1>1, Runs
  <2>2. TidyCall(fats[1], data, todo, 1)
    BY <2>1, TidyFacts DEF Clean
  <2>3. c \in Entries => InFile(fats[1], data, c)
    BY <1>5, <2>1, <2>2 DEF TidyCall, TidyText
  <2>4. extend_file(ret).f = "extend_file" /\ Fill(c, 1, t).f = "fill" /\ Fill(c, 1, t).args[1] = c
    BY CallsAre
  <2>5. Grow(n - 1, t, c).f = "grow" /\ Grow(n - 1, t, c).args[3] = c
    BY CallsAre
  <2> QED BY <1>6, <1>7, <2>3, <2>4, <2>5, TidyWriting DEF Sound, Clean
<1>10. Whole => OwnTree(fats[1], data, todo', ret)
  <2> DEFINE m == n - 1
  <2>1. \/ IsTwo(cs, extend_file(ret), Grow(m, t, c))
        \/ IsNone(cs)
        \/ IsOne(cs, Fill(c, 1, t))
    BY <1>6
  <2> HIDE DEF m
  <2> QED BY <1>7, <2>1, OwnGrown DEF Sound, Whole
<1>11. Spared(fats[1], data, todo', ret)
  <2> DEFINE m == n - 1
  <2>1. \/ IsTwo(cs, extend_file(ret), Grow(m, t, c))
        \/ IsNone(cs)
        \/ IsOne(cs, Fill(c, 1, t))
    BY <1>6
  <2> HIDE DEF m
  <2> QED BY <1>5, <1>7, <2>1, OthersGrown DEF Spared
<1> QED BY <1>2, <1>8, <1>9, <1>10, <1>11 DEF Stays

\* and the text.
LEMMA SoundFill ==
  ASSUME Sound, FillStep
  PROVE  Stays
<1> DEFINE c == Args[1]
           i == Args[2]
           t == Args[3]
           two == <<WriteData(c, t[i]), Fill(get_from_fat(c), i + 1, t)>>
           cs == IF i > Len(t) THEN <<>> ELSE two
<1>1. Running("fill") /\ Does(cs)
  BY DEF FillStep
<1>2. Becomes(cs) /\ fats' = fats /\ data' = data /\ ret' = ret
  BY <1>1, Same
<1>3. IsNone(<<>>) /\ IsTwo(two, WriteData(c, t[i]), Fill(EntryIn(fats[1], c), i + 1, t))
  BY Tuples DEF get_from_fat
<1> HIDE DEF two
<1>4. cs \in Seq(Range(cs))
  BY <1>3 DEF IsNone, IsTwo
<1>5. todo[1].args[1] = c /\ todo[1].args[2] = i /\ todo[1].args[3] = t
  BY <1>1, Runs
<1> HIDE DEF c, i, t
<1>6. \/ IsNone(cs)
      \/ ~(i > Len(t)) /\ IsTwo(cs, WriteData(c, t[i]), Fill(EntryIn(fats[1], c), i + 1, t))
  BY <1>3
<1> HIDE DEF cs
<1>7. Moves(todo', todo, "fill", cs)
  BY <1>1, <1>2, <1>4, Runs
<1>8. Good(fats[1], data, todo', ret)
  BY <1>5, <1>6, <1>7, Filled DEF Sound
<1>9. Clean => TidyTree(fats[1], data, todo')
  <2>1. todo[1].f = "fill" /\ CallSound(fats[1], data, todo, ret, 1)
    BY <1>1, Runs
  <2>2. CASE IsNone(cs)
    <3>1. \A y \in Entries : ~Zeroes(todo[1], y)
      BY <2>1 DEF Zeroes
    <3> QED BY <1>7, <2>2, <3>1, TidyPop DEF Sound, Clean
  <2>3. CASE ~(i > Len(t)) /\ IsTwo(cs, WriteData(c, t[i]), Fill(EntryIn(fats[1], c), i + 1, t))
    <3>1. t[i] \in Pieces
      <4>1. i \in Nat \ {0} /\ t \in Texts
        BY <1>5, <2>1 DEF CallSound
      <4>2. t \in Seq(Pieces)
        BY <4>1, TextAssumption
      <4> QED BY <2>3, <4>1, <4>2
    <3> QED BY <1>5, <1>7, <2>3, <3>1, TidyFilled DEF Sound, Clean
  <2> QED BY <1>6, <2>2, <2>3
<1>10. Clean /\ Whole => OwnTree(fats[1], data, todo', ret)
  <2>1. todo[1].f = "fill" /\ CallSound(fats[1], data, todo, ret, 1)
    BY <1>1, Runs
  <2>2. CASE IsNone(cs)
    <3>1. Silent(todo[1])
      BY <2>1 DEF Silent
    <3> QED BY <1>7, <2>2, <3>1, NoCalls, WholeSilent
  <2>3. CASE ~(i > Len(t)) /\ IsTwo(cs, WriteData(c, t[i]), Fill(EntryIn(fats[1], c), i + 1, t))
    <3>1. t[i] \in Pieces
      <4>1. i \in Nat \ {0} /\ t \in Texts
        BY <1>5, <2>1 DEF CallSound
      <4>2. t \in Seq(Pieces)
        BY <4>1, TextAssumption
      <4> QED BY <2>3, <4>1, <4>2
    <3> DEFINE x == t[i]
               e == EntryIn(fats[1], c)
               k == i + 1
    <3>2. x \in Pieces /\ IsTwo(cs, WriteData(c, x), Fill(e, k, t))
      BY <2>3, <3>1
    <3> HIDE DEF x, e, k
    <3> QED BY <1>5, <1>7, <3>2, OwnFilled DEF Sound, Clean, Whole
  <2> QED BY <1>6, <2>2, <2>3
<1>11. Clean => Spared(fats[1], data, todo', ret)
  <2>1. todo[1].f = "fill" /\ CallSound(fats[1], data, todo, ret, 1)
    BY <1>1, Runs
  <2>2. CASE IsNone(cs)
    BY <1>7, <2>2, OthersPopped DEF Spared
  <2>3. CASE ~(i > Len(t)) /\ IsTwo(cs, WriteData(c, t[i]), Fill(EntryIn(fats[1], c), i + 1, t))
    <3>1. t[i] \in Pieces
      <4>1. i \in Nat \ {0} /\ t \in Texts
        BY <1>5, <2>1 DEF CallSound
      <4>2. t \in Seq(Pieces)
        BY <4>1, TextAssumption
      <4> QED BY <2>3, <4>1, <4>2
    <3> DEFINE x == t[i]
               e == EntryIn(fats[1], c)
               k == i + 1
    <3>2. x \in Pieces /\ IsTwo(cs, WriteData(c, x), Fill(e, k, t)) /\ e = EntryIn(fats[1], c)
      BY <2>3, <3>1
    <3> HIDE DEF x, e, k
    <3> QED BY <1>5, <1>7, <3>2, OthersFilled DEF Sound, Clean, Spared
  <2> QED BY <1>6, <2>2, <2>3
<1> QED BY <1>2, <1>8, <1>9, <1>10, <1>11 DEF Stays

\* The look at the tree.
LEMMA SoundLook ==
  ASSUME Sound, DoLook
  PROVE  Stays
<1>1. Running("look") /\ Does(<<>>)
  BY DEF DoLook
<1>2. Becomes(<<>>) /\ fats' = fats /\ data' = data /\ ret' = ret
  BY <1>1, Same
<1>3. IsNone(<<>>) /\ Moves(todo', todo, "look", <<>>)
  BY <1>1, <1>2, Runs, Tuples DEF IsNone
<1>4. Good(fats[1], data, todo', ret)
  BY <1>3, Looked DEF Sound
<1>5. Clean => TidyTree(fats[1], data, todo')
  <2>1. todo[1].f = "look"
    BY <1>1, Runs
  <2>2. \A y \in Entries : ~Zeroes(todo[1], y)
    BY <2>1 DEF Zeroes
  <2> QED BY <1>3, <2>2, TidyPop DEF Sound, Clean
<1>6. Whole => OwnTree(fats[1], data, todo', ret)
  <2>1. Silent(todo[1])
    BY <1>1, Runs DEF Silent
  <2> QED BY <1>3, <2>1, NoCalls, WholeSilent
<1>7. todo[1].f = "look"
  BY <1>1, Runs
<1> QED BY <1>2, <1>4, <1>5, <1>6, <1>7 DEF Stays

-----------------------------------------------------------------------------
(* The commands *)

\* When no command runs there are no debts: a command begins with none.
LEMMA Begun ==
  ASSUME Sound, Idle, NEW td2, td2 \in Seq(Range(td2)),
         AllSound(fats[1], data, td2, ret)
  PROVE  Good(fats[1], data, td2, ret)
<1>1. DiskSound(fats[1], data) /\ Debts(fats[1], data, todo) /\ ret \in Entries \cup {0, 1}
  BY GoodFacts DEF Sound
<1>2. \A l \in UsedIn(data) : ~Paid(fats[1], data, todo, l)
  BY DEF Paid, Idle
<1>3. Debts(fats[1], data, td2)
  BY <1>1, <1>2 DEF Debts
<1> QED BY <1>1, <1>3 DEF Good

\* A save begins with the making of the file.
LEMMA MakesIt ==
  ASSUME NEW t, NEW p, t = create_file(p, FALSE)
  PROVE  MakesFile(t, p)
BY DEF create_file, Call, MakesFile

\* Nor is there a cluster to be cleared.
LEMMA BegunTidy ==
  ASSUME Clean, Idle, NEW td2, AllTidy(fats[1], data, td2)
  PROVE  TidyTree(fats[1], data, td2)
<1>1. Tidied(fats[1], data, todo)
  BY TidyFacts DEF Clean
<1>2. \A x : ~Clears(todo, x)
  BY DEF Clears, Idle
<1> QED BY <1>1, <1>2 DEF Tidied, TidyTree

\* Nor does anything belong to a call.
LEMMA BegunWhole ==
  ASSUME Whole, Idle, NEW td2,
         \A i \in 1..Len(td2) : td2[i].f \in {"create_file", "delete_file", "write_to_file", "look"}
  PROVE  OwnTree(fats[1], data, td2, ret)
BY BegunOwn DEF Whole, Idle

\* The last call of a command.
LEMMA LookSound ==
  ASSUME NEW fat, NEW dat, NEW td, NEW rt, NEW i, td[i] = Look, Len(td) = i, i \in Nat
  PROVE  CallSound(fat, dat, td, rt, i)
<1>1. td[i].f = "look"
  BY CallsAre
<1>2. Rest(td, i)
  BY DEF Rest
<1> QED BY <1>1, <1>2 DEF CallSound

\* The first call of touch, mkdir and save.
LEMMA CreateFirst ==
  ASSUME NEW fat, NEW dat, NEW td, NEW rt, NEW p \in Paths, NEW d \in BOOLEAN, td[1] = create_file(p, d),
         \A j \in 1+1..Len(td) : td[j].f \in {"write_to_file", "look"}
  PROVE  CallSound(fat, dat, td, rt, 1)
<1>1. td[1].f = "create_file" /\ td[1].args[1] = p /\ td[1].args[2] = d
  BY CallsAre
<1> QED BY <1>1 DEF CallSound, Rest

\* A command begins.
LEMMA SoundStart ==
  ASSUME Sound, Command
  PROVE  Stays
<1>1. PICK p \in Paths : \/ cmd_touch(p) \/ cmd_mkdir(p) \/ cmd_rm(p) \/ cmd_rm_r(p)
                         \/ \E t \in Texts : write_editor_buffer(p, t)
  BY DEF Command
<1>2. Look.f = "look"
  BY CallsAre
<1>3. ASSUME NEW name, NEW t, NEW cs, NEW d \in BOOLEAN, cs = <<create_file(p, d), Look>>, Start(name, p, t, cs)
      PROVE  Stays
  <2>1. Idle /\ todo' = cs /\ fats' = fats /\ data' = data /\ ret' = ret
    BY <1>3 DEF Start
  <2>2. IsTwo(cs, create_file(p, d), Look)
    BY <1>3, Tuples
  <2>3. cs \in Seq(Range(cs)) /\ Len(cs) = 2 /\ cs[1] = create_file(p, d) /\ cs[2] = Look
    BY <2>2 DEF IsTwo
  <2>4. 2 \in Nat /\ (\A j \in 1+1..Len(cs) : j = 2) /\ \A j \in 1..Len(cs) : j = 1 \/ j = 2
    BY <2>3
  <2>5. CallSound(fats[1], data, cs, ret, 1) /\ CallSound(fats[1], data, cs, ret, 2)
    BY <1>2, <2>3, <2>4, CreateFirst, LookSound
  <2>6. AllSound(fats[1], data, cs, ret)
    BY <2>4, <2>5 DEF AllSound
  <2>7. Good(fats[1], data, cs, ret)
    BY <2>1, <2>3, <2>6, Begun
  <2>8. Clean => TidyTree(fats[1], data, cs)
    <3>1. cs[1].f = "create_file" /\ cs[2].f = "look"
      BY <1>2, <2>3, CallsAre
    <3>2. AllTidy(fats[1], data, cs)
      BY <2>4, <3>1, TidyPlain DEF AllTidy
    <3> QED BY <2>1, <3>2, BegunTidy
  <2>9. Whole => OwnTree(fats[1], data, cs, ret)
    <3>1. cs[1].f = "create_file" /\ cs[2].f = "look"
      BY <1>2, <2>3, CallsAre
    <3> QED BY <2>1, <2>4, <3>1, BegunWhole
  <2> QED BY <2>1, <2>7, <2>8, <2>9 DEF Stays, Idle
<1>4. ASSUME NEW name, NEW t, NEW cs, cs = <<delete_file(p), Look>>, Start(name, p, t, cs)
      PROVE  Stays
  <2>1. Idle /\ todo' = cs /\ fats' = fats /\ data' = data /\ ret' = ret
    BY <1>4 DEF Start
  <2>2. IsTwo(cs, delete_file(p), Look)
    BY <1>4, Tuples
  <2>3. cs \in Seq(Range(cs)) /\ Len(cs) = 2 /\ cs[1] = delete_file(p) /\ cs[2] = Look
    BY <2>2 DEF IsTwo
  <2>4. 2 \in Nat /\ \A j \in 1..Len(cs) : j = 1 \/ j = 2
    BY <2>3
  <2>5. CallSound(fats[1], data, cs, ret, 1)
    <3>1. cs[1].f = "delete_file" /\ cs[1].args[1] = p
      BY <2>3, CallsAre
    <3>2. p \in AllPaths /\ Last(p) # "kernel"
      BY PathParts
    <3> QED BY <3>1, <3>2 DEF CallSound
  <2>6. CallSound(fats[1], data, cs, ret, 2)
    BY <2>3, <2>4, LookSound
  <2>7. AllSound(fats[1], data, cs, ret)
    BY <2>4, <2>5, <2>6 DEF AllSound
  <2>8. Good(fats[1], data, cs, ret)
    BY <2>1, <2>3, <2>7, Begun
  <2>9. Clean => TidyTree(fats[1], data, cs)
    <3>1. cs[1].f = "delete_file" /\ cs[2].f = "look"
      BY <1>2, <2>3, CallsAre
    <3>2. AllTidy(fats[1], data, cs)
      BY <2>4, <3>1, TidyPlain DEF AllTidy
    <3> QED BY <2>1, <3>2, BegunTidy
  <2>10. Whole => OwnTree(fats[1], data, cs, ret)
    <3>1. cs[1].f = "delete_file" /\ cs[2].f = "look"
      BY <1>2, <2>3, CallsAre
    <3> QED BY <2>1, <2>4, <3>1, BegunWhole
  <2> QED BY <2>1, <2>8, <2>9, <2>10 DEF Stays, Idle
<1>5. ASSUME NEW name, NEW t, NEW cs, cs = <<Look>>, Start(name, p, t, cs)
      PROVE  Stays
  <2>1. Idle /\ todo' = cs /\ fats' = fats /\ data' = data /\ ret' = ret
    BY <1>5 DEF Start
  <2>2. IsOne(cs, Look)
    BY <1>5, Tuples
  <2>3. cs \in Seq(Range(cs)) /\ Len(cs) = 1 /\ cs[1] = Look
    BY <2>2 DEF IsOne
  <2>4. 1 \in Nat /\ \A j \in 1..Len(cs) : j = 1
    BY <2>3
  <2>5. CallSound(fats[1], data, cs, ret, 1)
    BY <2>3, <2>4, LookSound
  <2>6. AllSound(fats[1], data, cs, ret)
    BY <2>4, <2>5 DEF AllSound
  <2>7. Good(fats[1], data, cs, ret)
    BY <2>1, <2>3, <2>6, Begun
  <2>8. Clean => TidyTree(fats[1], data, cs)
    <3>1. AllTidy(fats[1], data, cs)
      BY <1>2, <2>3, <2>4, TidyPlain DEF AllTidy
    <3> QED BY <2>1, <3>1, BegunTidy
  <2>9. Whole => OwnTree(fats[1], data, cs, ret)
    BY <1>2, <2>1, <2>3, <2>4, BegunWhole
  <2> QED BY <2>1, <2>7, <2>8, <2>9 DEF Stays, Idle
<1>6. ASSUME NEW t \in Texts, write_editor_buffer(p, t)
      PROVE  Stays
  <2> DEFINE cs == <<create_file(p, FALSE), write_to_file(p, t), Look>>
  <2>1. Idle /\ todo' = cs /\ fats' = fats /\ data' = data /\ ret' = ret
    BY <1>6 DEF write_editor_buffer, Start
  <2>2. IsThree(cs, create_file(p, FALSE), write_to_file(p, t), Look)
    BY Tuples
  <2> HIDE DEF cs
  <2>3. cs \in Seq(Range(cs)) /\ Len(cs) = 3 /\ cs[1] = create_file(p, FALSE) /\ cs[2] = write_to_file(p, t) /\ cs[3] = Look
    BY <2>2 DEF IsThree
  <2>4. /\ 3 \in Nat /\ (\A j \in 1+1..Len(cs) : j = 2 \/ j = 3) /\ (\A j \in 2+1..Len(cs) : j = 3)
        /\ \A j \in 1..Len(cs) : j = 1 \/ j = 2 \/ j = 3
    BY <2>3
  <2>5. cs[2].f = "write_to_file" /\ cs[2].args[1] = p /\ cs[2].args[2] = t
    BY <2>3, CallsAre
  <2>6. CallSound(fats[1], data, cs, ret, 1)
    <3>1. FALSE \in BOOLEAN /\ \A j \in 1+1..Len(cs) : cs[j].f \in {"write_to_file", "look"}
      BY <1>2, <2>3, <2>4, <2>5
    <3> QED BY <2>3, <3>1, CreateFirst
  <2>7. CallSound(fats[1], data, cs, ret, 2)
    <3>1. Rest(cs, 2)
      BY <1>2, <2>3, <2>4 DEF Rest
    <3> QED BY <2>5, <3>1 DEF CallSound
  <2>8. CallSound(fats[1], data, cs, ret, 3)
    BY <2>3, <2>4, LookSound
  <2>9. AllSound(fats[1], data, cs, ret)
    BY <2>4, <2>6, <2>7, <2>8 DEF AllSound
  <2>10. Good(fats[1], data, cs, ret)
    BY <2>1, <2>3, <2>9, Begun
  <2>11. Clean => TidyTree(fats[1], data, cs)
    <3>1. cs[3].f = "look"
      BY <1>2, <2>3
    <3>2. MakesFile(cs[1], p) /\ cs[1].f \in {"create_file", "find_new"}
      BY <2>3, MakesIt DEF MakesFile
    <3>3. 1 \in 1..2-1
      OBVIOUS
    <3>4. TidySave(fats[1], data, cs, 2)
      BY <2>5, <3>2, <3>3 DEF TidySave
    <3>5. TidyCall(fats[1], data, cs, 2)
      BY <2>5, <3>4 DEF TidyCall
    <3>6. AllTidy(fats[1], data, cs)
      BY <2>4, <3>1, <3>2, <3>5, TidyPlain DEF AllTidy
    <3> QED BY <2>1, <3>6, BegunTidy
  <2>12. Whole => OwnTree(fats[1], data, cs, ret)
    <3>1. cs[1].f = "create_file" /\ cs[2].f = "write_to_file" /\ cs[3].f = "look"
      BY <1>2, <2>3, <2>5 DEF create_file, Call
    <3> QED BY <2>1, <2>4, <3>1, BegunWhole
  <2> QED BY <2>1, <2>10, <2>11, <2>12 DEF Stays, Idle
<1>7. CASE cmd_touch(p)
  BY <1>3, <1>7 DEF cmd_touch
<1>8. CASE cmd_mkdir(p)
  BY <1>3, <1>8 DEF cmd_mkdir
<1>9. CASE cmd_rm_r(p)
  BY <1>4, <1>9 DEF cmd_rm_r
<1>10. CASE cmd_rm(p)
  <2>1. CASE IsDirectory(p)
    <3>1. \E name, t : Start(name, p, t, <<Look>>)
      BY <1>10, <2>1 DEF cmd_rm
    <3> QED BY <1>5, <3>1
  <2>2. CASE ~IsDirectory(p)
    <3>1. \E name, t : Start(name, p, t, <<delete_file(p), Look>>)
      BY <1>10, <2>2 DEF cmd_rm
    <3> QED BY <1>4, <3>1
  <2> QED BY <2>1, <2>2
<1> QED BY <1>1, <1>6, <1>7, <1>8, <1>9, <1>10

-----------------------------------------------------------------------------
(* The disk at first *)

FirstFat == [c \in Entries |-> IF c = Root \/ (Kernel /\ c = Root + 1) THEN EOC ELSE 0]

\* The FAT at first has no links.
LEMMA FirstFatSound ==
  /\ FatSound(FirstFat)
  /\ \A c \in Entries : FirstFat[c] \notin Entries
  /\ FirstFat[Root] # 0
  /\ Kernel => Root + 1 \in Entries \ {Root} /\ FirstFat[Root + 1] # 0
<1>1. Root \in Entries /\ 0 \notin Entries /\ EOC \notin Entries /\ EOC # 0 /\ 0 \in Links /\ EOC \in Links
  BY RootFacts
<1>2. Kernel => Root + 1 \in Entries \ {Root}
  BY FatAssumption DEF Entries, Root
<1>3. FirstFat \in [Entries -> Links] /\ \A c \in Entries : FirstFat[c] \notin Entries
  BY <1>1 DEF FirstFat
<1>4. FirstFat[Root] # 0 /\ (Kernel => FirstFat[Root + 1] # 0)
  BY <1>1, <1>2 DEF FirstFat
<1>5. NoCircle(FirstFat)
  BY <1>3 DEF NoCircle
<1>6. FatSound(FirstFat)
  BY <1>3, <1>4, <1>5 DEF FatSound
<1> QED BY <1>2, <1>3, <1>4, <1>6

\* The kernel's entry and the first rows.
KernelEntry == Entry("kernel", FALSE, Root + 1)
FirstData == [c \in Entries |-> IF Kernel /\ c = Root THEN [Zero EXCEPT ![1] = KernelEntry] ELSE Zero]

\* The rows at first hold at most the kernel's entry.
LEMMA FirstRows ==
  /\ RowsSound(FirstData)
  /\ \A l \in UsedIn(FirstData) : /\ Kernel /\ l = [cluster |-> Root, slot |-> 1]
                                  /\ AtIn(FirstData, l) = KernelEntry
  /\ Kernel => AtIn(FirstData, [cluster |-> Root, slot |-> 1]).name = "kernel"
<1>1. Root \in Entries /\ 1 \in 1..Slots
  BY RootFacts, FatAssumption
<1>2. KernelEntry.name = "kernel" /\ KernelEntry.dir = FALSE /\ KernelEntry.cluster = Root + 1
  BY DEF KernelEntry, Entry
<1>3. Kernel => KernelEntry \in [name : Names \cup Unused \cup {"kernel", "text"}, dir : BOOLEAN, cluster : Links]
  BY FirstFatSound DEF KernelEntry, Entry, Links
<1> DEFINE row == [Zero EXCEPT ![1] = KernelEntry]
<1>4. Zero \in Rows /\ RowFrom(Zero) = Zero /\ TextIsText(Zero) /\ \A s \in 1..Slots : ~InUse(Zero[s])
  BY ZeroIs
<1>5. Kernel => row \in Rows
  BY <1>3, <1>4 DEF Rows
<1>6. \A s \in 1..Slots : row[s] = IF s = 1 THEN KernelEntry ELSE Zero[s]
  BY <1>4 DEF Rows
<1>7. Kernel => RowFrom(row) = row /\ TextIsText(row)
  <2>1. Kernel => RowFrom(row) = row
    BY <1>5, TextAssumption DEF RowFrom
  <2>2. "kernel" # "text"
    OBVIOUS
  <2>3. TextIsText(row)
    BY <1>2, <1>4, <1>6, <2>2 DEF TextIsText
  <2> QED BY <2>1, <2>3
<1> HIDE DEF row
<1>8. \A c \in Entries : FirstData[c] = IF Kernel /\ c = Root THEN row ELSE Zero
  BY <1>1 DEF FirstData, row
<1>9. FirstData \in [Entries -> Rows \cup Pieces]
  <2>1. FirstData = [c \in Entries |-> IF Kernel /\ c = Root THEN row ELSE Zero]
    BY <1>1 DEF FirstData, row
  <2> QED BY <1>4, <1>5, <2>1
<1>10. RowsSound(FirstData)
  BY <1>4, <1>7, <1>8, <1>9 DEF RowsSound
<1>11. ASSUME NEW l \in UsedIn(FirstData)
       PROVE  Kernel /\ l = [cluster |-> Root, slot |-> 1] /\ AtIn(FirstData, l) = KernelEntry
  <2>1. l \in Places /\ l = [cluster |-> l.cluster, slot |-> l.slot] /\ l.cluster \in Entries /\ l.slot \in 1..Slots
        /\ InUse(AtIn(FirstData, l))
    BY PlaceIs DEF UsedIn
  <2>2. AtIn(FirstData, l) = RowFrom(FirstData[l.cluster])[l.slot]
    BY DEF AtIn
  <2>3. Kernel /\ l.cluster = Root
    BY <1>4, <1>8, <2>1, <2>2
  <2>4. AtIn(FirstData, l) = row[l.slot]
    BY <1>7, <1>8, <2>1, <2>2, <2>3
  <2>5. l.slot = 1
    BY <1>4, <1>6, <2>1, <2>4
  <2> QED BY <1>6, <2>1, <2>3, <2>4, <2>5
<1>12. ASSUME Kernel PROVE AtIn(FirstData, [cluster |-> Root, slot |-> 1]).name = "kernel"
  <2>1. AtIn(FirstData, [cluster |-> Root, slot |-> 1]) = RowFrom(FirstData[Root])[1]
    BY DEF AtIn
  <2>2. FirstData[Root] = row
    BY <1>1, <1>8, <1>12
  <2> QED BY <1>1, <1>2, <1>6, <1>7, <1>12, <2>1, <2>2
<1> QED BY <1>10, <1>11, <1>12

\* The disk at first is sound.
LEMMA FirstDisk ==
  DiskSound(FirstFat, FirstData) /\ Debts(FirstFat, FirstData, <<>>)
<1>1. /\ FatSound(FirstFat) /\ FirstFat[Root] # 0
      /\ \A c \in Entries : FirstFat[c] \notin Entries
      /\ Kernel => Root + 1 \in Entries \ {Root} /\ FirstFat[Root + 1] # 0
  BY FirstFatSound
<1>2. /\ RowsSound(FirstData)
      /\ \A l \in UsedIn(FirstData) : /\ Kernel /\ l = [cluster |-> Root, slot |-> 1]
                                      /\ AtIn(FirstData, l) = KernelEntry
      /\ Kernel => AtIn(FirstData, [cluster |-> Root, slot |-> 1]).name = "kernel"
  BY FirstRows
<1>3. KernelEntry.name = "kernel" /\ KernelEntry.dir = FALSE /\ KernelEntry.cluster = Root + 1
  BY DEF KernelEntry, Entry
<1>4. \A l \in UsedIn(FirstData) : l.cluster = Root /\ AtIn(FirstData, l).cluster = Root + 1 /\ AtIn(FirstData, l).cluster \in Entries \ {Root}
  BY <1>1, <1>2, <1>3
<1>5. \A l, m \in UsedIn(FirstData) : l = m
  BY <1>2
<1>6. ASSUME NEW l \in UsedIn(FirstData), NEW m \in UsedIn(FirstData)
      PROVE  m.cluster \notin Reach(FirstFat, AtIn(FirstData, l).cluster)
  <2> DEFINE T == {Root + 1}
  <2>1. Chained(FirstFat)
    BY <1>1, FatIsChained
  <2>2. Closed(FirstFat, T) /\ Root + 1 \in T
    BY <1>1, <1>4 DEF Closed
  <2>3. Root + 1 \in Entries
    BY <1>4
  <2> HIDE DEF T
  <2>4. Reach(FirstFat, Root + 1) \subseteq T
    BY <2>1, <2>2, <2>3, ReachLeast
  <2>5. Root \notin T
    BY DEF T, Root
  <2> QED BY <1>4, <2>4, <2>5
<1>7. HeadsSound(FirstFat, FirstData)
  BY <1>1, <1>4, <1>5, <1>6 DEF HeadsSound
<1>8. NamesSound(FirstFat, FirstData)
  BY <1>2, <1>5 DEF NamesSound
<1>9. Debts(FirstFat, FirstData, <<>>)
  BY <1>1, <1>4, <1>2 DEF Debts
<1> QED BY <1>1, <1>2, <1>7, <1>8, <1>9 DEF DiskSound

\* No text is on the disk at first.
LEMMA FirstTidy ==
  ASSUME NEW c \in Entries
  PROVE  Tidy(FirstData[c])
<1> DEFINE row == [Zero EXCEPT ![1] = KernelEntry]
<1>1. Tidy(Zero) /\ Zero \in Rows /\ RowFrom(Zero) = Zero
  BY TidyRow, ZeroIs
<1>2. \A s \in 1..Slots : Zero[s].name # "text"
  BY <1>1 DEF Tidy
<1>3. KernelEntry.name # "text"
  BY DEF KernelEntry, Entry
<1>4. \A s \in 1..Slots : row[s] = IF s = 1 THEN KernelEntry ELSE Zero[s]
  BY <1>1 DEF Rows
<1>5. Kernel => RowFrom(row) = row
  <2>1. Kernel => KernelEntry \in [name : Names \cup Unused \cup {"kernel", "text"}, dir : BOOLEAN, cluster : Links]
    BY FirstFatSound DEF KernelEntry, Entry, Links
  <2>2. Kernel => row \in Rows
    BY <1>1, <2>1 DEF Rows
  <2> QED BY <2>2, TidyRow
<1> HIDE DEF row
<1>6. Kernel => Tidy(row)
  BY <1>2, <1>3, <1>4, <1>5 DEF Tidy
<1>7. FirstData[c] = IF Kernel /\ c = Root THEN row ELSE Zero
  BY DEF FirstData, row
<1> QED BY <1>1, <1>6, <1>7

\* Each cluster in use belongs to the root or to the kernel.
LEMMA FirstOwn ==
  OwnTree(FirstFat, FirstData, <<>>, 0)
<1>1. /\ FatSound(FirstFat) /\ Root \in Entries
      /\ Kernel => Root + 1 \in Entries \ {Root}
  BY FirstFatSound, RootFacts
<1>2. Chained(FirstFat)
  BY <1>1, FatIsChained
<1>3. /\ \A l \in UsedIn(FirstData) : /\ Kernel /\ l = [cluster |-> Root, slot |-> 1]
                                      /\ AtIn(FirstData, l) = KernelEntry
      /\ Kernel => AtIn(FirstData, [cluster |-> Root, slot |-> 1]).name = "kernel"
  BY FirstRows
<1>4. KernelEntry.name = "kernel" /\ KernelEntry.cluster = Root + 1
  BY DEF KernelEntry, Entry
<1>5. Root \in Reach(FirstFat, Root) /\ (Kernel => Root + 1 \in Reach(FirstFat, Root + 1))
  BY <1>1, <1>2, ReachClosed
<1>6. ASSUME Kernel
      PROVE  [cluster |-> Root, slot |-> 1] \in UsedIn(FirstData)
  <2>1. [cluster |-> Root, slot |-> 1] \in Places
    BY <1>1, FatAssumption, PlaceIs
  <2> QED BY <1>3, <1>6, <2>1, KnownFacts DEF UsedIn, InUse
<1>7. ASSUME NEW c \in Entries, Wanted(FirstFat, <<>>, c) PROVE Belongs(FirstFat, FirstData, <<>>, c)
  <2>1. FirstFat[c] # 0
    BY <1>7, NoCalls, Tuples DEF Wanted
  <2>2. c = Root \/ (Kernel /\ c = Root + 1)
    BY <2>1 DEF FirstFat
  <2>3. CASE c = Root
    BY <1>5, <2>3 DEF Belongs, Owned
  <2>4. CASE Kernel /\ c = Root + 1
    <3> DEFINE l == [cluster |-> Root, slot |-> 1]
    <3>1. l \in UsedIn(FirstData)
      BY <1>6, <2>4
    <3>2. AtIn(FirstData, l).cluster = Root + 1
      BY <1>3, <1>4, <3>1
    <3> HIDE DEF l
    <3> QED BY <1>5, <2>4, <3>1, <3>2 DEF Belongs, Owned
  <2> QED BY <2>2, <2>3, <2>4
<1>8. ASSUME NEW l \in UsedIn(FirstData)
      PROVE  \E p \in RootPaths : Last(p) = AtIn(FirstData, l).name /\ On(FirstFat, FirstData, p, l.cluster)
  <2> DEFINE p == <<"kernel">>
             g == [k \in 0..0 |-> Root]
  <2>1. p \in RootPaths
    BY <1>3 DEF RootPaths
  <2>2. Len(p) = 1 /\ p[1] = "kernel" /\ p \in Seq(NamesOf)
    <3>1. "kernel" \in NamesOf
      BY DEF NamesOf, Known
    <3>2. p \in Seq(NamesOf) /\ Len(p) = 1
      BY <3>1
    <3>3. p[1] = "kernel"
      OBVIOUS
    <3> QED BY <3>2, <3>3
  <2>3. Last(p) = "kernel" /\ Len(Front(p)) = 0 /\ Front(p) \in Seq(NamesOf)
    <3> HIDE DEF p
    <3>1. p # <<>>
      BY <2>2
    <3> QED BY <2>2, <3>1, FrontIs
  <2>4. Front(p) = <<>>
    BY <2>3, EmptySeq
  <2>5. IsWay(FirstFat, FirstData, g, Front(p)) /\ g[0] = Root
    BY <2>4, RootWay
  <2>6. l.cluster = Root /\ AtIn(FirstData, l).name = "kernel"
    BY <1>3, <1>4
  <2>7. Len(p) - 1 = 0
    BY <2>2
  <2> HIDE DEF p, g
  <2>8. l.cluster \in Reach(FirstFat, g[Len(p)-1])
    BY <1>5, <2>5, <2>6, <2>7
  <2>9. On(FirstFat, FirstData, p, l.cluster)
    BY <2>1, <2>5, <2>8, OnWay
  <2> QED BY <2>1, <2>3, <2>6, <2>9
<1>9. AllOwned(FirstFat, FirstData, <<>>, 0)
  BY NoCalls, Tuples DEF AllOwned
<1> QED BY <1>7, <1>8, <1>9 DEF OwnTree, AllBelong, Rooted

\* So is the first state.
LEMMA SoundInit ==
  ASSUME Init
  PROVE  Sound /\ Clean /\ Whole
<1>1. fats[1] = FirstFat
  BY TypeFacts DEF Init, FirstFat
<1>2. data = FirstData /\ todo = <<>> /\ ret = 0
  BY DEF Init, FirstData, KernelEntry
<1>3. IsNone(<<>>)
  BY Tuples
<1>4. AllSound(FirstFat, FirstData, <<>>, 0)
  BY <1>3, NoCalls DEF AllSound
<1>5. Sound
  BY <1>1, <1>2, <1>3, <1>4, FirstDisk DEF Sound, Good, IsNone
<1>6. AllTidy(FirstFat, FirstData, <<>>)
  BY <1>3, NoCalls DEF AllTidy
<1>7. Tidied(FirstFat, FirstData, <<>>)
  BY FirstTidy DEF Tidied
<1>8. Whole
  BY <1>1, <1>2, FirstOwn DEF Whole
<1> QED BY <1>1, <1>2, <1>5, <1>6, <1>7, <1>8 DEF Clean, TidyTree

-----------------------------------------------------------------------------
\* As long as the machine has not been switched off, no write was lost, and no
\* cluster behind the partition was handed out.
Ordinary == crashes = 0 /\ lost = 0 /\ ~behind
TreeKept == crashes \in Nat /\ lost \in Nat /\ (Ordinary => Sound /\ Clean /\ Whole /\ Landing)

\* Every step but a crash and a lost write keeps the tree sound.
LEMMA SoundStep ==
  ASSUME IInv, Sound, Landing, Command \/ Step \/ DoLook
  PROVE  Stays
<1>1. CASE DoWriteFat BY <1>1, SoundWriteFat
<1>2. CASE DoWriteData
  BY <1>2, LandWriteData, SoundWriteData
<1>3. CASE DoModifyFat BY <1>3, SoundModifyFat
<1>4. CASE DoReturn BY <1>4, SoundReturn
<1>5. CASE ExtendFails \/ ExtendFull \/ Extend BY <1>5, SoundExtend
<1>6. CASE DeleteMissing BY <1>6, SoundDeleteMissing
<1>7. CASE Delete BY <1>7, SoundDelete
<1>8. CASE DeleteInsideStep BY <1>8, SoundDeleteInside
<1>9. CASE FreeStep BY <1>9, SoundFree
<1>10. CASE Create BY <1>10, SoundCreate
<1>11. CASE FindNew BY <1>11, SoundFindNew
<1>12. CASE EntryInNew BY <1>12, SoundEntryInNew
<1>13. CASE NewEntry BY <1>13, SoundNewEntry
<1>14. CASE WriteFile BY <1>14, SoundWriteFile
<1>15. CASE GrowStep BY <1>15, SoundGrow
<1>16. CASE FillStep BY <1>16, SoundFill
<1>17. CASE DoLook BY <1>17, SoundLook
<1>18. CASE Command BY <1>18, SoundStart
<1>19. CASE Step
  <2>1. CASE DoWriteFat \/ DoWriteData \/ DoModifyFat \/ DoReturn \/ ExtendFails \/ ExtendFull \/ Extend
    BY <1>1, <1>2, <1>3, <1>4, <1>5, <2>1
  <2>2. CASE DeleteMissing \/ Delete \/ DeleteInsideStep \/ FreeStep \/ Create
    BY <1>6, <1>7, <1>8, <1>9, <1>10, <2>2
  <2>3. CASE FindNew \/ EntryInNew \/ NewEntry \/ WriteFile \/ GrowStep \/ FillStep
    BY <1>11, <1>12, <1>13, <1>14, <1>15, <1>16, <2>3
  <2> QED BY <1>19, <2>1, <2>2, <2>3 DEF Step
<1> QED BY <1>17, <1>18, <1>19

\* Only those two are counted.
LEMMA CountsStay ==
  ASSUME Command \/ Step \/ DoLook
  PROVE  crashes' = crashes /\ lost' = lost
BY DEF Command, cmd_touch, cmd_mkdir, cmd_rm, cmd_rm_r, write_editor_buffer, Start, Step, DoLook, Does, Computes,
       DoWriteFat, DoWriteData, DoModifyFat, DoReturn, ExtendFails, ExtendFull, Extend, DeleteMissing, Delete,
       DeleteInsideStep, FreeStep, Create, FindNew, EntryInNew, NewEntry, WriteFile, GrowStep, FillStep

\* and keeps it from leading behind the partition, unless it takes a cluster
\* there.
LEMMA LandStep ==
  ASSUME IInv, Sound, Landing, Command \/ (Step /\ ~TakesBehind) \/ DoLook
  PROVE  Landing'
<1>1. CASE Step /\ ~TakesBehind
  <2>1. CASE DoWriteFat \/ DoWriteData \/ DoModifyFat \/ Extend
    BY <1>1, <2>1, LandWriteFat, LandWriteData, LandModifyFat, LandExtend
  <2>2. CASE Delete \/ NewEntry \/ WriteFile \/ GrowStep \/ FillStep
    BY <1>1, <2>2, LandDelete, LandNewEntry, LandWriteFile, LandGrow, LandFill
  <2> QED BY <1>1, <2>1, <2>2, LandOthers DEF Step
<1> QED BY <1>1, LandCommand, LandOthers

\* TreeKept is inductive.
LEMMA TreeNext ==
  ASSUME IInv, TreeKept, [Next]_vars
  PROVE  TreeKept'
<1>1. CASE \/ Step /\ behind' = (behind \/ TakesBehind)
           \/ (Command \/ DoLook) /\ behind' = behind
  <2>1. crashes' = crashes /\ lost' = lost
    BY <1>1, CountsStay
  <2>2. Sound /\ Landing => Stays
    BY <1>1, SoundStep
  <2>3. ~behind' => ~behind /\ (Sound /\ Landing => Landing')
    BY <1>1, LandStep
  <2> QED BY <2>1, <2>2, <2>3 DEF TreeKept, Ordinary, Stays, Sound, Clean, Whole
<1>2. CASE LoseWrite
  <2>1. lost' = lost + 1 /\ crashes' = crashes
    BY <1>2 DEF LoseWrite
  <2>2. lost' \in Nat /\ lost' # 0
    BY <2>1 DEF TreeKept
  <2> QED BY <2>1, <2>2 DEF TreeKept, Ordinary
<1>3. CASE Crash
  <2>1. crashes' = crashes + 1 /\ lost' = lost
    BY <1>3 DEF Crash
  <2>2. crashes' \in Nat /\ crashes' # 0
    BY <2>1 DEF TreeKept
  <2> QED BY <2>1, <2>2 DEF TreeKept, Ordinary
<1>4. CASE UNCHANGED vars
  BY <1>4 DEF vars, TreeKept, Ordinary, Sound, Clean, Whole, Landing, RowLands, RowFrom
<1> QED BY <1>1, <1>2, <1>3, <1>4 DEF Next

\* So it holds throughout.
LEMMA TreeInvariant == Spec => []TreeKept
<1>1. Init => TreeKept
  <2>1. Init => crashes = 0 /\ lost = 0
    BY DEF Init
  <2> QED BY <2>1, SoundInit, LandInit DEF TreeKept
<1>2. IInv /\ TreeKept /\ [Next]_vars => TreeKept'
  BY TreeNext
<1> QED BY <1>1, <1>2, Invariance, PTL DEF Spec

\* As long as the machine runs on, every write arrives, and no cluster behind
\* the partition has been handed out (get_empty_cluster), the tree on the disk
\* is sound, in the middle of a command too: each entry in use has a chain of
\* its own, and each name occurs once in a directory (create_file, delete_file,
\* extend_file, write_to_file).
THEOREM TreeStaysSound == Spec => [](crashes = 0 /\ lost = 0 /\ ~behind => DiskSound(fats[1], data))
<1>1. TreeKept => (crashes = 0 /\ lost = 0 /\ ~behind => DiskSound(fats[1], data))
  BY GoodFacts DEF TreeKept, Ordinary, Sound
<1> QED BY <1>1, TreeInvariant, PTL

\* So no cluster belongs to two files or directories, not even halfway through
\* a command (get_empty_cluster, extend_file, create_file).
THEOREM NeverShared == Spec => [](crashes = 0 /\ lost = 0 => NotShared)
<1>1. TreeKept => (crashes = 0 /\ lost = 0 => NotShared)
  BY GoodFacts, SoundNotShared DEF TreeKept, Ordinary, Sound, NotShared
<1> QED BY <1>1, TreeInvariant, PTL

\* Between commands a sound and tidy tree has no text in its directories.
LEMMA TidyHoldsEntries ==
  ASSUME Sound, Clean
  PROVE  DirsHoldEntries
<1> SUFFICES ASSUME Idle, NEW p \in Owners, p = <<>> \/ At(Find(p)).dir, NEW c \in ClustersOf(p)
             PROVE  TextEntry \notin Range(RowOf(c))
  BY DEF DirsHoldEntries
<1>1. DiskSound(fats[1], data) /\ Tidied(fats[1], data, todo)
  BY GoodFacts, TidyFacts DEF Sound, Clean
<1>2. \A x : ~Clears(todo, x)
  BY DEF Clears, Idle
<1> DEFINE v == IF p = <<>> THEN Root ELSE At(Find(p)).cluster
<1>3. DirHead(data, v)
  <2>1. CASE p = <<>>
    BY <2>1 DEF DirHead
  <2>2. CASE p # <<>>
    <3>1. Find(p) \in UsedIn(data)
      BY <1>1, <2>2, OwnerFound
    <3> QED BY <2>2, <3>1, AtIs DEF DirHead
  <2> QED BY <2>1, <2>2
<1>4. c \in Reach(fats[1], v)
  BY DEF ClustersOf, Chain, Reach
<1> HIDE DEF v
<1>5. v \in Entries /\ Chained(fats[1]) /\ RowsSound(data)
  BY <1>1, <1>3, DirHeadFacts, SoundFacts
<1>6. c \in Entries
  BY <1>4, <1>5, ReachWithin
<1>7. Tidy(data[c])
  BY <1>1, <1>2, <1>3, <1>4, <1>5, <1>6 DEF Tidied
<1>8. RowOf(c) = RowFrom(data[c]) /\ RowFrom(data[c]) \in Rows
  BY <1>5, <1>6, RowIs DEF RowOf, RowFrom
<1>9. TextEntry.name = "text"
  BY DEF TextEntry, Entry
<1>10. \A s \in DOMAIN RowOf(c) : RowOf(c)[s].name # "text"
  BY <1>7, <1>8 DEF Tidy, Rows
<1> QED BY <1>9, <1>10 DEF Range

\* So between commands no directory holds the text of a file that had its
\* clusters before (extend_file and create_file clear them).
THEOREM DirsStayClean == Spec => [](crashes = 0 /\ lost = 0 => DirsHoldEntries)
<1>1. TreeKept => (crashes = 0 /\ lost = 0 => DirsHoldEntries)
  BY TidyHoldsEntries DEF TreeKept, Ordinary, DirsHoldEntries
<1> QED BY <1>1, TreeInvariant, PTL

\* And between commands no cluster is lost: each one in use belongs to a file
\* or directory that can be reached (delete_file gives back all it took, and
\* what extend_file and create_file take is linked or entered).
THEOREM NothingLost == Spec => [](crashes = 0 /\ lost = 0 => NoneLost)
<1>1. TreeKept => (crashes = 0 /\ lost = 0 => NoneLost)
  BY TreeLosesNone DEF TreeKept, Ordinary, Sound, Whole, NoneLost
<1> QED BY <1>1, TreeInvariant, PTL
-----------------------------------------------------------------------------
(* The other paths *)

\* What a reader finds on the sound disk is what lies there.
LEMMA NodeSame ==
  ASSUME DiskSound(fats[1], data), NEW q \in Paths
  PROVE  Node(q) = NodeIn(fats[1], data, q)
<1>1. q \in Seq(NamesOf) /\ q # <<>> /\ q \in RootPaths /\ Last(q) \in Known
  BY PathParts DEF RootPaths
<1>2. CASE Find(q) = NotFound
  <2>1. \A l \in UsedIn(data) : ~Lies(fats[1], data, q, l)
    <3> SUFFICES ASSUME NEW l \in UsedIn(data), Lies(fats[1], data, q, l) PROVE FALSE
      OBVIOUS
    <3>1. l \in Places /\ AtIn(data, l).name = Last(q) /\ On(fats[1], data, q, l.cluster)
      BY DEF Lies, UsedIn
    <3>2. \E g : IsWay(fats[1], data, g, Front(q)) /\ l.cluster \in Reach(fats[1], g[Len(q)-1])
      BY <3>1 DEF On
    <3> QED BY <1>1, <1>2, <3>1, <3>2, Finding
  <2>2. NodeIn(fats[1], data, q) = NoNode
    BY <2>1 DEF NodeIn
  <2> QED BY <1>2, <2>2 DEF Node
<1>3. CASE Find(q) # NotFound
  <2> DEFINE loc == Find(q)
             e == AtIn(data, loc)
  <2>1. loc \in Places /\ e.name = Last(q)
        /\ \E g : IsWay(fats[1], data, g, Front(q)) /\ loc.cluster \in Reach(fats[1], g[Len(q)-1])
    BY <1>1, <1>3, Finding
  <2>2. Lies(fats[1], data, q, loc)
    <3>1. loc \in UsedIn(data)
      BY <1>1, <2>1 DEF UsedIn, InUse
    <3>2. On(fats[1], data, q, loc.cluster)
      BY <1>1, <2>1, OnWay
    <3> QED BY <2>1, <3>1, <3>2 DEF Lies
  <2>3. NodeIn(fats[1], data, q) = NodeAt(fats[1], data, e)
    BY <2>2, NodeIs
  <2>4. \A c : file_contents(c) = TextIn(data, ChainIn(fats[1], c))
    BY DEF file_contents, TextIn, Chain
  <2>5. Node(q) = IF e.dir THEN Dir ELSE File(file_contents(e.cluster))
    BY <1>3, AtIs DEF Node
  <2> HIDE DEF loc, e
  <2> QED BY <2>3, <2>4, <2>5 DEF NodeAt
<1> QED BY <1>2, <1>3

\* At first nothing does.
LEMMA NodesFirst ==
  ASSUME NEW q \in Paths
  PROVE  NodeIn(FirstFat, FirstData, q) = NoNode
<1>1. Last(q) # "kernel"
  BY PathParts
<1>2. KernelEntry.name = "kernel"
  BY DEF KernelEntry, Entry
<1>3. \A l \in UsedIn(FirstData) : ~Lies(FirstFat, FirstData, q, l)
  BY <1>1, <1>2, FirstRows DEF Lies
<1> QED BY <1>3 DEF NodeIn

Elsewhere == Others(fats[1], data, todo, ret, cmd.path, tree)

\* No call is left to be made.
LEMMA NoneWithin ==
  ASSUME NEW fat, NEW dat, NEW rt, NEW p
  PROVE  LookLast(<<>>) /\ Within(fat, dat, <<>>, rt, p)
<1>1. \A i : i \notin 1..Len(<<>>)
  BY NoCalls, Tuples
<1> QED BY <1>1 DEF LookLast, Within, GrowsOn

\* At first all is as the reader found it.
LEMMA ElsewhereInit ==
  ASSUME Init
  PROVE  Elsewhere
<1>1. fats[1] = FirstFat
  BY TypeFacts DEF Init, FirstFat
<1>2. data = FirstData /\ todo = <<>> /\ tree = [p \in Paths |-> NoNode]
  BY DEF Init, FirstData, KernelEntry
<1>3. \A q \in Paths : NodeIn(fats[1], data, q) = tree[q]
  BY <1>1, <1>2, NodesFirst
<1> QED BY <1>2, <1>3, NoneWithin DEF Elsewhere, Others, AsBefore

\* The look at the tree is a command's last step.
LEMMA ElsewhereLook ==
  ASSUME Sound, Elsewhere, DoLook
  PROVE  Elsewhere'
<1>1. Running("look") /\ Becomes(<<>>) /\ fats' = fats /\ data' = data /\ ret' = ret /\ cmd' = cmd /\ tree' = Tree
  BY DEF DoLook, Does, Computes
<1>2. todo \in Seq(Range(todo)) /\ todo # <<>> /\ todo[1].f = "look" /\ 1 \in 1..Len(todo)
  BY <1>1, Runs
<1>3. Len(todo) = 1
  BY <1>2 DEF Elsewhere, Others, LookLast
<1>4. todo' = <<>>
  BY <1>1, <1>2, <1>3 DEF Becomes
<1>5. DiskSound(fats[1], data)
  BY GoodFacts DEF Sound
<1>6. \A q \in Paths : NodeIn(fats[1], data, q) = tree'[q]
  BY <1>1, <1>5, NodeSame DEF Tree
<1> QED BY <1>1, <1>4, <1>6, NoneWithin DEF Elsewhere, Others, AsBefore

\* A command is about its path.
LEMMA NearBegun ==
  ASSUME NEW fat, NEW dat, NEW q, Len(q) \in Nat, NEW t, t.f \in {"create_file", "delete_file", "write_to_file", "look"},
         t.f # "look" => t.args[1] = q
  PROVE  NearCall(fat, dat, q, t)
BY UnderSelf DEF NearCall

\* With no calls left from before, only its own path counts.
LEMMA OthersBegun ==
  ASSUME NEW fat, NEW dat, NEW rt, NEW p, NEW tr, Others(fat, dat, <<>>, rt, p, tr),
         NEW q, Len(q) \in Nat, NEW cs, cs # <<>>, LookLast(cs),
         \A i \in 1..Len(cs) : /\ cs[i].f \in {"create_file", "delete_file", "write_to_file", "look"}
                               /\ cs[i].f # "look" => cs[i].args[1] = q
  PROVE  Others(fat, dat, cs, rt, q, tr)
<1>1. \A u \in Paths : NodeIn(fat, dat, u) = tr[u]
  BY DEF Others
<1>2. \A i \in 1..Len(cs) : NearCall(fat, dat, q, cs[i])
  BY NearBegun
<1>3. GrowsOn(fat, dat, cs, rt, q)
  BY DEF GrowsOn
<1> QED BY <1>1, <1>2, <1>3 DEF Others, AsBefore, Within

\* A command begins.
LEMMA ElsewhereStart ==
  ASSUME Sound, Elsewhere, Command, tree' = tree
  PROVE  Elsewhere' /\ cmd'.path \in Paths
<1>1. PICK p \in Paths : \/ cmd_touch(p) \/ cmd_mkdir(p) \/ cmd_rm(p) \/ cmd_rm_r(p)
                         \/ \E t \in Texts : write_editor_buffer(p, t)
  BY DEF Command
<1>2. Look.f = "look" /\ Len(p) \in Nat
  BY CallsAre, PathParts
<1>3. ASSUME NEW name, NEW t, NEW cs, Start(name, p, t, cs), cs # <<>>, LookLast(cs),
             \A i \in 1..Len(cs) : /\ cs[i].f \in {"create_file", "delete_file", "write_to_file", "look"}
                                   /\ cs[i].f # "look" => cs[i].args[1] = p
      PROVE  Elsewhere' /\ cmd'.path \in Paths
  <2>1. todo = <<>> /\ todo' = cs /\ fats' = fats /\ data' = data /\ ret' = ret /\ cmd'.path = p
    BY <1>3 DEF Start, Idle
  <2>2. Others(fats[1], data, cs, ret, p, tree)
    BY <1>2, <1>3, <2>1, OthersBegun DEF Elsewhere
  <2> QED BY <2>1, <2>2 DEF Elsewhere
<1>4. ASSUME NEW name, NEW t, NEW call, call.f \in {"create_file", "delete_file"}, call.args[1] = p,
             Start(name, p, t, <<call, Look>>)
      PROVE  Elsewhere' /\ cmd'.path \in Paths
  <2> DEFINE cs == <<call, Look>>
  <2>1. IsTwo(cs, call, Look)
    BY Tuples
  <2>2. Start(name, p, t, cs)
    BY <1>4
  <2> HIDE DEF cs
  <2>3. Len(cs) = 2 /\ cs[1] = call /\ cs[2] = Look /\ cs # <<>> /\ \A i \in 1..Len(cs) : i = 1 \/ i = 2
    BY <2>1 DEF IsTwo
  <2>4. LookLast(cs)
    BY <1>2, <1>4, <2>3 DEF LookLast
  <2>5. \A i \in 1..Len(cs) : /\ cs[i].f \in {"create_file", "delete_file", "write_to_file", "look"}
                              /\ cs[i].f # "look" => cs[i].args[1] = p
    BY <1>2, <1>4, <2>3
  <2> QED BY <1>3, <2>2, <2>3, <2>4, <2>5
<1>5. ASSUME NEW name, NEW t, Start(name, p, t, <<Look>>)
      PROVE  Elsewhere' /\ cmd'.path \in Paths
  <2> DEFINE cs == <<Look>>
  <2>1. IsOne(cs, Look)
    BY Tuples
  <2>2. Start(name, p, t, cs)
    BY <1>5
  <2> HIDE DEF cs
  <2>3. Len(cs) = 1 /\ cs[1] = Look /\ cs # <<>> /\ \A i \in 1..Len(cs) : i = 1
    BY <2>1 DEF IsOne
  <2>4. LookLast(cs)
    BY <1>2, <2>3 DEF LookLast
  <2>5. \A i \in 1..Len(cs) : /\ cs[i].f \in {"create_file", "delete_file", "write_to_file", "look"}
                              /\ cs[i].f # "look" => cs[i].args[1] = p
    BY <1>2, <2>3
  <2> QED BY <1>3, <2>2, <2>3, <2>4, <2>5
<1>6. \A d : create_file(p, d).f = "create_file" /\ create_file(p, d).args[1] = p
  BY CallsAre
<1>7. delete_file(p).f = "delete_file" /\ delete_file(p).args[1] = p
  BY CallsAre
<1>8. ASSUME NEW t \in Texts, write_editor_buffer(p, t)
      PROVE  Elsewhere' /\ cmd'.path \in Paths
  <2> DEFINE cs == <<create_file(p, FALSE), write_to_file(p, t), Look>>
  <2>1. IsThree(cs, create_file(p, FALSE), write_to_file(p, t), Look)
    BY Tuples
  <2>2. Start("save", p, t, cs)
    BY <1>8 DEF write_editor_buffer
  <2> HIDE DEF cs
  <2>0. Len(cs) = 3 /\ cs[1] = create_file(p, FALSE) /\ cs[2] = write_to_file(p, t) /\ cs[3] = Look
    BY <2>1 DEF IsThree
  <2>3. cs # <<>> /\ \A i \in 1..Len(cs) : i = 1 \/ i = 2 \/ i = 3
    BY <2>0, Tuples DEF IsNone
  <2>4. write_to_file(p, t).f = "write_to_file" /\ write_to_file(p, t).args[1] = p
    BY CallsAre
  <2>5. LookLast(cs)
    BY <1>2, <1>6, <2>0, <2>3, <2>4 DEF LookLast
  <2>6. \A i \in 1..Len(cs) : /\ cs[i].f \in {"create_file", "delete_file", "write_to_file", "look"}
                              /\ cs[i].f # "look" => cs[i].args[1] = p
    BY <1>2, <1>6, <2>0, <2>3, <2>4
  <2> QED BY <1>3, <2>2, <2>3, <2>5, <2>6
<1>9. CASE cmd_touch(p)
  <2> DEFINE call == create_file(p, FALSE)
  <2>1. call.f \in {"create_file", "delete_file"} /\ call.args[1] = p
    BY <1>6
  <2>2. Start("touch", p, <<>>, <<call, Look>>)
    BY <1>9 DEF cmd_touch
  <2> HIDE DEF call
  <2> QED BY <1>4, <2>1, <2>2
<1>10. CASE cmd_mkdir(p)
  <2> DEFINE call == create_file(p, TRUE)
  <2>1. call.f \in {"create_file", "delete_file"} /\ call.args[1] = p
    BY <1>6
  <2>2. Start("mkdir", p, <<>>, <<call, Look>>)
    BY <1>10 DEF cmd_mkdir
  <2> HIDE DEF call
  <2> QED BY <1>4, <2>1, <2>2
<1>11. CASE cmd_rm_r(p)
  <2> DEFINE call == delete_file(p)
  <2>1. call.f \in {"create_file", "delete_file"} /\ call.args[1] = p
    BY <1>7
  <2>2. \E name : Start(name, p, <<>>, <<call, Look>>)
    BY <1>11 DEF cmd_rm_r
  <2> HIDE DEF call
  <2> QED BY <1>4, <2>1, <2>2
<1>12. CASE cmd_rm(p)
  <2>1. CASE IsDirectory(p)
    <3>1. Start("rm", p, <<>>, <<Look>>)
      BY <1>12, <2>1 DEF cmd_rm
    <3> QED BY <1>5, <3>1
  <2>2. CASE ~IsDirectory(p)
    <3> DEFINE call == delete_file(p)
    <3>1. call.f \in {"create_file", "delete_file"} /\ call.args[1] = p
      BY <1>7
    <3>2. Start("rm", p, <<>>, <<call, Look>>)
      BY <1>12, <2>2 DEF cmd_rm
    <3> HIDE DEF call
    <3> QED BY <1>4, <3>1, <3>2
  <2> QED BY <2>1, <2>2
<1> QED BY <1>1, <1>8, <1>9, <1>10, <1>11, <1>12

\* That path is one of the files' and directories'.
LEMMA CommandPath ==
  ASSUME Command
  PROVE  cmd'.path \in Paths
<1>1. \A name, p, t, cs : Start(name, p, t, cs) => cmd'.path = p
  BY DEF Start
<1>2. PICK p \in Paths : \/ cmd_touch(p) \/ cmd_mkdir(p) \/ cmd_rm(p) \/ cmd_rm_r(p)
                         \/ \E t \in Texts : write_editor_buffer(p, t)
  BY DEF Command
<1>3. \E name, t, cs : Start(name, p, t, cs)
  BY <1>2 DEF cmd_touch, cmd_mkdir, cmd_rm, cmd_rm_r, write_editor_buffer
<1> QED BY <1>1, <1>3

\* Each step within a command runs one of its calls and leaves the command.
LEMMA StepRuns ==
  ASSUME Step
  PROVE  cmd' = cmd /\ \E f : Running(f) /\ f # "look"
<1>1. cmd' = cmd
  BY DEF Step, Does, Computes, DoWriteFat, DoWriteData, DoModifyFat, DoReturn, ExtendFails, ExtendFull, Extend,
         DeleteMissing, Delete, DeleteInsideStep, FreeStep, Create, FindNew, EntryInNew, NewEntry, WriteFile,
         GrowStep, FillStep
<1>2. \E f \in {"write_fat", "write_data", "modify_fat", "return", "extend_file", "delete_file", "delete_inside",
                "free_chain", "create_file", "find_new", "entry_in_new", "new_entry", "write_to_file", "grow", "fill"} :
        Running(f)
  BY DEF Step, DoWriteFat, DoWriteData, DoModifyFat, DoReturn, ExtendFails, ExtendFull, Extend,
         DeleteMissing, Delete, DeleteInsideStep, FreeStep, Create, FindNew, EntryInNew, NewEntry, WriteFile,
         GrowStep, FillStep
<1> QED BY <1>1, <1>2

\* So a step spares what lies elsewhere.
LEMMA ElsewhereStep ==
  ASSUME IInv, Sound, Landing, Clean, Whole, Elsewhere, cmd.path \in Paths \cup {<<>>}, Step, tree' = tree
  PROVE  Elsewhere' /\ cmd' = cmd
<1>1. cmd' = cmd /\ \E f : Running(f) /\ f # "look"
  BY StepRuns
<1>2. todo # <<>> /\ todo[1].f # "look"
  BY <1>1, Runs
<1>3. Spared(fats'[1], data', todo', ret')
  BY <1>2, SoundStep DEF Stays
<1>4. Len(cmd.path) \in Nat
  BY PathParts, Tuples
<1> QED BY <1>1, <1>3, <1>4 DEF Spared, Elsewhere

\* As long as the machine runs on.
ElsewhereKept == TreeKept /\ (Ordinary => Elsewhere) /\ cmd.path \in Paths \cup {<<>>}

\* ElsewhereKept is inductive.
LEMMA ElsewhereNext ==
  ASSUME IInv, ElsewhereKept, [Next]_vars
  PROVE  ElsewhereKept'
<1>1. TreeKept'
  BY TreeNext DEF ElsewhereKept
<1>2. CASE /\ tree' = tree
           /\ \/ Step /\ behind' = (behind \/ TakesBehind)
              \/ Command /\ behind' = behind
  <2>1. crashes' = crashes /\ lost' = lost
    BY <1>2, CountsStay
  <2>2. ~behind' => ~behind
    BY <1>2, Zenon
  <2>3. Ordinary => Elsewhere'
    BY <1>2, ElsewhereStart, ElsewhereStep DEF ElsewhereKept, TreeKept
  <2>4. cmd'.path \in Paths \cup {<<>>}
    BY <1>2, CommandPath, StepRuns DEF ElsewhereKept
  <2> QED BY <1>1, <2>1, <2>2, <2>3, <2>4 DEF ElsewhereKept, Ordinary
<1>3. CASE DoLook /\ behind' = behind
  <2>1. crashes' = crashes /\ lost' = lost /\ cmd' = cmd
    BY <1>3, CountsStay DEF DoLook, Does, Computes
  <2>2. Ordinary => Elsewhere'
    BY <1>3, ElsewhereLook DEF ElsewhereKept, TreeKept
  <2> QED BY <1>1, <1>3, <2>1, <2>2 DEF ElsewhereKept, Ordinary
<1>4. CASE LoseWrite
  <2>1. lost' = lost + 1 /\ crashes' = crashes /\ cmd' = cmd
    BY <1>4 DEF LoseWrite
  <2>2. lost' # 0
    BY <2>1 DEF ElsewhereKept, TreeKept
  <2> QED BY <1>1, <2>1, <2>2 DEF ElsewhereKept, Ordinary
<1>5. CASE Crash
  <2>1. crashes' = crashes + 1 /\ lost' = lost /\ cmd' = cmd
    BY <1>5 DEF Crash
  <2>2. crashes' # 0
    BY <2>1 DEF ElsewhereKept, TreeKept
  <2> QED BY <1>1, <2>1, <2>2 DEF ElsewhereKept, Ordinary
<1>6. CASE UNCHANGED vars
  BY <1>1, <1>6 DEF vars, ElsewhereKept, Ordinary, Elsewhere
<1> QED BY <1>2, <1>3, <1>4, <1>5, <1>6 DEF Next

\* What lies elsewhere is what a reader finds there.
LEMMA ElsewhereIntact ==
  ASSUME Sound, Elsewhere, cmd.path \in Paths \cup {<<>>}
  PROVE  OthersIntact
<1> SUFFICES ASSUME NEW q \in Paths, ~IsPrefix(cmd.path, q) PROVE Node(q) = tree[q]
  BY DEF OthersIntact
<1>1. cmd.path \in Seq(Names) /\ q \in Seq(Names)
  <2>1. <<>> \in Seq(Names)
    OBVIOUS
  <2> QED BY <2>1, PathIsSeq
<1>2. ~Under(cmd.path, q)
  BY <1>1, UnderPrefix
<1>3. NodeIn(fats[1], data, q) = tree[q]
  BY <1>2 DEF Elsewhere, Others, AsBefore
<1>4. DiskSound(fats[1], data)
  BY GoodFacts DEF Sound
<1> QED BY <1>3, <1>4, NodeSame

\* So a command leaves every path alone but its own and those below it, at
\* each point of its run: what a reader would find there is what was there
\* when the command began (create_file, delete_file, extend_file and
\* write_to_file write to no cluster of another file and to no entry but
\* their own).
THEOREM OthersUntouched == Spec => [](crashes = 0 /\ lost = 0 => OthersIntact)
<1>1. Init => ElsewhereKept
  <2>1. Init => crashes = 0 /\ lost = 0 /\ cmd.path = <<>>
    BY DEF Init
  <2> QED BY <2>1, SoundInit, LandInit, ElsewhereInit DEF ElsewhereKept, TreeKept
<1>2. IInv /\ ElsewhereKept /\ [Next]_vars => ElsewhereKept'
  BY ElsewhereNext
<1>3. ElsewhereKept => (crashes = 0 /\ lost = 0 => OthersIntact)
  BY ElsewhereIntact DEF ElsewhereKept, TreeKept, Ordinary, OthersIntact
<1>4. Spec => []IInv
  BY Invariance
<1> QED BY <1>1, <1>2, <1>3, <1>4, PTL DEF Spec
=============================================================================
