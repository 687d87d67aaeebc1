-------------------------------- MODULE Fat ---------------------------------
(***************************************************************************)
(* The FAT32 file system of src/fatparser.c and the commands on it, down   *)
(* to the single disk write.  A command runs as a stack of calls (todo);   *)
(* what a call reads it reads when it is expanded, since nothing else      *)
(* touches the disk, and each write is a step of its own: between two of   *)
(* them the machine may be switched off, and a write may be lost, because  *)
(* the callers of write_sector go on when it has failed.                   *)
(*                                                                         *)
(* A cluster is one sector, all entries of a FAT copy lie in one sector,   *)
(* a name is in its stored form, and the content of a cluster is either a  *)
(* row of directory entries or one piece of text.                          *)
(*                                                                         *)
(* get_empty_cluster looks at whole sectors of the FAT, so it may hand out *)
(* a cluster that lies behind the partition, where nothing is written.     *)
(* What the file system promises it promises until then (behind).          *)
(***************************************************************************)
EXTENDS Integers, Sequences, FiniteSets, SequencesExt, FiniteSetsExt

CONSTANTS LastCluster,  \* the last cluster that lies in the partition
          LastEntry,    \* the last cluster the FAT has an entry for
          NumFats,      \* num_of_fats
          Slots,        \* directory entries per cluster
          Kernel,       \* the disk holds the kernel at first
          Names,        \* names in use
          Depth,        \* bound on the length of a path
          Texts,        \* the texts that are saved, cut into clusters
          Commands,     \* the commands given: subset of CommandNames
          MaxOps,       \* bound on the number of commands
          MaxCrashes,   \* bound on the times the machine is switched off
          MaxLost       \* bound on the writes lost

CommandNames == {"touch", "mkdir", "save", "rm", "rm -r"}

ASSUME FatAssumption ==
  /\ LastCluster \in Nat /\ LastEntry \in Nat
  /\ 2 <= LastCluster /\ LastCluster <= LastEntry
  /\ NumFats \in Nat \ {0} /\ Slots \in Nat \ {0}
  /\ LastEntry < 268435448
  /\ MaxOps \in Nat /\ MaxCrashes \in Nat /\ MaxLost \in Nat
  /\ Depth \in Nat /\ Kernel \in BOOLEAN
  /\ Commands \subseteq CommandNames
  /\ Kernel => 3 <= LastCluster
  /\ {"0x00", "0xE5", "text", "kernel"} \cap Names = {}

VARIABLES fats,     \* the copies of the FAT
          data,     \* the clusters; those behind the partition read as zeros
          todo,     \* the calls to be made, the innermost first
          ret,      \* what extend_file returned
          broken,   \* a block header of the heap has been overwritten
          cmd,      \* the command running or run last, and as history how many
                    \* clusters were empty when it was given (room)
          tree,     \* history: the tree before the command
          behind,   \* history: a cluster behind the partition was handed out
          ops, crashes, lost

disk == <<fats, data>>
vars == <<fats, data, todo, ret, broken, cmd, tree, behind, ops, crashes, lost>>

EOC == 268435448        \* 0x0FFFFFF8
Root == 2               \* root_cluster
Entries == 2..LastEntry
Clusters == 2..LastCluster

InChain(c) == Root <= c /\ c < EOC

-----------------------------------------------------------------------------
(* Reading *)

Entry(n, d, c) == [name |-> n, dir |-> d, cluster |-> c]
Blank == Entry("0x00", FALSE, 0)
Unused == {"0x00", "0xE5"}
Pieces == UNION {Range(t) : t \in Texts}
Zero == [s \in 1..Slots |-> Blank]
Links == Entries \cup {0, EOC}
Rows == [1..Slots -> [name : Names \cup Unused \cup {"kernel", "text"}, dir : BOOLEAN,
                      cluster : Links]]

\* A piece of text is not a row of entries.
ASSUME TextAssumption == /\ \A t \in Texts : t \in Seq(Pieces)
                         /\ \A x \in Pieces : x \notin Rows

\* The entry of c in a FAT.
EntryIn(fat, c) == IF c \in Entries THEN fat[c] ELSE -1
get_from_fat(c) == EntryIn(fats[1], c)

\* The clusters a loop over get_from_fat visits from c on, at most as many as
\* there are entries (Acyclic says that no loop is longer).
ChainIn(fat, c) ==
  LET from[w \in [at : Int, most : Nat]] ==
        IF InChain(w.at) /\ w.most > 0
          THEN <<w.at>> \o from[[at |-> EntryIn(fat, w.at), most |-> w.most - 1]]
          ELSE <<>>
  IN  from[[at |-> c, most |-> LastEntry]]
Chain(c) == ChainIn(fats[1], c)

\* The last cluster of the chain, prev_last_cluster of extend_file.
LastOf(c) == IF InChain(c) THEN Last(Chain(c)) ELSE 0

\* What the loop ends at.
EndOf(c) == IF InChain(c) THEN get_from_fat(LastOf(c)) ELSE c

\* directory_parse reads the clusters of the chain ch, entry by entry.
Positions(ch) == 1..Len(ch) * Slots
Place(ch, n) == [cluster |-> ch[((n-1) \div Slots) + 1], slot |-> ((n-1) % Slots) + 1]

\* Text where entries should be reads as an entry with a strange name and,
\* its bytes being letters, a cluster number beyond the end mark.
TextEntry == Entry("text", FALSE, EOC)
RowOf(c) == IF data[c] \in Pieces THEN [s \in 1..Slots |-> TextEntry] ELSE data[c]
At(loc) == RowOf(loc.cluster)[loc.slot]

NotFound == [cluster |-> -1, slot |-> -1]

\* The first place in the directory at c that Good holds for.
FirstPlace(c, Good(_)) ==
  LET ch == Chain(c)
      hits == {n \in Positions(ch) : Good(At(Place(ch, n)))}
  IN  IF hits = {} THEN NotFound ELSE Place(ch, Min(hits))

\* file_path_destination: the last directory of the name counts.
StepInto(c, name) ==
  LET ch == Chain(c)
      hits == {n \in Positions(ch) : At(Place(ch, n)).name = name /\ At(Place(ch, n)).dir}
  IN  IF hits = {} THEN -1 ELSE At(Place(ch, Max(hits))).cluster
file_path_destination(dirs) == FoldLeft(StepInto, Root, dirs)

\* get_file_location, FIND_EXISTS: the first entry of the name counts.
Find(p) == LET c == file_path_destination(Front(p))
           IN  IF c = -1 THEN NotFound
               ELSE FirstPlace(c, LAMBDA e : e.name = Last(p))

\* Mutant: an end mark counts as empty.
MutEmptyTakesEnds == LET free == {c \in Entries : fats[1][c] \notin Entries}
                     IN  IF free = {} THEN -1 ELSE Min(free)

\* get_empty_cluster
Free == {c \in Entries : fats[1][c] = 0}
get_empty_cluster == IF Free = {} THEN -1 ELSE Min(Free)

-----------------------------------------------------------------------------
(* The calls still to be made *)

Call(f, args) == [f |-> f, args |-> args]
WriteFat(k, img) == Call("write_fat", <<k, img>>)
WriteData(c, img) == Call("write_data", <<c, img>>)
modify_fat(c, v) == Call("modify_fat", <<c, v>>)
extend_file(c) == Call("extend_file", <<c>>)
FreeFrom(c) == Call("free_chain", <<c>>)
delete_file(p) == Call("delete_file", <<p>>)
DeleteInside(p, list, n) == Call("delete_inside", <<p, list, n>>)
create_file(p, d) == Call("create_file", <<p, d>>)
CreateAt(p, d) == Call("find_new", <<p, d>>)
PlaceAt(loc, p, d) == Call("new_entry", <<loc, p, d>>)
PlaceInNew(p, d) == Call("entry_in_new", <<p, d>>)
write_to_file(p, t) == Call("write_to_file", <<p, t>>)
Grow(n, t, c) == Call("grow", <<n, t, c>>)
Fill(c, i, t) == Call("fill", <<c, i, t>>)
Returns(c) == Call("return", <<c>>)
Look == Call("look", <<>>)

Running(f) == todo # <<>> /\ ~broken /\ Head(todo).f = f
Args == Head(todo).args

\* The running call goes on as the calls cs.
Becomes(cs) == todo' = cs \o Tail(todo)

Computes == UNCHANGED <<fats, data, broken, cmd, ops, crashes, lost>>
Does(cs) == Becomes(cs) /\ Computes /\ UNCHANGED ret

-----------------------------------------------------------------------------
(* Writing *)

\* write_sector on a FAT copy.
DoWriteFat ==
  /\ Running("write_fat")
  /\ fats' = [fats EXCEPT ![Args[1]] = Args[2]]
  /\ Becomes(<<>>)
  /\ UNCHANGED <<data, ret, broken, cmd, ops, crashes, lost>>

\* write_sector on the sector of a cluster; behind the partition it refuses.
DoWriteData ==
  /\ Running("write_data")
  /\ data' = IF Args[1] \in Clusters THEN [data EXCEPT ![Args[1]] = Args[2]] ELSE data
  /\ Becomes(<<>>)
  /\ UNCHANGED <<fats, ret, broken, cmd, ops, crashes, lost>>

\* write_sector fails: the callers print at most a message and go on.
LoseWrite ==
  /\ Running("write_fat") \/ Running("write_data")
  /\ lost < MaxLost /\ lost' = lost + 1
  /\ Becomes(<<>>)
  /\ UNCHANGED <<fats, data, ret, broken, cmd, ops, crashes>>

\* modify_fat: the sector of the first copy, changed, goes to every copy.
DoModifyFat ==
  /\ Running("modify_fat")
  /\ LET img == [fats[1] EXCEPT ![Args[1]] = Args[2]]
     IN  Does(IF Args[1] < Root THEN <<>> ELSE [k \in 1..NumFats |-> WriteFat(k, img)])

DoReturn ==
  /\ Running("return")
  /\ ret' = Args[1]
  /\ Becomes(<<>>) /\ Computes

-----------------------------------------------------------------------------
(* extend_file *)

\* A chain that does not end in an end mark is left alone.
ExtendFails ==
  /\ Running("extend_file") /\ EndOf(Args[1]) < EOC
  /\ ret' = 1
  /\ Becomes(<<>>) /\ Computes

\* With no empty cluster, modify_fat is called for cluster -1: the entry's
\* offset in the buffer is -4, so that it overwrites the end of the buffer's
\* block header.  What the machine does from then on is not modelled.
ExtendFull ==
  /\ Running("extend_file") /\ EndOf(Args[1]) >= EOC
  /\ get_empty_cluster = -1
  /\ broken' = TRUE
  /\ UNCHANGED <<fats, data, todo, ret, cmd, ops, crashes, lost>>

\* Mutant: the new cluster is not cleared.
MutNotCleared ==
  /\ Running("extend_file") /\ EndOf(Args[1]) >= EOC
  /\ get_empty_cluster # -1
  /\ LET new == get_empty_cluster
     IN  Does(<<modify_fat(new, EOC), modify_fat(LastOf(Args[1]), new), Returns(new)>>)

Extend ==
  /\ Running("extend_file") /\ EndOf(Args[1]) >= EOC
  /\ get_empty_cluster # -1
  /\ LET new == get_empty_cluster
     IN  Does(<<modify_fat(new, EOC), modify_fat(LastOf(Args[1]), new),
                WriteData(new, Zero), Returns(new)>>)

-----------------------------------------------------------------------------
(* delete_file *)

DeleteMissing == /\ Running("delete_file") /\ Find(Args[1]) = NotFound
                 /\ Does(<<>>)

\* Mutant: the loop over the chain frees its first cluster only.
MutFreeFirst ==
  /\ Running("free_chain")
  /\ Does(IF InChain(Args[1]) THEN <<modify_fat(Args[1], 0)>> ELSE <<>>)

\* Mutant: the loop over the chain does not go on to the next cluster.
MutFreeStuck ==
  /\ Running("free_chain")
  /\ LET c == Args[1]
     IN  Does(IF InChain(c) THEN <<modify_fat(c, 0), FreeFrom(c)>> ELSE <<>>)

\* The clusters are freed from the first one on.
FreeStep ==
  /\ Running("free_chain")
  /\ LET c == Args[1]
     IN  Does(IF InChain(c) THEN <<modify_fat(c, 0), FreeFrom(get_from_fat(c))>>
              ELSE <<>>)

\* Mutant: the entry is marked before its clusters are freed, and the mark
\* goes to the directory's first entry.
MutMarkFirst ==
  /\ Running("delete_file") /\ Find(Args[1]) # NotFound
  /\ LET loc == Find(Args[1])
         dir == file_path_destination(Front(Args[1]))
         img == [RowOf(dir) EXCEPT ![1].name = "0xE5"]
     IN  Does(<<WriteData(dir, img), FreeFrom(At(loc).cluster)>>)

\* What is in a directory goes first, then the clusters, then the entry, in
\* the sector as it was read before.
Delete ==
  /\ Running("delete_file") /\ Find(Args[1]) # NotFound
  /\ LET p == Args[1]
         loc == Find(p)
         e == At(loc)
         ch == Chain(e.cluster)
         list == [n \in Positions(ch) |-> At(Place(ch, n))]
         img == [RowOf(loc.cluster) EXCEPT ![loc.slot].name = "0xE5"]
     IN  Does(<<DeleteInside(p, IF e.dir THEN list ELSE <<>>, 1),
                FreeFrom(e.cluster), WriteData(loc.cluster, img)>>)

\* The entries inside, as they were listed before the first was deleted.
DeleteInsideStep ==
  /\ Running("delete_inside")
  /\ LET p == Args[1]
         list == Args[2]
         n == Args[3]
     IN  Does(IF n \notin DOMAIN list THEN <<>>
              ELSE IF list[n].name \in Unused THEN <<DeleteInside(p, list, n + 1)>>
              ELSE <<delete_file(Append(p, list[n].name)), DeleteInside(p, list, n + 1)>>)

-----------------------------------------------------------------------------
(* create_file *)

\* Whatever has the name is deleted first.
Create ==
  /\ Running("create_file")
  /\ LET p == Args[1]
     IN  Does(IF Find(p) = NotFound THEN <<CreateAt(p, Args[2])>>
              ELSE <<delete_file(p), CreateAt(p, Args[2])>>)

\* get_file_location, FIND_NEW: an unused entry, or else a new cluster.
FindNew ==
  /\ Running("find_new")
  /\ LET p == Args[1]
         c == file_path_destination(Front(p))
         loc == FirstPlace(c, LAMBDA e : e.name \in Unused)
     IN  Does(IF c = -1 THEN <<>>
              ELSE IF loc # NotFound THEN <<PlaceAt(loc, p, Args[2])>>
              ELSE <<extend_file(c), PlaceInNew(p, Args[2])>>)

EntryInNew ==
  /\ Running("entry_in_new")
  /\ Does(IF ret = 1 THEN <<>>
          ELSE <<PlaceAt([cluster |-> ret, slot |-> 1], Args[1], Args[2])>>)

\* create_file's entry, and the sector it goes to.
WithEntry(loc, p, d, new) ==
  WriteData(loc.cluster, [RowOf(loc.cluster) EXCEPT ![loc.slot] = Entry(Last(p), d, new)])

\* Mutant: the cluster is not marked as in use.
MutNotMarked ==
  /\ Running("new_entry")
  /\ LET new == get_empty_cluster
     IN  Does(IF new = -1 THEN <<>>
              ELSE <<WriteData(new, Zero), WithEntry(Args[1], Args[2], Args[3], new)>>)

\* Mutant: the entry is written before the cluster is cleared.
MutClearLast ==
  /\ Running("new_entry")
  /\ LET new == get_empty_cluster
     IN  Does(IF new = -1 THEN <<>>
              ELSE <<WithEntry(Args[1], Args[2], Args[3], new),
                     WriteData(new, Zero), modify_fat(new, EOC)>>)

\* The cluster is cleared, the entry written, and only then is the cluster
\* marked as in use.
NewEntry ==
  /\ Running("new_entry")
  /\ LET new == get_empty_cluster
     IN  Does(IF new = -1 THEN <<>>
              ELSE <<WriteData(new, Zero), WithEntry(Args[1], Args[2], Args[3], new),
                     modify_fat(new, EOC)>>)

-----------------------------------------------------------------------------
(* write_to_file *)

\* Mutant: the chain grows by one cluster too many.
MutGrowsTooFar ==
  /\ Running("write_to_file")
  /\ LET p == Args[1]
         t == Args[2]
         start == At(Find(p)).cluster
         size == Len(Chain(start))
     IN  Does(IF Find(p) = NotFound THEN <<>>
              ELSE IF size > Len(t)
                THEN <<modify_fat(LastOf(start), EOC), Fill(start, 1, t)>>
              ELSE IF size < Len(t)
                THEN <<extend_file(start), Grow(Len(t) - size, t, start)>>
              ELSE <<Fill(start, 1, t)>>)

\* The chain grows to the length of the text.  The loop that should shorten
\* one that is too long starts behind its last cluster: it only writes the
\* end mark again.
WriteFile ==
  /\ Running("write_to_file")
  /\ LET p == Args[1]
         t == Args[2]
         start == At(Find(p)).cluster
         size == Len(Chain(start))
     IN  Does(IF Find(p) = NotFound THEN <<>>
              ELSE IF size > Len(t)
                THEN <<modify_fat(LastOf(start), EOC), Fill(start, 1, t)>>
              ELSE IF size < Len(t)
                THEN <<extend_file(start), Grow(Len(t) - size - 1, t, start)>>
              ELSE <<Fill(start, 1, t)>>)

\* Each extension starts at the cluster the last one returned.
GrowStep ==
  /\ Running("grow")
  /\ LET n == Args[1]
         t == Args[2]
         start == Args[3]
     IN  Does(IF n > 0 THEN <<extend_file(ret), Grow(n - 1, t, start)>>
              ELSE IF ret = 1 THEN <<>>
              ELSE <<Fill(start, 1, t)>>)

\* Mutant: the last cluster of the text is left out.
MutFillShort ==
  /\ Running("fill")
  /\ LET c == Args[1]
         i == Args[2]
         t == Args[3]
     IN  Does(IF i >= Len(t) THEN <<>>
              ELSE <<WriteData(c, t[i]), Fill(get_from_fat(c), i + 1, t)>>)

FillStep ==
  /\ Running("fill")
  /\ LET c == Args[1]
         i == Args[2]
         t == Args[3]
     IN  Does(IF i > Len(t) THEN <<>>
              ELSE <<WriteData(c, t[i]), Fill(get_from_fat(c), i + 1, t)>>)

-----------------------------------------------------------------------------
(* The tree a reader sees *)

Paths == UNION {[1..n -> Names] : n \in 1..Depth}

NoNode == [kind |-> "none", text |-> <<>>]
Dir == [kind |-> "dir", text |-> <<>>]
File(t) == [kind |-> "file", text |-> t]

\* file_contents, as a C string: up to the first cluster that is all zeros.
file_contents(c) ==
  LET ch == Chain(c)
      zeros == {n \in DOMAIN ch : data[ch[n]] = Zero}
      size == IF zeros = {} THEN Len(ch) ELSE Min(zeros) - 1
  IN  [n \in 1..size |-> data[ch[n]]]

Node(p) == LET loc == Find(p)
           IN  IF loc = NotFound THEN NoNode
               ELSE IF At(loc).dir THEN Dir
               ELSE File(file_contents(At(loc).cluster))
Tree == [p \in Paths |-> Node(p)]

-----------------------------------------------------------------------------
(* The commands *)

Idle == todo = <<>>

\* A command that has ended, and the machine when it is started again, is
\* followed by a look at the tree.
DoLook ==
  /\ Running("look")
  /\ tree' = Tree
  /\ Does(<<>>)

Start(name, p, t, calls) ==
  /\ Idle /\ ~broken /\ ops < MaxOps /\ name \in Commands
  /\ cmd' = [name |-> name, path |-> p, text |-> t, room |-> Cardinality(Free)]
  /\ todo' = calls
  /\ ops' = ops + 1
  /\ UNCHANGED <<fats, data, ret, broken, crashes, lost>>

cmd_touch(p) == Start("touch", p, <<>>, <<create_file(p, FALSE), Look>>)
cmd_mkdir(p) == Start("mkdir", p, <<>>, <<create_file(p, TRUE), Look>>)
write_editor_buffer(p, t) == Start("save", p, t,
                                     <<create_file(p, FALSE), write_to_file(p, t), Look>>)

\* cmd_rm: without -r a directory is refused.
IsDirectory(p) == Find(p) # NotFound /\ At(Find(p)).dir
cmd_rm(p) == Start("rm", p, <<>>, IF IsDirectory(p) THEN <<Look>> ELSE <<delete_file(p), Look>>)
cmd_rm_r(p) == Start("rm -r", p, <<>>, <<delete_file(p), Look>>)

\* The machine is switched off and started again.
Crash ==
  /\ ~Idle /\ crashes < MaxCrashes
  /\ todo' = <<Look>> /\ broken' = FALSE /\ crashes' = crashes + 1
  /\ UNCHANGED <<fats, data, ret, cmd, ops, lost>>

Init ==
  /\ fats = [k \in 1..NumFats |-> [c \in Entries |-> IF c = Root \/ (Kernel /\ c = Root + 1)
                                                       THEN EOC ELSE 0]]
  /\ data = [c \in Entries |-> IF Kernel /\ c = Root
                                THEN [Zero EXCEPT ![1] = Entry("kernel", FALSE, Root + 1)]
                                ELSE Zero]
  /\ todo = <<>> /\ ret = 0 /\ broken = FALSE
  /\ cmd = [name |-> "none", path |-> <<>>, text |-> <<>>, room |-> 0]
  /\ tree = [p \in Paths |-> NoNode] /\ behind = FALSE
  /\ ops = 0 /\ crashes = 0 /\ lost = 0

Command == \E p \in Paths :
             \/ cmd_touch(p) \/ cmd_mkdir(p) \/ cmd_rm(p) \/ cmd_rm_r(p)
             \/ \E t \in Texts : write_editor_buffer(p, t)

Step == \/ DoWriteFat \/ DoWriteData \/ DoModifyFat \/ DoReturn
        \/ ExtendFails \/ ExtendFull \/ Extend
        \/ DeleteMissing \/ Delete \/ DeleteInsideStep \/ FreeStep
        \/ Create \/ FindNew \/ EntryInNew \/ NewEntry
        \/ WriteFile \/ GrowStep \/ FillStep

\* extend_file or create_file is about to take a cluster behind the partition.
TakesBehind ==
  /\ \/ Running("extend_file") /\ EndOf(Args[1]) >= EOC
     \/ Running("new_entry")
  /\ get_empty_cluster > LastCluster

Next == \/ Step /\ UNCHANGED tree /\ behind' = (behind \/ TakesBehind)
        \/ (Command \/ LoseWrite \/ Crash) /\ UNCHANGED <<tree, behind>>
        \/ DoLook /\ UNCHANGED behind

Spec == Init /\ [][Next]_vars /\ WF_<<todo, broken>>(Step \/ DoLook)

-----------------------------------------------------------------------------
(* Properties *)

\* Types of the state: the FAT's values, the entries' clusters.
TypeOK ==
  /\ fats \in [1..NumFats -> [Entries -> Links]]
  /\ \A c \in Entries : \A s \in 1..Slots : RowOf(c)[s].cluster \in Links /\ RowOf(c)[s].dir \in BOOLEAN
  /\ ret \in Entries \cup {0, 1} /\ broken \in BOOLEAN /\ behind \in BOOLEAN

Live == {p \in Paths : Find(p) # NotFound}
ClustersOf(p) == Range(Chain(IF p = <<>> THEN Root ELSE At(Find(p)).cluster))
Owners == Live \cup {<<>>} \cup (IF Kernel THEN {<<"kernel">>} ELSE {})

\* No cluster ever belongs to two files or directories: not even halfway
\* through a command, where the machine might be switched off
\* (get_empty_cluster, extend_file, create_file: fatparser.c:373-415, 636-688).
\* This and the next five hold until a cluster behind the partition is handed
\* out: what is written there, new directories' entries too, is lost.
NotShared ==
  ~behind => LET claims == {<<p, ClustersOf(p)>> : p \in Owners}
             IN  \A a, b \in claims : a # b => a[2] \cap b[2] = {}

\* Between commands every cluster in use belongs to a file or directory that
\* can be reached: delete_file gives back all it took, in whatever order its
\* recursion meets them (fatparser.c:532-594).
NoneLost == Idle /\ ~behind =>
              {c \in Entries : fats[1][c] # 0} = UNION {ClustersOf(p) : p \in Owners}

\* A command disturbs nothing but its own path and what lies below it, at no
\* point of its run: this is also what a crash in its middle leaves alone.
OthersIntact == ~behind => \A q \in Paths : ~IsPrefix(cmd.path, q) => Node(q) = tree[q]

\* Halfway through touch or save the file is as it was, gone, or a first part
\* of the old text or of the new one; never a mixture, and never what another
\* file left in its clusters (create_file and write_to_file as called by
\* write_editor_buffer, galatea.c:57-65).
TornShort ==
  cmd.name \in {"touch", "save"} /\ ~behind =>
    LET old == tree[cmd.path]
        now == Node(cmd.path)
    IN  \/ now \in {old, NoNode}
        \/ now.kind = "file" /\ (IsPrefix(now.text, old.text) \/ IsPrefix(now.text, cmd.text))

\* Between commands a directory's clusters hold entries and no text of a file
\* they belonged to before (extend_file clears them, fatparser.c:407-412).
DirsHoldEntries ==
  Idle /\ ~behind => \A p \in Owners : p = <<>> \/ At(Find(p)).dir =>
                       \A c \in ClustersOf(p) : TextEntry \notin Range(RowOf(c))

\* The commands implement the abstract tree: each does all of what it
\* promises when it has ended, or nothing, until a cluster behind the
\* partition is handed out.
FS == INSTANCE FileSys
        WITH cmd <- [name |-> cmd.name, path |-> cmd.path, text |-> cmd.text],
             spoilt <- behind
Implements == FS!Spec

\* Every set of clusters has one that does not lead back into it.
NoCircle(fat) == \A S \in SUBSET Entries : S # {} => \E c \in S : fat[c] \notin S

\* No walk along the FAT ever goes in a circle, whatever writes were lost and
\* wherever the machine was switched off: none of the loops over get_from_fat
\* (fatparser.c:79, 126, 159, 355, 399, 585) runs for ever.
Acyclic == NoCircle(fats[1])

\* A command never runs out of clusters, and so never damages the heap
\* (extend_file does not look at get_empty_cluster's result,
\* fatparser.c:404-406), if at its start more were empty than its text takes:
\* the one more is for a directory that has to grow.  So whatever is deleted
\* first, and whatever writes are lost on the way.
RoomSuffices == broken => cmd.room <= Len(cmd.text)

\* Every command ends, also on a disk that a crash or a lost write has left
\* inconsistent, unless the heap is damaged.
OpsEnd == ~Idle ~> Idle \/ broken

\* After the editor has reported "saved" (galatea.c:61) the file holds the text.
SavedIsThere ==
  /\ Idle /\ cmd.name = "save"
  /\ Front(cmd.path) = <<>> \/ tree[Front(cmd.path)] = Dir
  => tree[cmd.path] = File(cmd.text)

\* The inductive invariant behind Acyclic.  Of the calls still to be made only
\* those that end in a write to the FAT matter: what modify_fat will link to
\* leads nowhere until it is linked, is not the cluster it is linked from, and
\* nothing but FAT writes comes before it.
FatCall(t) == t.f \in {"write_fat", "modify_fat"}
LinkCall(t) == t.f = "modify_fat" /\ t.args[2] \in Entries
LeadsNowhere(v, t) == t.f = "write_fat" => t.args[2][v] \notin Entries

CallOK(t) == /\ t.f = "write_fat" => t.args[2] \in [Entries -> Links] /\ NoCircle(t.args[2])
             /\ t.f = "modify_fat" => t.args[2] \in Links

LinkOK(i) == /\ todo[i].args[1] # todo[i].args[2]
             /\ fats[1][todo[i].args[2]] \notin Entries
             /\ \A j \in 1..i-1 : /\ FatCall(todo[j]) /\ ~LinkCall(todo[j])
                                  /\ LeadsNowhere(todo[i].args[2], todo[j])

Pending == /\ todo \in Seq(Range(todo))
           /\ \A i \in 1..Len(todo) : CallOK(todo[i]) /\ (LinkCall(todo[i]) => LinkOK(i))

IInv == /\ fats \in [1..NumFats -> [Entries -> Links]]
        /\ broken \in BOOLEAN
        /\ Acyclic /\ Pending
=============================================================================
