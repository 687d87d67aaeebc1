------------------------------ MODULE FileSys -------------------------------
(***************************************************************************)
(* What the file commands promise, without a disk: a tree of nodes, and    *)
(* commands that each change one path and what lies below it as they were  *)
(* asked to, in one step.  They promise nothing more once what they were   *)
(* given no longer holds what is written to it (spoilt).                   *)
(***************************************************************************)
EXTENDS Sequences, SequencesExt

CONSTANTS Paths, Texts

VARIABLES tree,
          cmd,   \* the command asked for last: its name, path and text
          spoilt

NoNode == [kind |-> "none", text |-> <<>>]
Dir == [kind |-> "dir", text |-> <<>>]
File(t) == [kind |-> "file", text |-> t]

Below(q, p) == IsStrictPrefix(p, q)

IsDir(p) == p = <<>> \/ tree[p].kind = "dir"

\* The node at p becomes n; what lay below it is gone.
Replaced(p, n) == [q \in Paths |-> IF q = p THEN n
                                   ELSE IF Below(q, p) THEN NoNode ELSE tree[q]]

Init == /\ tree = [p \in Paths |-> NoNode]
        /\ cmd = [name |-> "none", path |-> <<>>, text |-> <<>>]
        /\ spoilt = FALSE

\* touch, mkdir and the editor's save make a new node, whatever was there.
Made == [touch |-> File(<<>>), mkdir |-> Dir, save |-> File(cmd.text)]
Make == /\ cmd.name \in DOMAIN Made
        /\ IsDir(Front(cmd.path))
        /\ tree' = Replaced(cmd.path, Made[cmd.name])

\* rm leaves directories alone.
Removes == \/ cmd.name = "rm -r" /\ tree[cmd.path] # NoNode
           \/ cmd.name = "rm" /\ tree[cmd.path].kind = "file"
Unlink == Removes /\ tree' = Replaced(cmd.path, NoNode)

\* Only a command that makes something may do nothing: the disk may be full.
Ask == /\ ~Removes
       /\ \E name \in {"touch", "mkdir", "save", "rm", "rm -r"}, p \in Paths,
             t \in Texts \cup {<<>>} :
            cmd' = [name |-> name, path |-> p, text |-> t]

\* From here on tree and cmd may be anything.
Spoil == spoilt' = TRUE

Next == \/ Ask /\ UNCHANGED <<tree, spoilt>>
        \/ (Make \/ Unlink) /\ UNCHANGED <<cmd, spoilt>>
        \/ Spoil

Spec == Init /\ [][Next]_<<tree, cmd, spoilt>>
=============================================================================
