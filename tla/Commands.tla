------------------------------ MODULE Commands ------------------------------
(***************************************************************************)
(* The commands of src/commands.c that name files: which entries they find *)
(* from which working directory, and what a restart makes of the font they *)
(* have chosen.  An entry is a member of entries; its clusters and the     *)
(* writes it takes are Fat's business.  ls, cat and pwd find what they     *)
(* name in the same way and change nothing.                                *)
(*                                                                         *)
(* A new entry takes the lowest free id, and ids are the order of the      *)
(* entries.  The entries "." and ".." of directories not made by mkdir are *)
(* left out: no walk looks them up and delete_file passes them by.         *)
(***************************************************************************)
EXTENDS Names, Player

CONSTANTS Paths,      \* the paths given to commands
          FontData,   \* /SYS/FONT/FONTDATA
          Disk,       \* the entries of the disk image
          PlayedNotes,\* the notes given to play
          Behind,     \* bytes that may stand behind a string, Blank for zero
          MaxEntries, \* bound on the entries
          MaxOps      \* bound on the commands

Kinds == {"dir", "text", "path", "font", "song"}

ASSUME CommandsAssumption ==
  /\ MaxEntries \in Nat /\ MaxOps \in Nat
  /\ IsFiniteSet(Disk)
  /\ \A e \in Disk : e \in [id : Nat, dir : Nat, name : {e.name}, kind : Kinds, holds : {e.holds}]
  \* what a song gives as its tempo is a number
  /\ str_to_int \in [DOMAIN str_to_int -> Int]
  /\ \A e \in Disk : e.kind = "song" =>
       e.holds \in Seq(STRING) /\ (Len(e.holds) > 1 => e.holds[2] \in DOMAIN str_to_int)

VARIABLES entries,  \* [id, dir, name, kind, holds]
          wd,       \* working_dir
          todo,     \* the calls to be made
          cmd,      \* touch or mkdir, if run last: its path and working directory
          made,     \* whether it has made an entry
          panicked, \* psf_loader found no font
          orphans,  \* history: there are entries whose directory has gone
          odd,      \* history: a command was given a path that get_file_location misreads
          cut,      \* history: one was given the working directory or what it is in
          safe,     \* history: what the next start needs has been left alone
          ops

vars == <<entries, wd, todo, cmd, made, panicked, orphans, odd, cut, safe, ops,
          tokens, next, heard, song, divided>>

Root == 0
None == [id |-> -1, dir |-> -1, name |-> NoName, kind |-> "none", holds |-> <<>>]
Slash == [abs |-> TRUE, comps |-> <<Empty>>]

-----------------------------------------------------------------------------
(* Finding *)

\* The directory stored under f in d: the last one.
Directory(es, d, f) ==
  LET hits == {e \in es : e.dir = d /\ e.name = f /\ e.kind = "dir"}
  IN  IF hits = {} THEN -1 ELSE Max({e.id : e \in hits})
Destination(es, comps) == file_path_destination(LAMBDA d, f : Directory(es, d, f), Root, comps)

\* get_file_location, FIND_EXISTS: the first entry of the name.
Located(es, w, path, behind) ==
  LET d == Destination(es, DirectoryOf(w, path))
      f == plaintext_to_filename(Last(path.comps), behind)
      hits == {e \in es : d # -1 /\ e.dir = d /\ e.name = f}
  IN  IF hits = {} THEN None ELSE CHOOSE e \in hits : \A o \in hits : e.id <= o.id
Find(path, behind) == Located(entries, wd, path, behind)

\* psf_loader's two calls of file_contents.
FontLoads(es, w, behind) ==
  LET data == Located(es, w, FontData, Blank)
  IN  data.kind = "path" /\ Located(es, w, data.holds, behind).kind = "font"

-----------------------------------------------------------------------------
(* delete_file and create_file *)

Delete(path) == [f |-> "delete", path |-> path, kind |-> "none", id |-> -1]
Mark(id) == [f |-> "mark", path |-> Slash, kind |-> "none", id |-> id]
Create(path, kind) == [f |-> "create", path |-> path, kind |-> kind, id |-> -1]

Running(f) == todo # <<>> /\ ~panicked /\ Head(todo).f = f
Becomes(calls) == todo' = calls \o Tail(todo)

\* Mutant: what is inside is looked for by name alone.
MutInside(path, name) == [abs |-> FALSE, comps |-> <<filename_to_plaintext(name)>>]

\* The name of an entry is put behind the path of its directory.
Inside(path, name) == [path EXCEPT !.comps = Append(@, filename_to_plaintext(name))]

ById(es) == [n \in 1..Cardinality(es) |->
               CHOOSE e \in es : Cardinality({o \in es : o.id < e.id}) = n - 1]

\* What is in a directory is deleted by name, whether that is found or not.
DoDelete ==
  /\ Running("delete")
  /\ \E behind \in Behind :
       LET path == Head(todo).path
           e == Find(path, behind)
           list == ById({o \in entries : e.kind = "dir" /\ o.dir = e.id})
       IN  Becomes(IF e = None THEN <<>>
                   ELSE [n \in DOMAIN list |-> Delete(Inside(path, list[n].name))] \o <<Mark(e.id)>>)
  /\ UNCHANGED <<entries, wd, cmd, made, panicked, orphans, odd, cut, safe, ops, player>>

Under(id) ==
  LET ids[n \in 0..MaxEntries] ==
        IF n = 0 THEN {id}
        ELSE LET above == ids[n-1]
             IN  above \cup {e.id : e \in {o \in entries : o.dir \in above}}
  IN  {e \in entries : e.dir \in ids[MaxEntries]}

\* Mutant: the first entry of the disk is marked.
MutUnmarked(id) == {e \in entries : \E o \in entries : o.id < e.id}

Unmarked(id) == {e \in entries : e.id # id}

\* The clusters of the entry are freed and the entry marked as deleted; what
\* is still in it nobody finds any more.
DoMark ==
  /\ Running("mark")
  /\ LET id == Head(todo).id
     IN  /\ entries' = Unmarked(id) \ Under(id)
         /\ orphans' = (orphans \/ Under(id) # {})
  /\ Becomes(<<>>)
  /\ UNCHANGED <<wd, cmd, made, panicked, odd, cut, safe, ops, player>>

DoCreate ==
  /\ Running("create")
  /\ LET path == Head(todo).path
         d == Destination(entries, DirectoryOf(wd, path))
     IN  IF d = -1 \/ ~Legal(Last(path.comps)) THEN UNCHANGED <<entries, made>>
         ELSE /\ \E behind \in Behind :
                   entries' = entries \cup
                     {[id    |-> Min(1..MaxEntries \ {e.id : e \in entries}), dir |-> d,
                       name  |-> plaintext_to_filename(Last(path.comps), behind),
                       kind  |-> Head(todo).kind, holds |-> <<>>]}
              /\ made' = TRUE
  /\ Becomes(<<>>)
  /\ UNCHANGED <<wd, cmd, panicked, orphans, odd, cut, safe, ops, player>>

-----------------------------------------------------------------------------
(* The commands *)

Idle == todo = <<>> /\ tokens = <<>> /\ ~panicked

\* As cd reads a path.
Meant(path) == normalize_path(append_path(wd, path))
Misread(path) == \/ path.abs /\ Len(path.comps) = 1 /\ wd # <<>>
                 \/ ReadsBehind(Last(path.comps))

Given(path) ==
  /\ Idle /\ ops < MaxOps /\ ops' = ops + 1
  /\ cmd' = [path |-> path, wd |-> wd] /\ made' = FALSE

\* A command that deletes or makes what is at the path.
Changes(path, as) ==
  /\ Given(as)
  /\ odd' = (odd \/ Misread(path))
  /\ cut' = (cut \/ IsPrefix(Meant(path), wd))
  /\ safe' = (safe /\ \A e \in entries : e.kind = "path" =>
                \A p \in {FontData, e.holds} : ~IsPrefix(Meant(path), normalize_path(p.comps)))
  /\ Quiet /\ UNCHANGED <<entries, wd, panicked, orphans>>

create_file(path, kind) ==
  /\ Cardinality(entries) < MaxEntries
  /\ Changes(path, path)
  /\ \E behind \in Behind :
       todo' = (IF Find(path, behind) = None THEN <<>> ELSE <<Delete(path)>>) \o <<Create(path, kind)>>

cmd_touch(path) == create_file(path, "text")
cmd_mkdir(path) == create_file(path, "dir")

\* Without -r a directory is refused.
cmd_rm(path) == /\ Changes(path, Slash)
                /\ \E behind \in Behind :
                     todo' = IF Find(path, behind).kind = "dir" THEN <<>> ELSE <<Delete(path)>>
cmd_rm_r(path) == Changes(path, Slash) /\ todo' = <<Delete(path)>>

\* Mutant: whether it leads anywhere is not looked at.
MutGoesTo(path) == Meant(path)

GoesTo(path) == LET comps == Meant(path)
                IN  IF Destination(entries, comps) # -1 THEN comps ELSE wd

cmd_cd(path) == /\ Given(Slash)
                /\ wd' = GoesTo(path)
                /\ cut' = (cut /\ wd' = wd)
                /\ Quiet /\ UNCHANGED <<entries, todo, panicked, orphans, odd, safe>>

\* cmd_fonts, reload_fonts: the path is written as it was given, if there is a
\* file to write it to, and loaded from where the shell is now.
cmd_fonts(path) ==
  /\ Given(Slash)
  /\ \E behind \in Behind, again \in Behind :
       LET data == Find(FontData, Blank)
           written == IF data.kind \in {"none", "dir"} THEN entries
                      ELSE (entries \ {data}) \cup {[data EXCEPT !.kind = "path", !.holds = path]}
       IN  IF Find(path, behind).kind = "font"
           THEN /\ entries' = written /\ panicked' = ~FontLoads(written, wd, again)
                /\ safe' = \A b \in Behind : FontLoads(written, <<>>, b)
           ELSE UNCHANGED <<entries, panicked, safe>>
  /\ Quiet /\ UNCHANGED <<wd, todo, orphans, odd, cut>>

\* cmd_orpheus: only the contents of a song make words.
cmd_orpheus(path) ==
  /\ Given(Slash)
  /\ \E behind \in Behind :
       LET e == Find(path, behind)
       IN  IF e.kind \in {"none", "dir"} THEN Quiet
           ELSE play_song(IF e.kind = "song" THEN e.holds ELSE <<>>)
  /\ UNCHANGED <<entries, wd, todo, panicked, orphans, odd, cut, safe>>

cmd_play(note, word) ==
  /\ Given(Slash) /\ cmd_play_note(note, word)
  /\ UNCHANGED <<entries, wd, todo, panicked, orphans, odd, cut, safe>>

\* The machine is switched off and on between two commands, or after a panic.
Restart ==
  /\ todo = <<>> /\ ops < MaxOps /\ ops' = ops + 1
  /\ wd' = <<>> /\ cut' = FALSE
  /\ Quiet
  /\ \E behind \in Behind : panicked' = ~FontLoads(entries, <<>>, behind)
  /\ cmd' = [path |-> Slash, wd |-> <<>>] /\ made' = FALSE
  /\ UNCHANGED <<entries, todo, orphans, odd, safe>>

Init ==
  /\ entries = Disk /\ wd = <<>> /\ todo = <<>> /\ panicked = FALSE
  /\ cmd = [path |-> Slash, wd |-> <<>>] /\ made = FALSE
  /\ orphans = FALSE /\ odd = FALSE /\ cut = FALSE /\ safe = TRUE /\ ops = 0
  /\ PlayerInit

Next == \/ DoDelete \/ DoMark \/ DoCreate
        \/ \E path \in Paths :
             \/ cmd_touch(path) \/ cmd_mkdir(path) \/ cmd_rm(path) \/ cmd_rm_r(path)
             \/ cmd_cd(path) \/ cmd_fonts(path) \/ cmd_orpheus(path)
        \/ \E note \in PlayedNotes, word \in DOMAIN str_to_int : cmd_play(note, word)
        \/ Restart
        \/ /\ PlayerStep
           /\ UNCHANGED <<entries, wd, todo, cmd, made, panicked, orphans, odd, cut, safe, ops>>

Spec == Init /\ [][Next]_vars

-----------------------------------------------------------------------------
(* Properties *)

\* Wherever file_path_destination comes to at all, normalising the path first,
\* as only cd does, leads to the same place (fatparser.c:253-314, 606-635).
SameDirectory(path) ==
  LET comps == append_path(wd, path)
  IN  Destination(entries, comps) # -1 =>
        Destination(entries, normalize_path(comps)) = Destination(entries, comps)

\* cd goes where every other command would go with the same path, and then the
\* working directory is there, unless a command was given it, or what it is in,
\* as cd reads paths, or a path that is misread (cmd_cd, commands.c:77-96;
\* working_dir is a text, and nothing updates it).
WorkingDirStays ==
  /\ \A path \in Paths : SameDirectory(path)
  /\ todo = <<>> /\ ~cut /\ ~odd => Destination(entries, wd) # -1

\* rm -r, and touch and mkdir over a directory, delete all that is inside: they
\* find it again by the names that filename_to_plaintext gives back - unless a
\* path was misread (delete_file, fatparser.c:559-584).
NoOrphans == orphans => odd

\* A font that was accepted is found by every later start, provided its path
\* leads there from the root and nobody has touched it or FONTDATA: not even
\* where the command itself can load it (reload_fonts, tty.c:54-69).
BootsAgain == panicked /\ ~odd => ~safe

\* What touch and mkdir have made is what the path given names ("creates a
\* file with given name", commands.c:127).
CreatesNamed ==
  todo = <<>> /\ made =>
    LET comps == append_path(cmd.wd, cmd.path)
        d == Destination(entries, Front(comps))
    IN  \E e \in entries : e.dir = d /\ e.name = plaintext_to_filename(Last(comps), Blank)
=============================================================================
