------------------------------- MODULE Names -------------------------------
(***************************************************************************)
(* Names and paths of src/fatparser.c.  A name as typed is the sequence of *)
(* its parts between periods, a part the sequence of its letters: "a.bc"   *)
(* is <<<<"a">>, <<"b","c">>>>.  A path as typed is [abs, comps], where    *)
(* abs says that it begins with a slash and an empty name stands between   *)
(* two slashes or behind the last.  A stored name has a stem and an        *)
(* extension of fixed lengths, filled up with Blank.                       *)
(***************************************************************************)
EXTENDS Integers, Sequences, SequencesExt

CONSTANTS StemLength,   \* 8
          ExtLength,    \* 3
          Blank,
          MAX_PATH_DEPTH

Longest == StemLength + 1 + ExtLength

Empty == <<<<>>>>
Dot == <<<<>>, <<>>>>
DotDot == <<<<>>, <<>>, <<>>>>

\* strlen: the letters and the periods.
Length(name) ==
  LET n[k \in 0..Len(name)] == IF k = 0 THEN Len(name) - 1 ELSE n[k-1] + Len(name[k])
  IN  n[Len(name)]

Padded(part, n) == [k \in 1..n |-> IF k <= Len(part) THEN part[k] ELSE Blank]
Unpadded(part) == SelectSeq(part, LAMBDA letter : letter # Blank)

Legal(name) ==
  /\ Length(name) \in 1..Longest /\ Len(name) <= 2
  /\ \E k \in DOMAIN name : name[k] # <<>>
  /\ Len(name) = 2 => Len(name[1]) <= StemLength /\ Len(name[2]) <= ExtLength

\* The loop over the extension leaves out the terminating zero and goes on
\* behind it, where it finds the byte behind.
ReadsBehind(name) == Len(name) = 2 /\ Len(name[2]) + 1 < ExtLength
Extension(part, behind) ==
  [k \in 1..ExtLength |-> IF k <= Len(part) THEN part[k]
                          ELSE IF k = Len(part) + 1 THEN Blank ELSE behind]

NoName == [stem |-> <<>>, ext |-> <<>>]

\* A stem without a period is cut.
plaintext_to_filename(name, behind) ==
  IF ~Legal(name) THEN NoName
  ELSE [stem |-> Padded(name[1], StemLength),
        ext  |-> IF Len(name) = 2 THEN Extension(name[2], behind) ELSE Padded(<<>>, ExtLength)]

filename_to_plaintext(f) ==
  IF Unpadded(f.ext) = <<>> THEN <<Unpadded(f.stem)>> ELSE <<Unpadded(f.stem), Unpadded(f.ext)>>

-----------------------------------------------------------------------------
(* Paths.  The working directory is the sequence of its names. *)

append_path(wd, path) ==
  IF path.abs THEN path.comps ELSE IF path.comps = <<Empty>> THEN wd ELSE wd \o path.comps

\* At the root ".." changes nothing.
Normalized(dirs, name) ==
  IF name \in {Empty, Dot} THEN dirs
  ELSE IF name = DotDot THEN IF dirs = <<>> THEN dirs ELSE Front(dirs)
  ELSE Append(dirs, name)

normalize_path(comps) ==
  LET dirs[k \in 0..Len(comps)] == IF k = 0 THEN <<>> ELSE Normalized(dirs[k-1], comps[k])
  IN  dirs[Len(comps)]

\* What the walk of file_path_destination has come to: the directories left
\* behind and the one it is in; Lost once it has failed.  Step(d, f) is the
\* directory stored under f in d, or -1.  The buffer for a name is cleared
\* before each, so that nothing but zeros is behind it.
Lost == <<-1>>
Walk(Step(_, _), stack, name) ==
  IF stack = Lost \/ name \in {Empty, Dot} THEN stack
  ELSE IF name = DotDot THEN IF Len(stack) = 1 THEN Lost ELSE Front(stack)
  ELSE IF Length(name) > Longest \/ Len(stack) > MAX_PATH_DEPTH \/ ~Legal(name) THEN Lost
  ELSE LET next == Step(Last(stack), plaintext_to_filename(name, Blank))
       IN  IF next = -1 THEN Lost ELSE Append(stack, next)

file_path_destination(Step(_, _), root, comps) ==
  LET stack[k \in 0..Len(comps)] == IF k = 0 THEN <<root>> ELSE Walk(Step, stack[k-1], comps[k])
  IN  Last(stack[Len(comps)])

\* get_file_location: the text before the last slash, and the name behind it.
\* Of "/x" that text is empty, which append_path takes for the working
\* directory.
DirectoryOf(wd, path) ==
  IF Len(path.comps) = 1 THEN append_path(wd, [abs |-> FALSE, comps |-> <<Empty>>])
  ELSE append_path(wd, [path EXCEPT !.comps = Front(@)])
=============================================================================
