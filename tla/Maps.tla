-------------------------------- MODULE Maps --------------------------------
(***************************************************************************)
(* Finite maps as functions whose domain changes: the two updates the      *)
(* modules of this project need beside EXCEPT.                             *)
(***************************************************************************)

\* f with k mapped to v, whether or not k was in its domain.
Put(f, k, v) == [x \in DOMAIN f \cup {k} |-> IF x = k THEN v ELSE f[x]]

\* f without k.
Drop(f, k) == [x \in DOMAIN f \ {k} |-> f[x]]
=============================================================================
