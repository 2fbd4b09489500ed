----------------------------- MODULE MCFileVersions -----------------------------
(***************************************************************************)
(* FileVersions on small instances.  Two versions are kept instead of      *)
(* three, so that four requests can fill the list, overflow it and still   *)
(* delete or roll back.  Requests are interchangeable.                     *)
(***************************************************************************)
EXTENDS FileVersions

Symmetry == Permutations(Requests)
=============================================================================
