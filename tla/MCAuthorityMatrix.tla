------------------------- MODULE MCAuthorityMatrix -------------------------
(* Instances of AuthorityMatrix for TLC. *)
EXTENDS AuthorityMatrix, TLC

Symmetry == Permutations(Editor)
=============================================================================
