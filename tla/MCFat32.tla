------------------------------- MODULE MCFat32 -------------------------------
(* Two files and two handles over three clusters besides the directory's;  *)
(* a cluster holds two bytes, so files grow, shrink and cross blocks.      *)
EXTENDS Fat32, TLC

CONSTANTS f1, f2

MCBytes == (f1 :> {1}) @@ (f2 :> {2})
MCOffsets == {0, -2}
Symmetry == Permutations(Handles)
=============================================================================
