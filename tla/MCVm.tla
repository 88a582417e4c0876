-------------------------------- MODULE MCVm --------------------------------
(* Two programs over two page pairs and two frames.  Program 1 uses a      *)
(* whole pair, which makes its TLB entry global, and needs one frame more  *)
(* than it may have.  Program 2 shares a page of that pair, has one of its *)
(* own and attaches shared memory beside it, so frames run out below the   *)
(* limit, also before a program has its first, and are there again after   *)
(* an exit.  Programs store in the first pair and only read the other.     *)
EXTENDS Vm, TLC

MCTouches == [p \in {1, 2} |-> IF p = 1 THEN {0, 1, 2} ELSE {1, 3}]
MCAttaches == [p \in {1, 2} |-> IF p = 1 THEN {} ELSE {2}]
MCData == [p \in {1, 2} |-> [v \in Pages |->
             IF v \in MCTouches[p] \ {2, 3} THEN {10 * p + v} ELSE {}]]

\* Bound: what follows after a program was served by an entry of another is not
\* looked into.
Together == apart
Symmetry == Permutations(Frames) \cup Permutations(Slots)
=============================================================================
