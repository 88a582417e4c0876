------------------------------ MODULE MCBuddy -------------------------------
(* The buddy allocator over two blocks of the highest level.               *)
EXTENDS Buddy
=============================================================================
