------------------------------ MODULE MCBootmm ------------------------------
(* The boot memory manager with a small memory and a small table.          *)
EXTENDS Bootmm

MCBeyond == [start |-> 0, length |-> 0]
=============================================================================
