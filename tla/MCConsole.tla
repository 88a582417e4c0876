------------------------------ MODULE MCConsole ------------------------------
(* A ring of three slots, lines of five characters and words of two, so a  *)
(* line has several words, or one that is too long.                        *)
EXTENDS Console
=============================================================================
