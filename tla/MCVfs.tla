------------------------------- MODULE MCVfs --------------------------------
(* A directory with a file in it and a file beside it, asked for from the  *)
(* root and from the current directory; the caches hold fewer items than   *)
(* there are names.                                                        *)
EXTENDS Vfs, TLC

MCPaths == {<< >>, <<"a">>, <<"a", "b">>, <<"c">>, <<"a", "d">>}
MCDirs == {<< >>, <<"a">>}
MCRequests ==
  {[abs |-> TRUE, comps |-> <<"a">>], [abs |-> TRUE, comps |-> <<"a", "b">>],
   [abs |-> FALSE, comps |-> <<"c">>], [abs |-> FALSE, comps |-> <<"d">>],
   [abs |-> FALSE, comps |-> <<"..", ".", "c">>]}
Symmetry == Permutations(Handles)
=============================================================================
