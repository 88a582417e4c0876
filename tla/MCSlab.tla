------------------------------- MODULE MCSlab -------------------------------
(***************************************************************************)
(* Three caches of the kernel's own sizes, whose pages hold three, two and *)
(* one object.                                                             *)
(***************************************************************************)
EXTENDS Slab, TLC

\* The table of kernel/mm/slab.c, all of it.
KernelSizes == {8, 16, 32, 64, 96, 128, 192, 256, 512, 1024, 1536, 2048}

\* Every cache of the kernel leaves room for the node of its last slot.
ASSUME KernelSizesFit ==
  \A c \in KernelSizes : NodeAt(c, capacity(c)) + SizeofListHead <= PAGE_SIZE
\* The frames are interchangeable.
PageSymmetry == Permutations(Pages)
=============================================================================
