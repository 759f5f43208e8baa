------------------------------ MODULE MCMemory ------------------------------
(***************************************************************************)
(* The instances of the memory managers TLC checks: 22 pages, of which 1   *)
(* is the kernel, 14 the pool (one of them taken by a module), 4 the heap  *)
(* and 3 are frames.  An address space has 6 page tables of 6 pages: 4 are *)
(* the kernel's, of which the boot has used 3, one holds the images and    *)
(* one the user heap, which begins 3 pages before the end.                 *)
(***************************************************************************)
EXTENDS Memory, TLC

SmallImage == <<[at |-> 24, pages |-> 1]>>
LargeImage == <<[at |-> 24, pages |-> 1], [at |-> 25, pages |-> 1]>>

MCImages == {SmallImage, LargeImage}

ProcSymmetry == Permutations(Procs \ Boot)
=============================================================================
