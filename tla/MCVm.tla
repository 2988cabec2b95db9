-------------------------------- MODULE MCVm --------------------------------
(***************************************************************************)
(* Small instances of Vm for TLC.                                          *)
(***************************************************************************)
EXTENDS Vm, TLC

Symmetry == Permutations(Thread) \cup Permutations(Task) \cup Permutations(Frame)
=============================================================================
