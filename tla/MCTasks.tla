------------------------------ MODULE MCTasks ------------------------------
(***************************************************************************)
(* A small instance of Tasks for TLC.  The two aspects share their model   *)
(* values (a frame and a relative may have the same name): one permutation *)
(* then serves both, and no behaviour uses a name in two roles.            *)
(***************************************************************************)
EXTENDS Tasks, TLC

Symmetry == Permutations(Thread) \cup Permutations(Task) \cup Permutations(Frame)
=============================================================================
