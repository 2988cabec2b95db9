------------------------------- MODULE Tasks -------------------------------
(***************************************************************************)
(* What the kernel keeps of a task, side by side: its address space (Vm)   *)
(* and its place in the family of tasks (WaitVanish).  fork and vanish     *)
(* work on one after the other and the two share no variable, so what      *)
(* holds of each alone holds of every interleaving, and a behaviour        *)
(* exercises one of them.                                                  *)
(***************************************************************************)
EXTENDS Vm

CONSTANTS Relative, InitTask   \* the tasks of the family

VARIABLES aspect,
          life_pc, status, runs, mutex, waiting, parent, alive, dead, struct,
          victim, first, second, torn

Family == INSTANCE WaitVanish WITH Thread <- Relative, Cond <- Relative, pc <- life_pc

familyVars == <<life_pc, status, runs, mutex, waiting, parent, alive, dead, struct,
                victim, first, second, torn>>
taskVars == <<vars, familyVars, aspect>>

TasksInit == Init /\ Family!Init /\ aspect \in {"memory", "family"}

TasksNext ==
    \/ aspect = "memory" /\ Next /\ UNCHANGED <<familyVars, aspect>>
    \/ aspect = "family" /\ Family!Next /\ UNCHANGED <<vars, aspect>>

TasksSpec == TasksInit /\ [][TasksNext]_taskVars
-----------------------------------------------------------------------------
(* A task is reaped once, by the wait of its parent (or of init).          *)
ReapedOnce == Family!ReapedOnce

(* No task is forgotten between fork and the wait that reaps it.           *)
NoChildLost == Family!NoChildLost
=============================================================================
