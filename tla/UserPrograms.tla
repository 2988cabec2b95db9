---------------------------- MODULE UserPrograms ----------------------------
(***************************************************************************)
(* Three user programs: one whose threads share a semaphore and a          *)
(* reader/writer lock, one that runs a group of threads, and one that      *)
(* calls a pure function of the C library.  A behaviour is a run of one of *)
(* them.                                                                   *)
(***************************************************************************)
EXTENDS UserLib, ThreadGroup, Qdivrem, Qsort

CONSTANTS Keys, MaxLength   \* the arrays to sort

VARIABLE program

libraryVars == <<division, sorted>>

programVars == <<vars, groupVars, libraryVars, program>>

LibraryInit == DivideInit /\ SortInit

ProgramsInit ==
    /\ Init /\ GroupInit /\ LibraryInit
    /\ program \in {"locks", "group", "library"}

(* These functions keep nothing from call to call, so one call is enough.  *)
LibraryNext ==
    /\ LibraryInit
    /\ \/ \E uq \in 0..B^4 - 1, vq \in 1..B^4 - 1 : divide(uq, vq) /\ UNCHANGED sorted
       \/ \E n \in 1..MaxLength : \E a \in [1..n -> Keys] : sort(a) /\ UNCHANGED division

ProgramsNext ==
    \/ program = "locks" /\ Next /\ UNCHANGED <<groupVars, libraryVars, program>>
    \/ program = "group" /\ GroupNext /\ UNCHANGED <<count, lock, libraryVars, program>>
    \/ program = "group" /\ GroupEnded /\ UNCHANGED programVars
    \/ program = "library" /\ LibraryNext /\ UNCHANGED <<vars, groupVars, program>>
    \/ program = "library" /\ ~LibraryInit /\ UNCHANGED programVars

(* The kernel runs every runnable thread, a thread that tries for the      *)
(* spinning mutex again and again gets it in the end, a holder gives back  *)
(* what it holds, and the function a worker runs ends.                     *)
ProgramsSpec ==
    /\ ProgramsInit /\ [][ProgramsNext]_programVars
    /\ \A t \in Thread : /\ WF_vars(program = "locks" /\ Inside(t))
                         /\ WF_vars(program = "locks" /\ Release(t))
    /\ WF_<<condVars, groupVars>>(program = "group" /\ MainStep)
    /\ \A w \in Worker : WF_<<condVars, groupVars>>(program = "group" /\ WorkerStep(w))
-----------------------------------------------------------------------------
(* Every call of thrgrp_create and of thrgrp_join returns: main misses     *)
(* neither the signal of the group nor the one of the thread it then joins.*)
JoinReturns == program = "group" /\ pc[Main] # "out" ~> pc[Main] = "out"
=============================================================================
