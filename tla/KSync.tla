------------------------------- MODULE KSync -------------------------------
(***************************************************************************)
(* Kernel threads that use the semaphore of Sem and the calls of           *)
(* Deschedule in any order, over the condition variables of CondVar.       *)
(***************************************************************************)
EXTENDS Sem, Deschedule

vars == <<condVars, count, reject, target>>

TypeOK ==
    /\ CondType /\ SemType /\ DescheduleType
    /\ pc \in [Thread -> {"user"} \cup SemPc \cup DeschedulePc]

Init == CondInit("user") /\ sem_init /\ DescheduleInit

(* The steps of a thread inside a call.                                    *)
Inside(t) ==
    \/ InSem(t) /\ UNCHANGED <<reject, target>>
    \/ InDeschedule(t) /\ UNCHANGED count

Call(t) ==
    \/ SemCall(t) /\ UNCHANGED <<reject, target>>
    \/ DescheduleCall(t) /\ UNCHANGED count

Next == \E t \in Thread : Inside(t) \/ Call(t)

(* The scheduler runs every runnable thread again and again, and a mutex   *)
(* that becomes free again and again is taken in the end by the thread     *)
(* that tries.                                                             *)
Spec == Init /\ [][Next]_vars /\ \A t \in Thread : SF_vars(Inside(t))
=============================================================================
