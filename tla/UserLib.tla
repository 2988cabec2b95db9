------------------------------ MODULE UserLib ------------------------------
(***************************************************************************)
(* A program whose threads share a semaphore (UserSem) and a reader/writer *)
(* lock (RwLock) of the user library.                                      *)
(***************************************************************************)
EXTENDS UserSem, RwLock

vars == <<condVars, count, lock>>

TypeOK ==
    /\ CondType /\ RwType /\ count \in 0..Count
    /\ pc \in [Thread -> {"out", "deschedule", "relock", "in", "read", "write"}]

Init == CondInit /\ sem_init /\ rwlock_init

(* The steps of a thread inside cond_wait.                                 *)
Inside(t) ==
    \/ deschedule(t) /\ UNCHANGED <<count, lock>>
    \/ sem_woken(t) /\ UNCHANGED lock
    \/ rwlock_woken(t) /\ UNCHANGED count

Release(t) ==
    \/ sem_signal(t) /\ UNCHANGED lock
    \/ rwlock_unlock(t) /\ UNCHANGED count

Next ==
    \E t \in Thread :
        \/ Inside(t) \/ Release(t)
        \/ sem_wait(t) /\ UNCHANGED lock
        \/ (rwlock_lock(t) \/ rwlock_downgrade(t)) /\ UNCHANGED count

(* The kernel runs every runnable thread, a thread that tries for the      *)
(* spinning mutex again and again gets it in the end, and a holder gives   *)
(* back what it holds.                                                     *)
Spec ==
    /\ Init /\ [][Next]_vars
    /\ \A t \in Thread : WF_vars(Inside(t)) /\ WF_vars(Release(t))
=============================================================================
