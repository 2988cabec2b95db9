-------------------------------- MODULE Sem --------------------------------
(***************************************************************************)
(* The kernel semaphore (sync/sem.c): a condition variable with its mutex, *)
(* and a count.  KSync puts semaphores next to deschedule.                 *)
(***************************************************************************)
EXTENDS CondVar, FiniteSets

CONSTANTS Semaphore, \* the condition variable of the one semaphore
          Count,     \* the count given to sem_init
          MaxCount   \* bound on the count

ASSUME SemAssumption ==
    /\ Semaphore \subseteq Cond /\ \A r, s \in Semaphore : r = s
    /\ Count \in Nat /\ MaxCount \in Nat /\ Count <= MaxCount

VARIABLE count

SemPc == {"sem_test", "sem_block", "sem_relock", "sem_add", "sem_signal", "sem_unlock"}

SemType == count \in [Semaphore -> 0..MaxCount]

sem_init == count = [s \in Semaphore |-> Count]
-----------------------------------------------------------------------------
sem_wait(t, s) ==
    /\ Goto(t, "user", "sem_test")
    /\ mutex_lock(t, s)
    /\ UNCHANGED <<status, runs, waiting, count>>

(* The count is 0: cond_wait.                                              *)
sem_wait_queue(t, s) ==
    /\ Goto(t, "sem_test", "sem_block")
    /\ mutex[s] = t
    /\ count[s] = 0
    /\ cond_wait_queue(t, s)
    /\ UNCHANGED <<status, runs, mutex, count>>

sem_wait_block(t, s) ==
    /\ Goto(t, "sem_block", "sem_relock")
    /\ mutex[s] = t
    /\ cond_wait_block(t, s, "WAITING")
    /\ UNCHANGED <<waiting, count>>

(* Woken: take the mutex again and go back to the test.                    *)
sem_relock(t, s) ==
    /\ Goto(t, "sem_relock", "sem_test")
    /\ mutex_lock(t, s)
    /\ UNCHANGED <<status, runs, waiting, count>>

sem_take(t, s) ==
    /\ Goto(t, "sem_test", "user")
    /\ mutex[s] = t
    /\ count[s] # 0
    /\ count' = [count EXCEPT ![s] = @ - 1]
    /\ mutex_unlock(t, s)
    /\ UNCHANGED <<status, runs, waiting>>

sem_signal(t, s) ==
    /\ Goto(t, "user", "sem_add")
    /\ count[s] < MaxCount
    /\ mutex_lock(t, s)
    /\ UNCHANGED <<status, runs, waiting, count>>

sem_add(t, s) ==
    /\ Goto(t, "sem_add", "sem_signal")
    /\ mutex[s] = t
    /\ count' = [count EXCEPT ![s] = @ + 1]
    /\ UNCHANGED <<status, runs, waiting, mutex>>

sem_wake_first(t, s) ==   \* fault: a waiter is signalled only when the count was 0
    /\ Goto(t, "sem_signal", "sem_unlock")
    /\ mutex[s] = t
    /\ IF count[s] = 1 THEN cond_signal(s) ELSE UNCHANGED <<status, runs, waiting>>
    /\ UNCHANGED <<mutex, count>>

sem_wake(t, s) ==
    /\ Goto(t, "sem_signal", "sem_unlock")
    /\ mutex[s] = t
    /\ cond_signal(s)
    /\ UNCHANGED <<mutex, count>>

sem_unlock(t, s) ==
    /\ Goto(t, "sem_unlock", "user")
    /\ mutex[s] = t
    /\ mutex_unlock(t, s)
    /\ UNCHANGED <<status, runs, waiting, count>>
-----------------------------------------------------------------------------
(* The steps of a thread inside sem_wait or sem_signal.                    *)
InSem(t) ==
    \E s \in Semaphore :
        \/ sem_wait_queue(t, s) \/ sem_wait_block(t, s) \/ sem_relock(t, s) \/ sem_take(t, s)
        \/ sem_add(t, s) \/ sem_wake(t, s) \/ sem_unlock(t, s)

SemCall(t) == \E s \in Semaphore : sem_wait(t, s) \/ sem_signal(t, s)
-----------------------------------------------------------------------------
(* sem_wait returns: a count that is not 0 while threads sleep is taken,   *)
(* or the sleepers are woken.                                              *)
SignalServes ==
    \A s \in Semaphore : (count[s] > 0 /\ waiting[s] # <<>>) ~> (count[s] = 0 \/ waiting[s] = <<>>)
=============================================================================
