------------------------------ MODULE UserSem ------------------------------
(***************************************************************************)
(* The semaphore of the user library (user/libthread/sem.c), used the way  *)
(* a pool is: sem_wait to enter, sem_signal to leave.                      *)
(***************************************************************************)
EXTENDS UserCond

CONSTANTS Count    \* given to sem_init

ASSUME UserSemAssumption == Count \in Nat \ {0} /\ "sem" \in Cond

VARIABLE count

(* sem_init refuses a count that is not positive.                          *)
sem_init == count = Count

(* The loop of sem_wait from the test on, with the queues q.               *)
sem_loop(t, from, q) ==
    \/ /\ count = 0
       /\ Goto(t, from, "deschedule")
       /\ cond_queue(t, "sem", q)
       /\ UNCHANGED count
    \/ /\ count # 0
       /\ Goto(t, from, "in")
       /\ count' = count - 1
       /\ waiting' = q
       /\ UNCHANGED <<reject, asleep>>

sem_wait(t) == sem_loop(t, "out", waiting)

sem_woken(t) == Awake(t, "sem") /\ sem_loop(t, "relock", left_queue(t))

sem_signal(t) ==
    /\ Goto(t, "in", "out")
    /\ count' = count + 1
    /\ cond_signal("sem")
-----------------------------------------------------------------------------
(* The count is exactly the room that the threads between sem_wait and     *)
(* sem_signal leave, and nobody is left to sleep in sem_wait for good:     *)
(* while a thread sleeps there, another still has a unit to give back, or  *)
(* a thread that was signalled is on its way out of cond_wait.  Two        *)
(* signals in a row may go to the same thread, since cond_signal leaves it *)
(* on the queue; then a thread sleeps on although a unit is free, until    *)
(* the next sem_signal.                                                    *)
NoLostSignal ==
    /\ Cardinality({t \in Thread : pc[t] = "in"}) + count = Count
    /\ SleepsOn("sem") # {} =>
           \E t \in Thread : \/ pc[t] = "in"
                             \/ t \in Range(waiting["sem"]) /\ ~asleep[t] /\ reject[t]
=============================================================================
