----------------------------- MODULE Deschedule -----------------------------
(***************************************************************************)
(* deschedule and make_runnable (syscalls/thread_syscalls.c).  Each thread *)
(* has a condition variable and a mutex of its own, named like the thread. *)
(*                                                                         *)
(* Threads use the calls the way the specification of deschedule intends:  *)
(* to wake a thread, set its reject word and then call make_runnable.      *)
(* Threads do not exit here.                                               *)
(***************************************************************************)
EXTENDS CondVar

ASSUME DescheduleAssumption == Thread \subseteq Cond

VARIABLES reject,   \* the word deschedule looks at, in user memory
          target    \* the thread a make_runnable call is about

DeschedulePc == {"test", "block", "relock", "unlock", "find", "check", "signal", "wake"}

DescheduleType ==
    /\ reject \in [Thread -> BOOLEAN]
    /\ target \in [Thread -> Thread \cup {NoThread}]

DescheduleInit ==
    /\ reject = [t \in Thread |-> FALSE]
    /\ target = [t \in Thread |-> NoThread]
-----------------------------------------------------------------------------
(* User code: forget earlier wakeups before the next deschedule.           *)
clear_reject(t) ==
    /\ Goto(t, "user", "user")
    /\ reject' = [reject EXCEPT ![t] = FALSE]
    /\ UNCHANGED <<status, runs, mutex, waiting, target>>

(* User code: set the word of u, then call make_runnable(u).               *)
set_reject(t, u) ==
    /\ Goto(t, "user", "find")
    /\ u # t
    /\ reject' = [reject EXCEPT ![u] = TRUE]
    /\ target' = [target EXCEPT ![t] = u]
    /\ UNCHANGED <<status, runs, mutex, waiting>>

deschedule(t) ==
    /\ Goto(t, "user", "test")
    /\ mutex_lock(t, t)
    /\ UNCHANGED <<status, runs, waiting, reject, target>>

(* The word is set: return at once.                                        *)
rejected(t) ==
    /\ Goto(t, "test", "user")
    /\ reject[t]
    /\ mutex_unlock(t, t)
    /\ UNCHANGED <<status, runs, waiting, reject, target>>

wait_queue(t) ==
    /\ Goto(t, "test", "block")
    /\ ~reject[t]
    /\ cond_wait_queue(t, t)
    /\ UNCHANGED <<status, runs, mutex, reject, target>>

wait_block(t) ==
    /\ Goto(t, "block", "relock")
    /\ cond_wait_block(t, t, "DESCHEDULED")
    /\ UNCHANGED <<waiting, reject, target>>

wait_relock(t) ==
    /\ Goto(t, "relock", "unlock")
    /\ mutex_lock(t, t)
    /\ UNCHANGED <<status, runs, waiting, reject, target>>

wait_unlock(t) ==
    /\ Goto(t, "unlock", "user")
    /\ mutex_unlock(t, t)
    /\ UNCHANGED <<status, runs, waiting, reject, target>>
-----------------------------------------------------------------------------
make_runnable(t) ==
    /\ Goto(t, "find", "check")
    /\ mutex_lock(t, target[t])
    /\ UNCHANGED <<status, runs, waiting, reject, target>>

(* The thread is not descheduled: ERR_INVAL.                               *)
not_descheduled(t) ==
    /\ Goto(t, "check", "user")
    /\ status[target[t]] # "DESCHEDULED"
    /\ mutex_unlock(t, target[t])
    /\ target' = [target EXCEPT ![t] = NoThread]
    /\ UNCHANGED <<status, runs, waiting, reject>>

is_any(t) ==   \* fault: the status is not looked at
    /\ Goto(t, "check", "signal")
    /\ UNCHANGED <<status, runs, mutex, waiting, reject, target>>

is_descheduled(t) ==
    /\ Goto(t, "check", "signal")
    /\ status[target[t]] = "DESCHEDULED"
    /\ UNCHANGED <<status, runs, mutex, waiting, reject, target>>

make_runnable_signal(t) ==
    /\ Goto(t, "signal", "wake")
    /\ cond_signal(target[t])
    /\ UNCHANGED <<mutex, reject, target>>

make_runnable_unlock(t) ==
    /\ Goto(t, "wake", "user")
    /\ mutex_unlock(t, target[t])
    /\ target' = [target EXCEPT ![t] = NoThread]
    /\ UNCHANGED <<status, runs, waiting, reject>>

InDeschedule(t) ==
    \/ rejected(t) \/ wait_queue(t) \/ wait_block(t) \/ wait_relock(t) \/ wait_unlock(t)
    \/ make_runnable(t) \/ not_descheduled(t) \/ is_descheduled(t)
    \/ make_runnable_signal(t) \/ make_runnable_unlock(t)

DescheduleCall(t) == clear_reject(t) \/ deschedule(t) \/ \E u \in Thread : set_reject(t, u)
-----------------------------------------------------------------------------
(* make_runnable returns 0 only to the caller that wakes the thread: when  *)
(* it signals, the thread still sleeps in deschedule (not in sem_wait, and *)
(* not woken by a third thread since its status was looked at).            *)
SuccessWakes ==
    \A t \in Thread : pc[t] = "signal" =>
        status[target[t]] = "DESCHEDULED" /\ waiting[target[t]] = <<target[t]>>

(* make_runnable works: a thread that someone wakes leaves deschedule.     *)
WokenRuns ==
    \A u \in Thread : (status[u] = "DESCHEDULED" /\ reject[u]) ~> (status[u] = "RUNNABLE")
=============================================================================
