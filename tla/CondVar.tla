------------------------------ MODULE CondVar ------------------------------
(***************************************************************************)
(* Condition variables (sync/cond_var.c), each with the mutex its users    *)
(* pass to cond_wait.  A client module adds what its threads do with them. *)
(*                                                                         *)
(* Mutexes are the lock of BlockingLock.tla, which KMutex.tla implements.  *)
(* RUNNING and RUNNABLE are one status here: any such thread may take the  *)
(* next step.  runs counts how often a thread is current or on the run     *)
(* queue.  Work done under queue_mutex is one step.                        *)
(***************************************************************************)
EXTENDS Integers, Sequences, Functions

CONSTANTS Thread, NoThread, Cond

VARIABLES pc, status, runs,
          mutex,     \* holder of the mutex that goes with a condition variable
          waiting    \* cv->waiting

condVars == <<pc, status, runs, mutex, waiting>>

CondInit(start) ==
    /\ pc = [t \in Thread |-> start]
    /\ status = [t \in Thread |-> "RUNNABLE"]
    /\ runs = [t \in Thread |-> 1]
    /\ mutex = [c \in Cond |-> NoThread]
    /\ waiting = [c \in Cond |-> <<>>]

CondType ==
    /\ status \in [Thread -> {"RUNNABLE", "WAITING", "DESCHEDULED"}]
    /\ runs \in [Thread -> 0..2]
    /\ mutex \in [Cond -> Thread \cup {NoThread}]
    /\ DOMAIN waiting = Cond
    /\ \A c \in Cond : waiting[c] \in Seq(Thread) /\ IsInjective(waiting[c])

Goto(t, from, to) ==
    /\ status[t] = "RUNNABLE"
    /\ pc[t] = from
    /\ pc' = [pc EXCEPT ![t] = to]

mutex_lock(t, c) == mutex[c] = NoThread /\ mutex' = [mutex EXCEPT ![c] = t]

mutex_unlock(t, c) == mutex' = [mutex EXCEPT ![c] = NoThread]

(* The first part of cond_wait: the thread joins the queue, still awake    *)
(* and with the mutex.                                                     *)
cond_wait_queue(t, c) == waiting' = [waiting EXCEPT ![c] = Append(@, t)]

(* The second part.  Interrupts are off from the change of status until    *)
(* mutex_unlock has released the mutex; from then on the scheduler passes  *)
(* the thread over.                                                        *)
unlock_then_block(t, c, st) ==  \* fault: the mutex stays locked while the thread sleeps
    /\ status' = [status EXCEPT ![t] = st]
    /\ runs' = [runs EXCEPT ![t] = @ - 1]
    /\ UNCHANGED mutex

cond_wait_block(t, c, st) ==
    /\ status' = [status EXCEPT ![t] = st]
    /\ runs' = [runs EXCEPT ![t] = @ - 1]
    /\ mutex_unlock(t, c)

(* The threads cond_signal and cond_broadcast make runnable.               *)
cond_wake(S) ==
    /\ status' = [t \in Thread |-> IF t \in S THEN "RUNNABLE" ELSE status[t]]
    /\ runs' = [t \in Thread |-> IF t \in S THEN runs[t] + 1 ELSE runs[t]]

cond_signal_kept(c) ==   \* fault: del_entry is missing
    /\ cond_wake(IF waiting[c] = <<>> THEN {} ELSE {Head(waiting[c])})
    /\ UNCHANGED waiting

cond_signal(c) ==
    IF waiting[c] = <<>>
    THEN UNCHANGED <<status, runs, waiting>>
    ELSE cond_wake({Head(waiting[c])}) /\ waiting' = [waiting EXCEPT ![c] = Tail(@)]

cond_broadcast(c) ==
    /\ cond_wake(Range(waiting[c]))
    /\ waiting' = [waiting EXCEPT ![c] = <<>>]
-----------------------------------------------------------------------------
(* A thread is current or on the run queue exactly once when it is         *)
(* runnable and not at all when it sleeps: cond_signal never hands to      *)
(* runq_add_thread a thread that is still awake on its way into cond_wait. *)
ScheduledOnce ==
    \A t \in Thread : runs[t] = IF status[t] = "RUNNABLE" THEN 1 ELSE 0
=============================================================================
