------------------------------- MODULE Sched -------------------------------
(***************************************************************************)
(* The run queue and the context switch: core/scheduler.c, core/context.c. *)
(*                                                                         *)
(* The kernel runs on one processor.  Code between disable_interrupts()    *)
(* and the next enable_interrupts() is one atomic step of the thread curr; *)
(* everywhere else the timer may call context_switch() in between.  intr   *)
(* is the interrupt flag (EFLAGS.IF).  A queue built from list.c is a      *)
(* sequence of threads, head first.                                        *)
(***************************************************************************)
EXTENDS Integers, Sequences, Functions

CONSTANTS Thread,     \* every thread but the idle one
          Idle,       \* get_idle_task()->thr
          NoThread    \* NULL

ASSUME SchedAssumption ==
    /\ Idle \notin Thread
    /\ NoThread \notin Thread \cup {Idle}

VARIABLES curr,       \* curr_thread of scheduler.c
          status,     \* thread_struct.status; "NONE": no such struct
          runq,       \* runnable_threads
          intr        \* interrupts are enabled

schedVars == <<curr, status, runq, intr>>

AllThreads == Thread \cup {Idle}

(* t is on the queue q; q holds no thread twice.                           *)
InQueue(q, t) == \E i \in 1..Len(q) : q[i] = t

NoRepeats(q) == \A i, j \in 1..Len(q) : q[i] = q[j] => i = j

Status == {"NONE", "RUNNING", "RUNNABLE", "WAITING", "DESCHEDULED"}

SchedType ==
    /\ curr \in AllThreads
    /\ status \in [AllThreads -> Status]
    /\ runq \in Seq(Thread)
    /\ intr \in BOOLEAN

(* load_init_task puts the first thread of init on the run queue and       *)
(* load_bootstrap_task makes the idle thread the running one.              *)
SchedInit(first) ==
    /\ curr = Idle
    /\ status = [t \in AllThreads |->
                    IF t = Idle THEN "RUNNING" ELSE IF t = first THEN "RUNNABLE" ELSE "NONE"]
    /\ runq = <<first>>
    /\ intr = TRUE

(* Later: the threads of q wait for their turn while the idle thread runs. *)
SchedQueued(q) ==
    /\ curr = Idle /\ intr = TRUE /\ runq = q
    /\ status = [t \in AllThreads |->
                    IF t = Idle THEN "RUNNING" ELSE IF InQueue(q, t) THEN "RUNNABLE" ELSE "NONE"]

(* next_thread: an expired sleeper if there is one, else the head of the   *)
(* run queue rq, else NULL.                                                *)
next_thread(woken, rq) ==
    IF woken # NoThread THEN woken ELSE IF rq # <<>> THEN Head(rq) ELSE NoThread

(* The run queue once next_thread has taken its thread off it.             *)
runq_rest(woken, rq) == IF woken = NoThread /\ rq # <<>> THEN Tail(rq) ELSE rq

(* The idle thread runs when nobody else can.                              *)
switch_target(next) == IF next = NoThread THEN Idle ELSE next

(* context_switch called by the thread c (NULL at the end of vanish) when  *)
(* the statuses are st, the run queue is rq and get_sleeping_thread()      *)
(* returns woken.  The switch ends with interrupts enabled in whichever    *)
(* thread then runs.                                                       *)
context_switch(c, woken, st, rq) ==
    LET next    == next_thread(woken, rq)
        busy    == c \in Thread /\ st[c] = "RUNNING"
        target  == switch_target(next)
        rest    == runq_rest(woken, rq)
    IN  /\ intr' = TRUE
        /\ \/ /\ next = NoThread
              /\ c = Idle \/ busy
              /\ curr' = c
              /\ status' = st
              /\ runq' = rq
           \/ /\ next # NoThread \/ ~(c = Idle \/ busy)
              /\ curr' = target
              /\ status' = [t \in AllThreads |->
                               IF t = target THEN "RUNNING"
                               ELSE IF t = c /\ busy THEN "RUNNABLE" ELSE st[t]]
              /\ runq' = IF busy THEN Append(rest, c) ELSE rest

(* runq_add_thread on a thread whose status has just become RUNNABLE: it   *)
(* disables interrupts around the insertion and leaves them enabled.       *)
runq_add_thread(t) ==
    /\ status' = [status EXCEPT ![t] = "RUNNABLE"]
    /\ runq' = Append(runq, t)
    /\ intr' = TRUE
    /\ curr' = curr

tickback_idle_only == \* fault: no preemption
    intr /\ curr = Idle /\ context_switch(curr, NoThread, status, runq)

(* The timer interrupt: callback_handler calls tickback, which switches.   *)
tickback == intr /\ context_switch(curr, NoThread, status, runq)
=============================================================================
