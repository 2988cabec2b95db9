------------------------------- MODULE Sleep -------------------------------
(***************************************************************************)
(* The sleep system call (core/sleep.c) and the timer, on top of the run   *)
(* queue and context switch of Sched.                                      *)
(*                                                                         *)
(* The sleep queue is a sequence, earliest first.  While a thread inserts  *)
(* itself, sleeping_threads is NULL (hidden) and the scheduler wakes       *)
(* nobody.  A thread that finds sleep_list_mutex taken keeps its turn      *)
(* until the next tick (KMutex has what mutex_lock really does).           *)
(***************************************************************************)
EXTENDS Sched, SequencesExt, FiniteSets

CONSTANTS MaxInt,    \* largest int
          MaxTicks,  \* bound: the clock stops here (the timer does not)
          Ticks      \* arguments of sleep

ASSUME SleepAssumption ==
    /\ MaxInt \in Nat /\ MaxTicks \in 0..MaxInt
    /\ Ticks \subseteq 0..MaxInt

VARIABLES pc, ticks, wake_time, sleepq, hidden,
          mutex      \* holder of sleep_list_mutex

vars == <<schedVars, pc, ticks, wake_time, sleepq, hidden, mutex>>

(* What an int of this width holds after an addition.                      *)
int(n) == IF n > MaxInt THEN n - 2 * (MaxInt + 1) ELSE n

TypeOK ==
    /\ SchedType
    /\ pc \in [Thread -> {"user", "lock", "hide", "insert", "unlock", "block", "asleep", "fault",
                       "stale"}]
    /\ ticks \in 0..MaxTicks
    /\ wake_time \in [Thread -> 0..MaxInt]
    /\ sleepq \in Seq(Thread) /\ IsInjective(sleepq)
    /\ hidden \in BOOLEAN
    /\ mutex \in Thread \cup {NoThread}

(* Nobody sleeps.                                                          *)
SleepInit ==
    /\ pc = [t \in Thread |-> "user"]
    /\ ticks = 0
    /\ wake_time = [t \in Thread |-> 0]
    /\ sleepq = <<>>
    /\ hidden = FALSE
    /\ mutex = NoThread

Init == SchedQueued(SetToSeq(Thread)) /\ SleepInit

(* A step of the current thread.                                           *)
Goto(t, from, to) ==
    /\ curr = t /\ pc[t] = from
    /\ pc' = [pc EXCEPT ![t] = to]

-----------------------------------------------------------------------------
(* get_sleeping_thread: the thread that context_switch takes off the sleep *)
(* queue q when the clock shows now.                                       *)
woken_on_the_tick(q, now) ==   \* fault: == instead of <
    IF q # <<>> /\ wake_time[Head(q)] = now THEN Head(q) ELSE NoThread

get_sleeping_thread(q, now) ==
    IF q # <<>> /\ wake_time[Head(q)] < now THEN Head(q) ELSE NoThread

sleepq_rest(q, now) == IF get_sleeping_thread(q, now) = NoThread THEN q ELSE Tail(q)

(* The current thread calls context_switch when the clock shows now.  A    *)
(* woken thread returns from sleep.                                        *)
switch(now) ==
    LET woken == IF hidden THEN NoThread ELSE get_sleeping_thread(sleepq, now)
    IN  /\ context_switch(curr, woken, status, runq)
        /\ sleepq' = IF hidden THEN sleepq ELSE sleepq_rest(sleepq, now)
        /\ pc' = [t \in Thread |-> IF t = woken THEN "user" ELSE pc[t]]
        /\ UNCHANGED <<wake_time, hidden, mutex>>

(* The timer interrupt: the clock advances, and tickback switches.         *)
tick ==
    /\ intr
    /\ ticks' = IF ticks = MaxTicks THEN ticks ELSE ticks + 1
    /\ switch(ticks')

(* The system call yield to the thread u, which is refused while u sleeps; *)
(* otherwise the next thread in turn runs, whichever that is.  yield(-1)   *)
(* does the same without the test.                                         *)
yield(t, u) ==
    /\ curr = t /\ pc[t] = "user"
    /\ status[u] \notin {"WAITING", "DESCHEDULED"}
    /\ switch(ticks)
    /\ UNCHANGED ticks

(* sleep(n).  With n = 0, or when the sum overflows, the call returns.     *)
may_sleep(n) == n > 0 /\ int(ticks + n) >= ticks

do_sleep(t, n) ==
    /\ may_sleep(n)
    /\ int(ticks + n) < MaxTicks
    /\ Goto(t, "user", "lock")
    /\ wake_time' = [wake_time EXCEPT ![t] = int(ticks + n)]
    /\ UNCHANGED <<schedVars, ticks, sleepq, hidden, mutex>>

sleep_lock(t) ==
    /\ mutex = NoThread
    /\ Goto(t, "lock", "hide")
    /\ mutex' = t
    /\ UNCHANGED <<schedVars, ticks, wake_time, sleepq, hidden>>

(* sleeping_threads is read and set to NULL.                               *)
sleep_unhidden(t) ==   \* fault: the scheduler still sees the queue
    /\ Goto(t, "hide", "insert")
    /\ UNCHANGED <<schedVars, ticks, wake_time, sleepq, hidden, mutex>>

sleep_hide(t) ==
    /\ ~hidden
    /\ Goto(t, "hide", "insert")
    /\ hidden' = TRUE
    /\ UNCHANGED <<schedVars, ticks, wake_time, sleepq, mutex>>

(* It was NULL already: get_first dereferences it, and the model stops.    *)
sleep_fault(t) ==
    /\ hidden
    /\ Goto(t, "hide", "fault")
    /\ UNCHANGED <<schedVars, ticks, wake_time, sleepq, hidden, mutex>>

(* The position of a new entry: before the first that wakes later.         *)
position_last(q, w) == Len(q) + 1   \* fault: the list is not scanned

position(q, w) ==
    CHOOSE i \in 1..Len(q) + 1 :
        /\ \A j \in 1..i - 1 : wake_time[q[j]] <= w
        /\ i <= Len(q) => wake_time[q[i]] > w

sleep_insert(t) ==
    /\ Goto(t, "insert", "unlock")
    /\ sleepq' = InsertAt(sleepq, position(sleepq, wake_time[t]), t)
    /\ UNCHANGED <<schedVars, ticks, wake_time, hidden, mutex>>

sleep_unlock(t) ==
    /\ Goto(t, "unlock", "block")
    /\ mutex' = NoThread
    /\ UNCHANGED <<schedVars, ticks, wake_time, sleepq, hidden>>

(* With interrupts off: the queue is shown again, the thread waits.        *)
block(t, woken) ==
    /\ curr = t /\ pc[t] = "block"
    /\ hidden' = FALSE
    /\ context_switch(t, woken, [status EXCEPT ![t] = "WAITING"], runq)
    /\ sleepq' = sleepq_rest(sleepq, ticks)
    /\ UNCHANGED <<ticks, wake_time, mutex>>

sleep_block(t) ==
    LET woken == get_sleeping_thread(sleepq, ticks)
    IN  /\ woken # t
        /\ block(t, woken)
        /\ pc' = [u \in Thread |-> IF u = woken THEN "user" ELSE IF u = t THEN "asleep" ELSE pc[u]]

(* Its own time has come while it was preempted in here, so it switches to *)
(* itself.  switch_to_thread passes the esp that was saved when the thread *)
(* was last switched out, before update_stack saves the present one: the   *)
(* thread goes on in a frame that it has overwritten, and the model stops. *)
sleep_stale(t) ==
    /\ get_sleeping_thread(sleepq, ticks) = t
    /\ block(t, t)
    /\ pc' = [pc EXCEPT ![t] = "stale"]

Sleeping(t) ==
    \/ sleep_lock(t) \/ sleep_hide(t) \/ sleep_fault(t) \/ sleep_insert(t)
    \/ sleep_unlock(t) \/ sleep_block(t) \/ sleep_stale(t)

Running == \A t \in Thread : pc[t] \notin {"fault", "stale"}

Next ==
    /\ Running
    /\ \/ tick
       \/ \E t \in Thread : \/ Sleeping(t)
                            \/ \E n \in Ticks : do_sleep(t, n)
                            \/ \E u \in Thread : yield(t, u)

(* The timer keeps interrupting, and a thread that gets the processor      *)
(* again and again goes on with its system call.                           *)
Fairness == WF_vars(Running /\ tick) /\ \A t \in Thread : SF_vars(Running /\ Sleeping(t))

Spec == Init /\ [][Next]_vars /\ Fairness
-----------------------------------------------------------------------------
(* A thread is in one place: current, on the run queue, or asleep on the   *)
(* sleep queue.  While it inserts itself it is still awake, and only the   *)
(* NULL head keeps the scheduler from waking it.  The claim ends with the  *)
(* first sleep_fault or sleep_stale, whose effects are unknown.            *)
InOnePlace ==
    \A t \in {u \in Thread : status[u] # "NONE"} :
        /\ Cardinality({i \in DOMAIN runq : runq[i] = t}) +
           (IF curr = t THEN 1 ELSE 0) + (IF pc[t] = "asleep" THEN 1 ELSE 0) = 1
        /\ pc[t] = "asleep" => status[t] = "WAITING" /\ t \in Range(sleepq)
        /\ ~hidden /\ t \in Range(sleepq) => pc[t] = "asleep"

(* schedule_sleep keeps the queue sorted, "with the head of the queue      *)
(* being the earliest wake time", whatever expired or joined meanwhile,    *)
(* and no wake time on it is a sum that overflowed.                        *)
SleepqSorted ==
    /\ \A i, j \in DOMAIN sleepq : i < j => wake_time[sleepq[i]] <= wake_time[sleepq[j]]
    /\ \A t \in Range(sleepq) : wake_time[t] > 0

(* A thread that sleeps gets the processor again, if the machine goes on:  *)
(* if no thread calls sleep while sleeping_threads is still NULL           *)
(* (sleep_fault) and none switches to itself (sleep_stale).                *)
SleeperWakes == []Running => \A t \in Thread : pc[t] = "asleep" ~> curr = t
=============================================================================
