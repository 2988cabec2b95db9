------------------------------- MODULE KMutex -------------------------------
(***************************************************************************)
(* The kernel's blocking mutex (sync/mutex.c) on top of the scheduler, with *)
(* threads that are created, lock and unlock mutexes, are preempted at any *)
(* point where interrupts are enabled, and vanish.                         *)
(***************************************************************************)
EXTENDS Sched

CONSTANT NMutex       \* how many mutexes there are

ASSUME MutexAssumption == NMutex \in Nat

Mutex == 1..NMutex    \* numbered by their place in the lock order

NoMutex == 0

MUTEX_INVALID == -1

VARIABLES value,      \* mutex_t.value
          waiting,    \* mutex_t.waiting
          held,       \* mutexes a thread has locked and not yet unlocked
          wants,      \* the mutex whose mutex_lock loop the thread is in
          flag        \* int_flag of the thread's pending lock call

mutexVars == <<value, waiting, held, wants, flag>>
vars == <<schedVars, mutexVars>>

TypeOK ==
    /\ SchedType
    /\ value \in [Mutex -> {MUTEX_INVALID, 0, 1}]
    /\ waiting \in [Mutex -> Seq(Thread)]
    /\ held \in [Thread -> SUBSET Mutex]
    /\ wants \in [Thread -> Mutex \cup {NoMutex}]
    /\ flag \in [Thread -> BOOLEAN]

(* mutex_init on every mutex; one thread, the first of init, exists.       *)
Init ==
    /\ \E t \in Thread : SchedInit(t)
    /\ value = [m \in Mutex |-> 1]
    /\ waiting = [m \in Mutex |-> <<>>]
    /\ held = [t \in Thread |-> {}]
    /\ wants = [t \in Thread |-> NoMutex]
    /\ flag = [t \in Thread |-> TRUE]

(* Thread t runs and is not inside mutex_lock.                             *)
Runs(t) == curr = t /\ wants[t] = NoMutex

(* The while loop of mutex_lock, from its test to the next one: the whole  *)
(* of it runs with interrupts disabled.  A locked mutex puts the caller to *)
(* sleep on its queue; f is whether interrupts are enabled on return.      *)
block(t, m, f) ==
    /\ value[m] = 0
    /\ waiting' = [waiting EXCEPT ![m] = Append(@, t)]
    /\ wants' = [wants EXCEPT ![t] = m]
    /\ flag' = [flag EXCEPT ![t] = f]
    /\ context_switch(t, NoThread, [status EXCEPT ![t] = "WAITING"], runq)
    /\ UNCHANGED <<value, held>>

take_untested(t, m, f) == \* fault: the value is not tested
    /\ value' = [value EXCEPT ![m] = 0]
    /\ held' = [held EXCEPT ![t] = @ \cup {m}]
    /\ wants' = [wants EXCEPT ![t] = NoMutex]
    /\ intr' = f
    /\ UNCHANGED <<curr, status, runq, waiting, flag>>

take(t, m, f) ==
    /\ value[m] # 0
    /\ value' = [value EXCEPT ![m] = 0]
    /\ held' = [held EXCEPT ![t] = @ \cup {m}]
    /\ wants' = [wants EXCEPT ![t] = NoMutex]
    /\ intr' = f
    /\ UNCHANGED <<curr, status, runq, waiting, flag>>

MayLockUnordered(t, m) == \* fault: no lock order
    /\ Runs(t)
    /\ value[m] # MUTEX_INVALID
    /\ m \notin held[t]

(* Callers lock valid mutexes they do not hold, in the lock order: the     *)
(* thread_assert on value is never reached with MUTEX_INVALID.             *)
MayLock(t, m) ==
    /\ Runs(t)
    /\ value[m] # MUTEX_INVALID
    /\ \A h \in held[t] : h < m

mutex_lock(t, m) ==
    /\ MayLock(t, m)
    /\ block(t, m, TRUE) \/ take(t, m, TRUE)

(* The int_save variant returns with the interrupt flag it was called with. *)
mutex_lock_int_save(t, m) ==
    /\ MayLock(t, m)
    /\ block(t, m, intr) \/ take(t, m, intr)

(* A thread switched back in after blocking: context_switch has enabled    *)
(* interrupts, mutex_lock disables them again and repeats the test.        *)
retry(t) ==
    /\ curr = t
    /\ wants[t] # NoMutex
    /\ block(t, wants[t], flag[t]) \/ take(t, wants[t], flag[t])

wake_nobody(m) == UNCHANGED <<status, runq, waiting>>   \* fault

wake_first_queued(m) == \* fault: the woken thread stays on the queue
    \/ /\ waiting[m] = <<>>
       /\ UNCHANGED <<status, runq, waiting>>
    \/ /\ waiting[m] # <<>>
       /\ status' = [status EXCEPT ![Head(waiting[m])] = "RUNNABLE"]
       /\ runq' = Append(runq, Head(waiting[m]))
       /\ UNCHANGED waiting

wake_all(m) == \* fault: every waiter is woken
    /\ status' = [t \in AllThreads |-> IF t \in Range(waiting[m]) THEN "RUNNABLE" ELSE status[t]]
    /\ runq' = runq \o waiting[m]
    /\ waiting' = [waiting EXCEPT ![m] = <<>>]

(* mutex_unlock: the first waiter becomes runnable, the value becomes 1;   *)
(* the lock is not handed over.                                            *)
wake_first(m) ==
    \/ /\ waiting[m] = <<>>
       /\ UNCHANGED <<status, runq, waiting>>
    \/ /\ waiting[m] # <<>>
       /\ status' = [status EXCEPT ![Head(waiting[m])] = "RUNNABLE"]
       /\ runq' = Append(runq, Head(waiting[m]))
       /\ waiting' = [waiting EXCEPT ![m] = Tail(@)]

unlock(t, m, f) ==
    /\ Runs(t)
    /\ m \in held[t]
    /\ wake_first(m)
    /\ value' = [value EXCEPT ![m] = 1]
    /\ held' = [held EXCEPT ![t] = @ \ {m}]
    /\ intr' = f
    /\ UNCHANGED <<curr, wants, flag>>

mutex_unlock(t, m) == unlock(t, m, TRUE)

mutex_unlock_int_save(t, m) == unlock(t, m, intr)

(* mutex_destroy and mutex_init, called on a mutex nobody uses any more    *)
(* (do_wait destroys those of a dead task, create_task initialises new     *)
(* ones).                                                                  *)
mutex_destroy(t, m) ==
    /\ Runs(t)
    /\ value[m] = 1
    /\ \A u \in Thread : m \notin held[u] /\ wants[u] # m
    /\ value' = [value EXCEPT ![m] = MUTEX_INVALID]
    /\ UNCHANGED <<schedVars, waiting, held, wants, flag>>

mutex_init(t, m) ==
    /\ Runs(t)
    /\ value[m] = MUTEX_INVALID
    /\ value' = [value EXCEPT ![m] = 1]
    /\ waiting' = [waiting EXCEPT ![m] = <<>>]
    /\ UNCHANGED <<schedVars, held, wants, flag>>

(* Kernel code that switches interrupts off and on around its own critical *)
(* sections (do_vanish, cond_wait, schedule_sleep).                        *)
disable_interrupts(t) ==
    /\ Runs(t)
    /\ intr
    /\ intr' = FALSE
    /\ UNCHANGED <<curr, status, runq, mutexVars>>

enable_interrupts(t) ==
    /\ Runs(t)
    /\ ~intr
    /\ intr' = TRUE
    /\ UNCHANGED <<curr, status, runq, mutexVars>>

(* The end of do_fork and do_thread_fork: a fresh thread goes on the run   *)
(* queue.                                                                  *)
start_thread(t, u) ==
    /\ Runs(t)
    /\ status[u] = "NONE"
    /\ runq_add_thread(u)
    /\ UNCHANGED mutexVars

(* The end of do_vanish: the struct is freed, there is no current thread,  *)
(* and context_switch never returns.                                       *)
vanish(t) ==
    /\ Runs(t)
    /\ held[t] = {}
    /\ context_switch(NoThread, NoThread, [status EXCEPT ![t] = "NONE"], runq)
    /\ UNCHANGED mutexVars

Tick == tickback /\ UNCHANGED mutexVars

Step(t) ==
    \/ \E m \in Mutex :
          \/ mutex_lock(t, m) \/ mutex_lock_int_save(t, m)
          \/ mutex_unlock(t, m) \/ mutex_unlock_int_save(t, m)
          \/ mutex_destroy(t, m) \/ mutex_init(t, m)
    \/ retry(t)
    \/ disable_interrupts(t) \/ enable_interrupts(t)
    \/ \E u \in Thread : start_thread(t, u)
    \/ vanish(t)

Next == Tick \/ \E t \in Thread : Step(t)

Spec == Init /\ [][Next]_vars
-----------------------------------------------------------------------------
(* What the scheduling of the machine guarantees: a pending timer          *)
(* interrupt is delivered once interrupts are enabled, and kernel code     *)
(* leaves its interrupt-free sections after finitely many instructions.    *)
Fairness ==
    /\ SF_vars(Tick)
    /\ SF_vars(\E t \in Thread : enable_interrupts(t))

FairSpec == Spec /\ Fairness
-----------------------------------------------------------------------------
(* Mutual exclusion (mutex_lock, mutex_unlock): at most one thread is      *)
(* between a completed lock and its unlock, and the value is 0 exactly     *)
(* while such a thread exists.                                             *)
MutualExclusion ==
    /\ \A m \in Mutex : \A t, u \in Thread : m \in held[t] /\ m \in held[u] => t = u
    /\ \A m \in Mutex : value[m] = 0 <=> \E t \in Thread : m \in held[t]

(* A thread is in exactly one place (context_switch, mutex_lock,           *)
(* mutex_unlock): it is the running thread, or once on the run queue, or   *)
(* once on the queue of the one mutex it waits for, and its status says    *)
(* which.  A thread is thus neither lost nor scheduled twice.              *)
OnePlace ==
    /\ NoRepeats(runq)
    /\ \A m \in Mutex : NoRepeats(waiting[m])
    /\ \A t \in Thread :
          /\ status[t] = "RUNNING" <=> curr = t
          /\ status[t] = "RUNNABLE" <=> InQueue(runq, t)
          /\ \A m \in Mutex : InQueue(waiting[m], t) => status[t] = "WAITING" /\ wants[t] = m
          /\ status[t] = "WAITING" => \E m \in Mutex : InQueue(waiting[m], t)

(* No wakeup is lost (mutex_unlock wakes one thread and does not hand the  *)
(* lock over): while threads sleep on a mutex, either it is locked, or a   *)
(* thread woken for it is on its way to try again.                         *)
NoLostWakeup ==
    \A m \in Mutex :
        waiting[m] # <<>> =>
            \/ value[m] = 0
            \/ \E t \in Thread : wants[t] = m /\ status[t] \in {"RUNNING", "RUNNABLE"}

(* Callers that respect the lock order cannot block each other for ever:   *)
(* when the idle thread runs because nothing is runnable (context_switch), *)
(* no thread is asleep on a mutex.                                         *)
NoLockDeadlock ==
    curr = Idle /\ runq = <<>> => \A m \in Mutex : waiting[m] = <<>>

(* Round robin (runq_get_head, runq_add_thread): a runnable thread         *)
(* eventually runs.                                                        *)
RunnableRuns == \A t \in Thread : status[t] = "RUNNABLE" ~> curr = t

-----------------------------------------------------------------------------
(* The promise of a blocking lock, without scheduler and queues.           *)
OwnerIn(h, m) ==
    IF \E t \in Thread : m \in h[t] THEN CHOOSE t \in Thread : m \in h[t] ELSE NoThread

owner == [m \in Mutex |-> OwnerIn(held, m)]

asleep == [m \in Mutex |-> {t \in Thread : InQueue(waiting[m], t)}]

Lock == INSTANCE BlockingLock

(* mutex.c implements the blocking lock: a thread sleeps only on a mutex   *)
(* somebody else holds, an unlock with sleepers wakes exactly one of them, *)
(* and a sleeping thread acquires nothing.                                 *)
ImplementsLock == Lock!Spec
=============================================================================
