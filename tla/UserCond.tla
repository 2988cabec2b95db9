------------------------------ MODULE UserCond ------------------------------
(***************************************************************************)
(* The condition variables of the user thread library                      *)
(* (user/libthread/cond_var.c).                                            *)
(*                                                                         *)
(* All state of a client, the queues included, is touched only with the    *)
(* client's mutex held, so a section between mutex_lock and mutex_unlock   *)
(* is one step.  deschedule and make_runnable are one step each            *)
(* (Deschedule has what the kernel does).                                  *)
(***************************************************************************)
EXTENDS Integers, Sequences, Functions, FiniteSets, SequencesExt

CONSTANTS Thread, Cond

VARIABLES pc,
          waiting,   \* cv->waiting: threads that have not yet left cond_wait
          reject,    \* blocked_thread_t.reject is RUNNABLE
          asleep     \* descheduled

condVars == <<pc, waiting, reject, asleep>>

CondInit ==
    /\ pc = [t \in Thread |-> "out"]
    /\ waiting = [c \in Cond |-> <<>>]
    /\ reject = [t \in Thread |-> FALSE]
    /\ asleep = [t \in Thread |-> FALSE]

CondType ==
    /\ \A c \in Cond : waiting[c] \in Seq(Thread) /\ IsInjective(waiting[c])
    /\ reject \in [Thread -> BOOLEAN]
    /\ asleep \in [Thread -> BOOLEAN]

Goto(t, from, to) == pc[t] = from /\ pc' = [pc EXCEPT ![t] = to]

(* cond_wait up to the release of the mutex, on the queues q.              *)
cond_queue(t, c, q) ==
    /\ waiting' = [q EXCEPT ![c] = Append(@, t)]
    /\ reject' = [reject EXCEPT ![t] = FALSE]
    /\ UNCHANGED asleep

(* The call of deschedule, which returns at once when reject is set.       *)
deschedule_untested(t) ==   \* fault: reject is not passed on
    /\ Goto(t, "deschedule", "relock")
    /\ asleep' = [asleep EXCEPT ![t] = TRUE]
    /\ UNCHANGED <<waiting, reject>>

deschedule(t) ==
    /\ Goto(t, "deschedule", "relock")
    /\ asleep' = [asleep EXCEPT ![t] = ~reject[t]]
    /\ UNCHANGED <<waiting, reject>>

(* The end of cond_wait, with the mutex: the queues without the entry.     *)
Awake(t, c) == pc[t] = "relock" /\ ~asleep[t] /\ t \in Range(waiting[c])

left_queue(t) == [c \in Cond |-> Remove(waiting[c], t)]

wake(S) ==
    /\ reject' = [t \in Thread |-> t \in S \/ reject[t]]
    /\ asleep' = [t \in Thread |-> t \notin S /\ asleep[t]]

(* cond_signal wakes the first thread of the queue and leaves it there.    *)
Signalled(c) == IF waiting[c] = <<>> THEN {} ELSE {Head(waiting[c])}

cond_signal(c) == wake(Signalled(c)) /\ UNCHANGED waiting

(* cond_broadcast of c followed by cond_signal of d.                       *)
cond_broadcast_signal(c, d) ==
    wake(Range(waiting[c]) \cup Signalled(d)) /\ UNCHANGED waiting

cond_broadcast(c) == wake(Range(waiting[c])) /\ UNCHANGED waiting
-----------------------------------------------------------------------------
SleepsOn(c) == {t \in Range(waiting[c]) : asleep[t]}
=============================================================================
