---------------------------- MODULE ThreadGroup ----------------------------
(***************************************************************************)
(* Threads of a user program: thr_create, thr_exit and thr_join            *)
(* (user/libthread/thread.c) and the thread groups on top of them          *)
(* (user/libthrgrp/thrgrp.c).  Main creates the workers of a group in any  *)
(* order, and joins them as they end.                                      *)
(*                                                                         *)
(* tcb_mutex is held within one step only, except by thr_join, which never *)
(* releases it and destroys it; by then the worker has no more use for it. *)
(* A worker's condition variable is named after the worker.  The status a  *)
(* worker ends with is the worker itself.                                  *)
(***************************************************************************)
EXTENDS UserCond

CONSTANTS Main, Worker,
          NoWorker     \* NULL, and a status that nobody has set

ASSUME ThreadGroupAssumption ==
    /\ Main \in Thread /\ Worker \subseteq Thread \ {Main} /\ NoWorker \notin Worker
    /\ Worker \cup {"group"} \subseteq Cond

VARIABLES tcb_lock,      \* it is held
          tcb_list,      \* workers whose TCB is on the list
          exited,        \* workers whose TCB says so
          tcb_status,    \* status in the TCB
          zombie_in, zombie_out, zombie_next,
          subject,       \* the worker that main creates or joins
          result,        \* what *statusp received
          zombies        \* workers that ended and were not joined, in order

groupVars == <<tcb_lock, tcb_list, exited, tcb_status, zombie_in, zombie_out, zombie_next,
               subject, result, zombies>>

GroupInit ==
    /\ tcb_lock = FALSE /\ tcb_list = {} /\ exited = {}
    /\ tcb_status = [w \in Worker |-> NoWorker]
    /\ zombie_in = NoWorker /\ zombie_out = NoWorker
    /\ zombie_next = [w \in Worker |-> NoWorker]
    /\ subject = NoWorker /\ result = NoWorker /\ zombies = <<>>

Tcb == <<tcb_list, exited, tcb_status>>
Queue == <<zombie_in, zombie_out, zombie_next, zombies>>
Sleeps == <<waiting, reject, asleep>>
-----------------------------------------------------------------------------
(* thrgrp_create and the thr_create it calls: tcb_lock is held from before *)
(* thread_fork until the TCB is on the list.                               *)
thrgrp_create(w) ==
    /\ pc[w] = "out"
    /\ Goto(Main, "out", "create")
    /\ subject' = w
    /\ UNCHANGED <<Sleeps, tcb_lock, Tcb, Queue, result>>

create_unlocked ==   \* fault: tcb_lock is taken after thread_fork
    /\ Goto(Main, "create", "fork")
    /\ UNCHANGED <<Sleeps, groupVars>>

create_lock ==
    /\ ~tcb_lock
    /\ Goto(Main, "create", "fork")
    /\ tcb_lock' = TRUE
    /\ UNCHANGED <<Sleeps, Tcb, Queue, subject, result>>

thread_fork ==
    /\ pc[Main] = "fork"
    /\ pc' = [pc EXCEPT ![Main] = "add", ![subject] = "start"]
    /\ UNCHANGED <<Sleeps, groupVars>>

(* Without a thread its TCB goes on the list with a negative id, where     *)
(* nobody looks for it.                                                    *)
thread_fork_fails ==
    /\ Goto(Main, "fork", "out")
    /\ tcb_lock' = FALSE
    /\ UNCHANGED <<Sleeps, Tcb, Queue, subject, result>>

add_tcb ==
    /\ Goto(Main, "add", "out")
    /\ tcb_lock' = FALSE
    /\ tcb_list' = tcb_list \cup {subject}
    /\ UNCHANGED <<Sleeps, exited, tcb_status, Queue, subject, result>>
-----------------------------------------------------------------------------
(* thrgrp_bottom, after the function it runs, and thr_exit.                *)
bottom_first_only(w) ==   \* fault: zombie_in->next is not set
    /\ Goto(w, "start", "find")
    /\ zombie_in' = w
    /\ zombie_out' = IF zombie_out = NoWorker THEN w ELSE zombie_out
    /\ zombies' = Append(zombies, w)
    /\ cond_signal("group")
    /\ UNCHANGED <<zombie_next, tcb_lock, Tcb, subject, result>>

thrgrp_bottom(w) ==
    /\ Goto(w, "start", "find")
    /\ zombie_next' = [v \in Worker |->
                          IF v = w THEN NoWorker ELSE IF v = zombie_in THEN w ELSE zombie_next[v]]
    /\ zombie_in' = w
    /\ zombie_out' = IF zombie_out = NoWorker THEN w ELSE zombie_out
    /\ zombies' = Append(zombies, w)
    /\ cond_signal("group")
    /\ UNCHANGED <<tcb_lock, Tcb, subject, result>>

(* Without a TCB the thread vanishes at once.                              *)
exit_find(w) ==
    /\ ~tcb_lock
    /\ Goto(w, "find", IF w \in tcb_list THEN "record" ELSE "gone")
    /\ UNCHANGED <<Sleeps, groupVars>>

exit_unsignalled(w) ==   \* fault: a waiting thr_join is not signalled
    /\ Goto(w, "record", "gone")
    /\ exited' = exited \cup {w}
    /\ tcb_status' = [tcb_status EXCEPT ![w] = w]
    /\ UNCHANGED <<Sleeps, tcb_lock, tcb_list, Queue, subject, result>>

(* Then stack_base is read, from a TCB that main may have freed meanwhile; *)
(* it is NULL.                                                             *)
exit_record(w) ==
    /\ Goto(w, "record", "gone")
    /\ exited' = exited \cup {w}
    /\ tcb_status' = [tcb_status EXCEPT ![w] = w]
    /\ cond_signal(w)
    /\ UNCHANGED <<tcb_lock, tcb_list, Queue, subject, result>>
-----------------------------------------------------------------------------
(* thrgrp_join from the test of its loop on, with the queues q.            *)
take_zombie(from, q) ==
    \/ /\ zombie_out = NoWorker
       /\ Goto(Main, from, "deschedule")
       /\ cond_queue(Main, "group", q)
       /\ UNCHANGED <<zombie_in, zombie_out, subject, zombies>>
    \/ /\ zombie_out # NoWorker
       /\ Goto(Main, from, "join")
       /\ subject' = zombie_out
       /\ IF zombie_out = zombie_in
          THEN zombie_in' = NoWorker /\ zombie_out' = NoWorker
          ELSE zombie_out' = zombie_next[zombie_out] /\ UNCHANGED zombie_in
       /\ zombies' = Tail(zombies)
       /\ waiting' = q
       /\ UNCHANGED <<reject, asleep>>

(* Main joins only if it has a worker that was not joined.                 *)
thrgrp_join ==
    /\ \E w \in Worker : pc[w] \notin {"out", "gone"} \/ w \in tcb_list
    /\ take_zombie("out", waiting)
    /\ UNCHANGED <<tcb_lock, Tcb, zombie_next, result>>

group_woken ==
    /\ Awake(Main, "group")
    /\ take_zombie("relock", left_queue(Main))
    /\ UNCHANGED <<tcb_lock, Tcb, zombie_next, result>>

(* thr_join: the TCB is looked up, or the call fails.                      *)
join_find ==
    /\ ~tcb_lock
    /\ Goto(Main, "join", IF subject \in tcb_list THEN "test" ELSE "out")
    /\ UNCHANGED <<Sleeps, groupVars>>

join_loop(from, q) ==
    \/ /\ subject \notin exited
       /\ Goto(Main, from, "deschedule")
       /\ cond_queue(Main, subject, q)
       /\ UNCHANGED result
    \/ /\ subject \in exited
       /\ Goto(Main, from, "remove")
       /\ result' = tcb_status[subject]
       /\ waiting' = q
       /\ UNCHANGED <<reject, asleep>>

join_test == join_loop("test", waiting) /\ UNCHANGED <<tcb_lock, Tcb, Queue, subject>>

join_woken ==
    /\ Awake(Main, subject)
    /\ join_loop("relock", left_queue(Main))
    /\ UNCHANGED <<tcb_lock, Tcb, Queue, subject>>

remove_tcb ==
    /\ ~tcb_lock
    /\ Goto(Main, "remove", "out")
    /\ tcb_list' = tcb_list \ {subject}
    /\ UNCHANGED <<Sleeps, tcb_lock, exited, tcb_status, Queue, subject, result>>
-----------------------------------------------------------------------------
WorkerStep(w) == thrgrp_bottom(w) \/ exit_find(w) \/ exit_record(w)

MainStep ==
    \/ create_lock \/ thread_fork \/ thread_fork_fails \/ add_tcb
    \/ group_woken \/ join_find \/ join_test \/ join_woken \/ remove_tcb
    \/ deschedule(Main) /\ UNCHANGED groupVars

GroupNext ==
    \/ \E w \in Worker : thrgrp_create(w) \/ WorkerStep(w)
    \/ MainStep \/ thrgrp_join

GroupEnded == \A w \in Worker : pc[w] = "gone" /\ w \notin tcb_list
-----------------------------------------------------------------------------
(* The zombie queue of a group: from zombie_out along next to zombie_in    *)
(* are the workers that ended and that nobody joined, in the order in      *)
(* which they ended, also after the queue has been emptied.                *)
ZombieQueue ==
    IF zombies = <<>>
    THEN zombie_in = NoWorker /\ zombie_out = NoWorker
    ELSE /\ zombie_out = Head(zombies) /\ zombie_in = Last(zombies)
         /\ \A i \in 1..Len(zombies) - 1 : zombie_next[zombies[i]] = zombies[i + 1]

(* thr_join returns the status that the thread it names gave to thr_exit,  *)
(* and no thread ends without leaving one: it finds its TCB even when it   *)
(* ends before thr_create has returned.                                    *)
JoinGetsStatus ==
    /\ pc[Main] = "remove" => result = subject
    /\ \A w \in Worker : pc[w] = "gone" => w \in exited
=============================================================================
