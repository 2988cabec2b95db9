----------------------------- MODULE WaitVanish -----------------------------
(***************************************************************************)
(* fork, wait and vanish as they change the family of tasks                *)
(* (core/wait_vanish.c, core/fork.c).  Tasks have one thread, so Thread    *)
(* and Cond are both the set of tasks; the condition variable of a task is *)
(* exit_cond_var, the mutex is child_list_mutex.                           *)
(*                                                                         *)
(* Lists are sequences.  An operation on one that may be interrupted reads *)
(* what it needs in one step and stores in a later one; when the ends it   *)
(* has read are not the ends any more, the stores leave pointers that are  *)
(* no list, and the model stops (torn).  A task struct is never used       *)
(* twice.                                                                  *)
(***************************************************************************)
EXTENDS CondVar, SequencesExt, FiniteSets

CONSTANT InitTask

VARIABLES parent,
          alive, dead,   \* child_task_head and dead_child_head
          struct,        \* the task_struct: none, new (not on a list yet), valid or freed
          victim,        \* the dead task that a wait has taken off its list
          first, second, \* the lists an operation has read; second is also what
                         \* reparent_to_init has still to visit
          torn           \* an operation has met a list that changed meanwhile

families == <<parent, alive, dead>>
locals == <<victim, first, second, torn>>
vars == <<condVars, families, struct, locals>>

Children(a) == Range(alive[a])

TypeOK ==
    /\ CondType
    /\ pc \in [Thread -> {"none", "user", "fork", "test", "alive", "queue", "block", "relock", "read",
                          "take", "reap", "reparent", "alive_loop", "alive_next", "dead_loop",
                          "dead_next", "lock_init", "read_alive", "write_alive", "read_dead",
                          "write_dead", "unlock_init", "exit", "last", "gone"}]
    /\ parent \in [Thread -> Thread \cup {NoThread}]
    /\ \A a \in Thread : alive[a] \in Seq(Thread) /\ dead[a] \in Seq(Thread)
    /\ struct \in [Thread -> {"none", "new", "valid", "freed"}]
    /\ victim \in [Thread -> Thread \cup {NoThread}]
    /\ torn \in BOOLEAN

(* init runs and has no children yet.                                      *)
Init ==
    /\ pc = [a \in Thread |-> IF a = InitTask THEN "user" ELSE "none"]
    /\ status = [a \in Thread |-> "RUNNABLE"]
    /\ runs = [a \in Thread |-> 1]
    /\ mutex = [a \in Thread |-> NoThread]
    /\ waiting = [a \in Thread |-> <<>>]
    /\ parent = [a \in Thread |-> NoThread]
    /\ alive = [a \in Thread |-> <<>>]
    /\ dead = [a \in Thread |-> <<>>]
    /\ struct = [a \in Thread |-> IF a = InitTask THEN "valid" ELSE "none"]
    /\ victim = [a \in Thread |-> NoThread]
    /\ first = [a \in Thread |-> <<>>]
    /\ second = [a \in Thread |-> <<>>]
    /\ torn = FALSE
-----------------------------------------------------------------------------
End(l) == IF l = <<>> THEN NoThread ELSE Last(l)

(* add_to_tail links at the end it has read.                               *)
Appends(a, l) == End(first[a]) = End(l)

(* concat_lists links at the end of the first list it has read, and the    *)
(* ends of the second.                                                     *)
Joins(a, lists) ==
    /\ Appends(a, lists[InitTask])
    /\ lists[a] # <<>> /\ Head(second[a]) = Head(lists[a]) /\ Last(second[a]) = Last(lists[a])

(* del_entry of the only node stores in the head alone.                    *)
Unlinks(a, l) == Len(first[a]) = 1 => l = first[a]

Forget(a) == first' = [first EXCEPT ![a] = <<>>] /\ second' = [second EXCEPT ![a] = <<>>]
-----------------------------------------------------------------------------
(* do_fork: the child joins the list of its parent, under vanish_mutex,    *)
(* which no exiting child takes, and runs.                                 *)
do_fork(p, c) ==
    /\ Goto(p, "user", "fork")
    /\ struct[c] = "none"
    /\ struct' = [struct EXCEPT ![c] = "new"]
    /\ parent' = [parent EXCEPT ![c] = p]
    /\ first' = [first EXCEPT ![p] = alive[p]]
    /\ UNCHANGED <<status, runs, mutex, waiting, alive, dead, victim, second, torn>>

fork_links(p, c) ==
    /\ status[p] = "RUNNABLE" /\ pc[p] = "fork"
    /\ struct[c] = "new" /\ parent[c] = p
    /\ Appends(p, alive[p])
    /\ alive' = [alive EXCEPT ![p] = Append(@, c)]
    /\ struct' = [struct EXCEPT ![c] = "valid"]
    /\ pc' = [pc EXCEPT ![p] = "user", ![c] = "user"]
    /\ Forget(p)
    /\ UNCHANGED <<status, runs, mutex, waiting, parent, dead, victim, torn>>
-----------------------------------------------------------------------------
(* do_wait.                                                                *)

do_wait(p) ==
    /\ Goto(p, "user", "test")
    /\ mutex_lock(p, p)
    /\ UNCHANGED <<status, runs, waiting, families, struct, locals>>

(* The dead list is looked at first, the list of the living afterwards.    *)
wait_tests(p) ==
    /\ Goto(p, "test", IF dead[p] = <<>> THEN "alive" ELSE "read")
    /\ UNCHANGED <<status, runs, mutex, waiting, families, struct, locals>>

(* No dead child but a living one: cond_wait.                              *)
wait_blocks(p) ==
    /\ Goto(p, "alive", "queue")
    /\ alive[p] # <<>>
    /\ UNCHANGED <<status, runs, mutex, waiting, families, struct, locals>>

wait_queue(p) ==
    /\ Goto(p, "queue", "block")
    /\ cond_wait_queue(p, p)
    /\ UNCHANGED <<status, runs, mutex, families, struct, locals>>

wait_block(p) ==
    /\ Goto(p, "block", "relock")
    /\ cond_wait_block(p, p, "WAITING")
    /\ UNCHANGED <<waiting, families, struct, locals>>

wait_relock(p) ==
    /\ Goto(p, "relock", "test")
    /\ mutex_lock(p, p)
    /\ UNCHANGED <<status, runs, waiting, families, struct, locals>>

(* A dead child: it leaves the list, and its struct is freed once the      *)
(* mutex, which no exiting child takes, is released.                       *)
wait_reads(p) ==
    /\ Goto(p, "read", "take")
    /\ first' = [first EXCEPT ![p] = dead[p]]
    /\ UNCHANGED <<status, runs, mutex, waiting, families, struct, victim, second, torn>>

wait_takes_kept(p) ==   \* fault: del_entry is missing
    /\ Goto(p, "take", "reap")
    /\ victim' = [victim EXCEPT ![p] = Head(dead[p])]
    /\ mutex_unlock(p, p)
    /\ Forget(p)
    /\ UNCHANGED <<status, runs, waiting, families, struct, torn>>

wait_takes(p) ==
    /\ Goto(p, "take", "reap")
    /\ Unlinks(p, dead[p])
    /\ victim' = [victim EXCEPT ![p] = Head(dead[p])]
    /\ dead' = [dead EXCEPT ![p] = Tail(@)]
    /\ mutex_unlock(p, p)
    /\ Forget(p)
    /\ UNCHANGED <<status, runs, waiting, parent, alive, struct, torn>>

wait_reaps(p) ==
    /\ Goto(p, "reap", "user")
    /\ struct' = [struct EXCEPT ![victim[p]] = "freed"]
    /\ victim' = [victim EXCEPT ![p] = NoThread]
    /\ UNCHANGED <<status, runs, mutex, waiting, families, first, second, torn>>

(* No child at all: ERR_FAILURE.                                           *)
wait_fails(p) ==
    /\ Goto(p, "alive", "user")
    /\ alive[p] = <<>>
    /\ mutex_unlock(p, p)
    /\ UNCHANGED <<status, runs, waiting, families, struct, locals>>
-----------------------------------------------------------------------------
(* do_vanish of the only thread of a task.  mutex_lock turns interrupts on *)
(* again, so the steps from here to "exit" may be preempted.               *)

do_vanish(c) ==
    /\ c # InitTask
    /\ Goto(c, "user", "reparent")
    /\ UNCHANGED <<status, runs, mutex, waiting, families, struct, locals>>

(* reparent_to_init, for the living children and then for the dead ones.   *)
reparent(c) ==
    /\ Goto(c, "reparent", "alive_loop")
    /\ second' = [second EXCEPT ![c] = alive[c]]
    /\ UNCHANGED <<status, runs, mutex, waiting, families, struct, victim, first, torn>>

reparent_to_init(c, loop, next, done, then) ==
    /\ Goto(c, loop, IF second[c] = <<>> THEN done ELSE next)
    /\ IF second[c] = <<>>
       THEN second' = [second EXCEPT ![c] = then] /\ UNCHANGED parent
       ELSE parent' = [parent EXCEPT ![Head(second[c])] = InitTask] /\ UNCHANGED second
    /\ UNCHANGED <<status, runs, mutex, waiting, alive, dead, struct, victim, first, torn>>

(* task_node = task_node->next, in a struct that nobody has freed.  A node *)
(* that has left the list still leads to those that have not.              *)
reparent_next(c, list, next, loop) ==
    /\ Goto(c, next, loop)
    /\ struct[Head(second[c])] = "valid"
    /\ second' = [second EXCEPT ![c] = SelectSeq(Tail(@), LAMBDA a : a \in Range(list))]
    /\ UNCHANGED <<status, runs, mutex, waiting, families, struct, victim, first, torn>>

lock_init(c) ==
    /\ Goto(c, "lock_init", "read_alive")
    /\ mutex_lock(c, InitTask)
    /\ UNCHANGED <<status, runs, waiting, families, struct, locals>>

(* concat_lists reads the ends of both lists, then links them.             *)
concat_read(c, lists, from, to, done) ==
    /\ Goto(c, from, IF lists[c] = <<>> THEN done ELSE to)
    /\ first' = [first EXCEPT ![c] = lists[InitTask]]
    /\ second' = [second EXCEPT ![c] = lists[c]]
    /\ UNCHANGED <<status, runs, mutex, waiting, families, struct, victim, torn>>

concat_replaces(c) ==   \* fault: the first list is not kept
    /\ Goto(c, "write_alive", "read_dead")
    /\ Joins(c, alive)
    /\ alive' = [alive EXCEPT ![InitTask] = alive[c], ![c] = <<>>]
    /\ UNCHANGED <<status, runs, mutex, waiting, parent, dead, struct, locals>>

concat_alive(c) ==
    /\ Goto(c, "write_alive", "read_dead")
    /\ Joins(c, alive)
    /\ alive' = [alive EXCEPT ![InitTask] = @ \o alive[c], ![c] = <<>>]
    /\ UNCHANGED <<status, runs, mutex, waiting, parent, dead, struct, locals>>

concat_dead(c) ==
    /\ Goto(c, "write_dead", "unlock_init")
    /\ Joins(c, dead)
    /\ dead' = [dead EXCEPT ![InitTask] = @ \o dead[c], ![c] = <<>>]
    /\ UNCHANGED <<status, runs, mutex, waiting, parent, alive, struct, locals>>

(* The ends that were read are no longer the ends, or the loop stands on a *)
(* struct that has been freed.                                             *)
list_torn(a) ==
    /\ status[a] = "RUNNABLE"
    /\ \/ pc[a] = "fork" /\ ~Appends(a, alive[a])
       \/ pc[a] = "take" /\ ~Unlinks(a, dead[a])
       \/ pc[a] = "alive_next" /\ struct[Head(second[a])] # "valid"
       \/ pc[a] = "write_alive" /\ ~Joins(a, alive)
       \/ pc[a] = "write_dead" /\ ~Joins(a, dead)
    /\ torn' = TRUE
    /\ UNCHANGED <<condVars, families, struct, victim, first, second>>

(* Both mutexes are released and the address space is freed.               *)
unlock_init(c) ==
    /\ Goto(c, "unlock_init", "exit")
    /\ mutex_unlock(c, InitTask)
    /\ Forget(c)
    /\ UNCHANGED <<status, runs, waiting, families, struct, victim, torn>>

(* With interrupts off the task leaves whichever list it is linked on for  *)
(* the dead list of its parent, and the parent is signalled.  If that woke *)
(* a thread, runq_add_thread has turned interrupts on, and the rest of the *)
(* exit ("last") may be preempted; otherwise they stay off until the       *)
(* thread is gone.                                                         *)
exit_lists(c, p) ==
    /\ alive' = [a \in Thread |-> Remove(alive[a], c)]
    /\ dead' = [dead EXCEPT ![p] = Append(@, c)]

exit(c) ==
    LET p == parent[c]
    IN  /\ Goto(c, "exit", IF waiting[p] = <<>> THEN "gone" ELSE "last")
        /\ exit_lists(c, p)
        /\ IF alive'[p] = <<>> THEN cond_broadcast(p) ELSE cond_signal(p)
        /\ UNCHANGED <<mutex, parent, struct, locals>>

last_switch(c) ==
    /\ Goto(c, "last", "gone")
    /\ UNCHANGED <<status, runs, mutex, waiting, families, struct, locals>>

Kernel(a) ==
    \/ wait_tests(a) \/ wait_blocks(a) \/ wait_queue(a) \/ wait_block(a) \/ wait_relock(a)
    \/ wait_reads(a) \/ wait_takes(a) \/ wait_reaps(a) \/ wait_fails(a)
    \/ reparent(a)
    \/ reparent_to_init(a, "alive_loop", "alive_next", "dead_loop", dead[a])
    \/ reparent_next(a, alive[a], "alive_next", "alive_loop")
    \/ reparent_to_init(a, "dead_loop", "dead_next", "lock_init", <<>>)
    \/ reparent_next(a, dead[a], "dead_next", "dead_loop")
    \/ lock_init(a)
    \/ concat_read(a, alive, "read_alive", "write_alive", "read_dead") \/ concat_alive(a)
    \/ concat_read(a, dead, "read_dead", "write_dead", "unlock_init") \/ concat_dead(a)
    \/ list_torn(a)
    \/ unlock_init(a) \/ exit(a) \/ last_switch(a)

(* The lists of tasks and the run queue are still lists; the model stops   *)
(* when a thread is linked into the run queue a second time.               *)
Intact == ~torn /\ \A a \in Thread : runs[a] < 2

Next ==
    /\ Intact
    /\ \E a \in Thread : Kernel(a) \/ do_wait(a) \/ do_vanish(a)
                         \/ \E c \in Thread : do_fork(a, c) \/ fork_links(a, c)

Spec == Init /\ [][Next]_vars
-----------------------------------------------------------------------------
(* A task is reaped once: no struct is on two dead lists or twice on one,  *)
(* none is taken by two waits, and a freed one is on no dead list.  wait   *)
(* returns a child of the caller: its own, or for init one that vanish     *)
(* gave to init.                                                           *)
ReapedOnce ==
    /\ \A a, b \in Thread : \A i \in 1..Len(dead[a]), j \in 1..Len(dead[b]) :
          dead[a][i] = dead[b][j] => a = b /\ i = j
    /\ \A a \in Thread : \A i \in 1..Len(dead[a]) :
          struct[dead[a][i]] = "valid" /\ dead[a][i] \notin Range(victim)
    /\ \A a, b \in Thread : victim[a] = victim[b] /\ victim[a] # NoThread => a = b
    /\ \A a \in Thread :
          victim[a] # NoThread => struct[victim[a]] = "valid" /\ parent[victim[a]] = a

(* No task is forgotten as long as the lists are lists: from the fork that *)
(* links it until its struct is freed, every task but init is on exactly   *)
(* one list of children, living or dead, or in the hands of the wait that  *)
(* reaps it.  A child is lost only where one of the operations of          *)
(* list_torn is overtaken by another task's.                               *)
NoChildLost ==
    \A a \in Thread \ {InitTask} : struct[a] = "valid" =>
        Cardinality({p \in Thread : a \in Range(alive[p])})
          + Cardinality({p \in Thread : a \in Range(dead[p])})
          + Cardinality({p \in Thread : victim[p] = a}) = 1

(* do_wait: "We will block wait if there are no dead tasks and there are   *)
(* still some tasks alive".  A task sleeps in wait only when it has no     *)
(* dead child.                                                             *)
SleepsOnlyWithoutDead ==
    \A a \in Thread : status[a] = "WAITING" => dead[a] = <<>>
=============================================================================
