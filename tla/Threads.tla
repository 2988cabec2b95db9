------------------------------ MODULE Threads ------------------------------
(***************************************************************************)
(* The threads of one task: kern/core/thread.c, do_thread_fork (fork.c)    *)
(* and the thread's half of do_vanish (wait_vanish.c).                     *)
(*                                                                         *)
(* A thread struct is a piece of memory: it holds a link of its task's     *)
(* thread list (team) and a link of one bucket of the thread map, and goes *)
(* back to the heap when the thread vanishes, to be handed to the next     *)
(* create_thread with the stale links in it.                               *)
(*                                                                         *)
(* The thread map is only touched under map_mutex, so each of its          *)
(* operations is one step.  The task's list is not so lucky: create_thread *)
(* appends to it under the mutex of thread.c, do_vanish unlinks from it    *)
(* under the task's thread_list_mutex.  The two exclude nobody from each   *)
(* other, so the stores of add_to_list and del_entry are steps here.       *)
(***************************************************************************)
EXTENDS List, FiniteSetsExt

CONSTANTS Struct,         \* the thread structs the heap can hand out
          Task,           \* the address of the task's thread_head
          HASHMAP_SIZE,   \* number of buckets
          MaxTid          \* bound: thread ids handed out

ASSUME ThreadsAssumption ==
  /\ HASHMAP_SIZE \in Nat \ {0}
  /\ NoNode \notin Struct \cup {Task} /\ Task \notin Struct

VARIABLES thrpc,      \* [Struct -> where the thread in that struct is]
          id,         \* [Struct -> thr->id]
          next_tid,   \* the static counter of thread.c
          team,       \* the task_thread_links and the task's thread_head
          map,        \* the thread_map_links and the buckets
          creating,   \* [Struct -> create_thread's thr]
          after,      \* [Struct -> add_to_list's argument prev]
          mutex,      \* holder of the mutex of thread.c
          thread_list_mutex,
          space       \* the task still has its address space

threadVars == <<thrpc, id, next_tid, team, map, creating, after, mutex,
                thread_list_mutex, space>>

Bucket == 0..(HASHMAP_SIZE - 1)
Unlinked(S) == [next |-> [s \in S |-> s], prev |-> [s \in S |-> s]]

\* The first thread of the task runs user code; the others are free memory.
ThreadsInit ==
  LET t == CHOOSE s \in Struct : TRUE
  IN
    /\ thrpc = [s \in Struct |-> IF s = t THEN "user" ELSE "free"]
    /\ id = [s \in Struct |-> IF s = t THEN 1 ELSE 0]
    /\ next_tid = 1
    /\ team = add_to_tail(Unlinked(Struct \cup {Task}), t, Task)
    /\ map = add_to_tail(Unlinked(Struct \cup Bucket), t, 1 % HASHMAP_SIZE)
    /\ creating = [s \in Struct |-> NoNode]
    /\ after = [s \in Struct |-> NoNode]
    /\ mutex = NoNode
    /\ thread_list_mutex = NoNode
    /\ space = TRUE

-----------------------------------------------------------------------------
(* The thread map. *)

\* C's remainder, which has the sign of thr_id: yield passes on negative ids.
index(thr_id) ==
  IF thr_id >= 0 THEN thr_id % HASHMAP_SIZE ELSE -((-thr_id) % HASHMAP_SIZE)

add_thread_to_map(l, s) == add_to_tail(l, s, id[s] % HASHMAP_SIZE)

\* The node a walk of bucket b stands on after k steps along next.
walk(l, b) ==
  LET at[k \in 0..Cardinality(Struct)] ==
        IF k = 0 THEN get_first(l, b)
        ELSE LET n == at[k - 1] IN IF n \in Struct THEN l.next[n] ELSE n
  IN  at

\* The first thread struct of bucket b with that id, or NoNode.
found(l, b, thr_id) ==
  LET at   == walk(l, b)
      Hits == {k \in DOMAIN at : at[k] \in Struct /\ id[at[k]] = thr_id}
  IN  IF Hits = {} THEN NoNode ELSE at[Min(Hits)]

\* What get_thread_from_id may return: with an index outside the table it
\* follows whatever lies there.
get_thread_from_id(l, thr_id) ==
  IF index(thr_id) \in Bucket THEN {found(l, index(thr_id), thr_id)}
  ELSE Struct \cup {NoNode}

\* fault: only the first thread of the bucket is looked at.
remove_first_of_bucket(l, thr_id) ==
  LET s == get_first(l, index(thr_id))
  IN  IF s \in Struct /\ id[s] = thr_id THEN del_entry(l, s) ELSE l

remove_thread_from_map(l, thr_id) ==
  LET s == found(l, index(thr_id), thr_id)
  IN  IF s = NoNode THEN l ELSE del_entry(l, s)

-----------------------------------------------------------------------------
Goes(t, from, to) == /\ thrpc[t] = from
                     /\ thrpc' = [thrpc EXCEPT ![t] = to]

(* do_thread_fork. *)

\* create_thread up to the call of add_to_list, which reads head->prev.
create_thread(t, s) ==
  /\ Goes(t, "user", "link") /\ space
  /\ thrpc[s] = "free" /\ s \notin {creating[u] : u \in Struct}
  /\ mutex = NoNode /\ mutex' = t
  /\ next_tid < MaxTid
  /\ next_tid' = next_tid + 1
  /\ id' = [id EXCEPT ![s] = next_tid + 1]
  /\ creating' = [creating EXCEPT ![t] = s]
  /\ after' = [after EXCEPT ![t] = team.prev[Task]]
  /\ UNCHANGED <<team, map, thread_list_mutex, space>>

\* Its first three stores: the new node's own links and prev->next.
link(t) ==
  LET s == creating[t]
  IN  /\ Goes(t, "link", "close")
      /\ team' = set_next(set_prev(set_next(team, s, Task), s, after[t]),
                          after[t], s)
      /\ UNCHANGED <<id, next_tid, map, creating, after, mutex,
                     thread_list_mutex, space>>

\* Its last store, head->prev, and mutex_unlock.
close(t) ==
  /\ Goes(t, "close", "enter")
  /\ team' = set_prev(team, Task, creating[t])
  /\ mutex' = NoNode
  /\ after' = [after EXCEPT ![t] = NoNode]
  /\ UNCHANGED <<id, next_tid, map, creating, thread_list_mutex, space>>

enter(t) ==
  /\ Goes(t, "enter", "start")
  /\ map' = add_thread_to_map(map, creating[t])
  /\ UNCHANGED <<id, next_tid, team, creating, after, mutex,
                 thread_list_mutex, space>>

\* runq_add_thread(child_thread); the parent returns to user mode.
start(t) ==
  /\ thrpc[t] = "start"
  /\ thrpc' = [thrpc EXCEPT ![t] = "user", ![creating[t]] = "user"]
  /\ creating' = [creating EXCEPT ![t] = NoNode]
  /\ UNCHANGED <<id, next_tid, team, map, after, mutex, thread_list_mutex,
                 space>>

(* do_vanish. *)

vanish(t) ==
  /\ Goes(t, "user", "unlink") /\ space
  /\ thread_list_mutex = NoNode /\ thread_list_mutex' = t
  /\ map' = remove_thread_from_map(map, id[t])
  /\ UNCHANGED <<id, next_tid, team, creating, after, mutex, space>>

\* del_entry's first store.
unlink(t) ==
  /\ Goes(t, "unlink", "test")
  /\ team' = set_next(team, team.prev[t], team.next[t])
  /\ UNCHANGED <<id, next_tid, map, creating, after, mutex,
                 thread_list_mutex, space>>

\* Its second store, and the test whether this was the last thread.
test(t) ==
  LET l == set_prev(team, team.next[t], team.prev[t])
  IN  /\ Goes(t, "test", IF get_first(l, Task) = NoNode THEN "last" ELSE "gone")
      /\ team' = l
      /\ thread_list_mutex' = NoNode
      /\ UNCHANGED <<id, next_tid, map, creating, after, mutex, space>>

\* The last thread gives the address space away (free_paging_info).
last(t) ==
  /\ Goes(t, "last", "gone")
  /\ space' = FALSE
  /\ UNCHANGED <<id, next_tid, team, map, creating, after, mutex,
                 thread_list_mutex>>

\* thread_free_resources: the struct goes back to the heap as it is.
thread_free_resources(t) ==
  /\ Goes(t, "gone", "free")
  /\ UNCHANGED <<id, next_tid, team, map, creating, after, mutex,
                 thread_list_mutex, space>>

ThreadsNext ==
  \E t \in Struct :
    \/ \E s \in Struct : create_thread(t, s)
    \/ link(t) \/ close(t) \/ enter(t) \/ start(t)
    \/ vanish(t) \/ unlink(t) \/ test(t) \/ last(t) \/ thread_free_resources(t)

ThreadsSpec == ThreadsInit /\ [][ThreadsNext]_threadVars

-----------------------------------------------------------------------------
(* Properties. *)

\* The threads the map should know: entered and not yet unmapped.
Mapped == {s \in Struct : \/ thrpc[s] \in {"user", "link", "close", "enter", "start"}
                          \/ \E t \in Struct : thrpc[t] = "start" /\ creating[t] = s}

(***************************************************************************)
(* get_thread_from_id finds the struct of a thread exactly while the       *)
(* thread is in the map, whatever structs were reused and whatever ids     *)
(* share its bucket.  For every other id it returns NoNode: ids of threads *)
(* that have gone, ids never given, 0, and the negative multiples of       *)
(* HASHMAP_SIZE.  Other negative ids, which yield passes on, are looked up *)
(* outside the table, and nothing is said of those.                        *)
(***************************************************************************)
LookupExact ==
  LET mapped == Mapped
  IN  \A i \in -HASHMAP_SIZE..MaxTid + HASHMAP_SIZE :
        index(i) \in Bucket =>
          LET living == {s \in mapped : id[s] = i}
          IN  get_thread_from_id(map, i) = IF living = {} THEN {NoNode} ELSE living

(***************************************************************************)
(* do_vanish frees the address space only "If this is the last thread in   *)
(* the task" (wait_vanish.c:100): no thread of the task can run user code  *)
(* after that, nor is one about to be started.                             *)
(***************************************************************************)
LastThreadFrees ==
  ~space => \A t \in Struct : thrpc[t] \in {"gone", "free"}
=============================================================================
