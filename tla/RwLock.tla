------------------------------- MODULE RwLock -------------------------------
(***************************************************************************)
(* The reader/writer lock of the user library (user/libthread/rwlock.c).   *)
(* Its two condition variables are "readers" and "writers".                *)
(***************************************************************************)
EXTENDS UserCond

CONSTANT Writer    \* the threads that ask for the write lock; the others read

ASSUME RwLockAssumption == Writer \subseteq Thread /\ {"readers", "writers"} \subseteq Cond

VARIABLES type, num_writers, curr_readers

lock == <<type, num_writers, curr_readers>>

RwType ==
    /\ type \in {"FREE", "READ", "WRITE"}
    /\ num_writers \in 0..Cardinality(Writer)
    /\ curr_readers \in 0..Cardinality(Thread)

rwlock_init == type = "FREE" /\ num_writers = 0 /\ curr_readers = 0
-----------------------------------------------------------------------------
(* rwlock_lock(RWLOCK_WRITE) from the test of its loop on, when the number *)
(* of writers is n.                                                        *)
writer_loop(t, from, q, n) ==
    /\ num_writers' = n
    /\ \/ /\ type # "FREE" /\ curr_readers > 0
          /\ Goto(t, from, "deschedule")
          /\ cond_queue(t, "writers", q)
          /\ UNCHANGED <<type, curr_readers>>
       \/ /\ ~(type # "FREE" /\ curr_readers > 0)
          /\ Goto(t, from, "write")
          /\ type' = "WRITE"
          /\ waiting' = q
          /\ UNCHANGED <<reject, asleep, curr_readers>>

(* rwlock_lock(RWLOCK_READ) from the test of its loop on.                  *)
reader_must_wait_for_holder == type = "WRITE"   \* fault: waiting writers do not count

reader_must_wait == type = "WRITE" \/ num_writers > 0

reader_loop(t, from, q) ==
    /\ UNCHANGED num_writers
    /\ \/ /\ reader_must_wait
          /\ Goto(t, from, "deschedule")
          /\ cond_queue(t, "readers", q)
          /\ UNCHANGED <<type, curr_readers>>
       \/ /\ ~reader_must_wait
          /\ Goto(t, from, "read")
          /\ type' = "READ"
          /\ curr_readers' = curr_readers + 1
          /\ waiting' = q
          /\ UNCHANGED <<reject, asleep>>

rwlock_lock(t) ==
    \/ t \in Writer /\ writer_loop(t, "out", waiting, num_writers + 1)
    \/ t \notin Writer /\ reader_loop(t, "out", waiting)

rwlock_woken(t) ==
    \/ Awake(t, "writers") /\ writer_loop(t, "relock", left_queue(t), num_writers)
    \/ Awake(t, "readers") /\ reader_loop(t, "relock", left_queue(t))

(* rwlock_unlock acts on the mode of the lock, whoever calls.              *)
unlock_write(t) ==
    /\ type = "WRITE"
    /\ Goto(t, pc[t], "out")
    /\ num_writers' = num_writers - 1
    /\ type' = "FREE"
    /\ cond_broadcast_signal("readers", "writers")
    /\ UNCHANGED curr_readers

unlock_always_frees(t) ==   \* fault: the first reader to leave frees the lock
    /\ type = "READ"
    /\ Goto(t, pc[t], "out")
    /\ curr_readers' = curr_readers - 1
    /\ type' = "FREE"
    /\ cond_broadcast_signal("readers", "writers")
    /\ UNCHANGED num_writers

(* With the lock FREE, where two writers have been, nothing is done.       *)
unlock_read(t) ==
    /\ type # "WRITE"
    /\ Goto(t, pc[t], "out")
    /\ curr_readers' = IF type = "READ" THEN curr_readers - 1 ELSE curr_readers
    /\ IF type = "READ" /\ curr_readers = 1
       THEN type' = "FREE" /\ cond_broadcast_signal("readers", "writers")
       ELSE UNCHANGED <<type, waiting, reject, asleep>>
    /\ UNCHANGED num_writers

rwlock_unlock(t) == pc[t] \in {"read", "write"} /\ (unlock_write(t) \/ unlock_read(t))

rwlock_downgrade(t) ==
    /\ type = "WRITE"
    /\ Goto(t, "write", "read")
    /\ num_writers' = num_writers - 1
    /\ curr_readers' = curr_readers + 1
    /\ type' = "READ"
    /\ cond_broadcast("readers")
-----------------------------------------------------------------------------
Readers == {t \in Thread : pc[t] = "read"}
Writers == {t \in Thread : pc[t] = "write"}

(* While a thread has the write lock nobody reads, and the three fields    *)
(* describe the holders: rwlock_unlock, which goes by the fields alone,    *)
(* undoes what the caller's rwlock_lock did.                               *)
HoldersExact ==
    /\ Writers # {} => Readers = {}
    /\ curr_readers = Cardinality(Readers)
    /\ num_writers = Cardinality(Writers \cup Range(waiting["writers"]))
    /\ type = IF Writers # {} THEN "WRITE" ELSE IF Readers # {} THEN "READ" ELSE "FREE"

(* A writer that waits gets the lock however many readers come and go:     *)
(* readers wait while "the number of writers is greater than 0".           *)
WriterServed == \A t \in Writer : t \in SleepsOn("writers") ~> pc[t] = "write"

(* rwlock_lock: "Increasing the number of writers enures that future       *)
(* readers and writers wait till the writers are done".                    *)
OneWriter == Cardinality(Writers) <= 1
=============================================================================
