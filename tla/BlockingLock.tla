---------------------------- MODULE BlockingLock ----------------------------
(***************************************************************************)
(* What sync/mutex.c promises its callers: an owner for every mutex and a  *)
(* set of threads asleep on it.                                            *)
(***************************************************************************)
CONSTANTS Thread, Mutex, NoThread

VARIABLES owner, asleep

Init ==
    /\ owner = [m \in Mutex |-> NoThread]
    /\ asleep = [m \in Mutex |-> {}]

Awake(t) == \A m \in Mutex : t \notin asleep[m]

Acquire(t, m) ==
    /\ Awake(t)
    /\ owner[m] = NoThread
    /\ owner' = [owner EXCEPT ![m] = t]
    /\ UNCHANGED asleep

Sleep(t, m) ==
    /\ Awake(t)
    /\ owner[m] \notin {NoThread, t}
    /\ asleep' = [asleep EXCEPT ![m] = @ \cup {t}]
    /\ UNCHANGED owner

Release(t, m) ==
    /\ Awake(t)
    /\ owner[m] = t
    /\ owner' = [owner EXCEPT ![m] = NoThread]
    /\ \/ asleep[m] = {} /\ UNCHANGED asleep
       \/ \E u \in asleep[m] : asleep' = [asleep EXCEPT ![m] = @ \ {u}]

Next == \E t \in Thread, m \in Mutex : Acquire(t, m) \/ Sleep(t, m) \/ Release(t, m)

Spec == Init /\ [][Next]_<<owner, asleep>>
=============================================================================
