------------------------- MODULE KMutexLockProofs ---------------------------
(***************************************************************************)
(* What follows from the invariant of KMutexProofs: callers that respect   *)
(* the lock order do not deadlock, and mutex.c implements BlockingLock.    *)
(***************************************************************************)
EXTENDS KMutexProofs, WellFoundedInduction

(* A non-empty set of mutexes has a last one in the lock order.            *)
LEMMA LastMutex ==
    ASSUME NEW M, M \subseteq Mutex, M # {}
    PROVE  \E m \in M : \A n \in M : n <= m
<1> DEFINE D == {NMutex - m : m \in M}
<1>1. D \subseteq Nat /\ D # {}
  <2>1. ASSUME NEW m \in M  PROVE NMutex - m \in Nat
    BY MutexAssumption DEF Mutex
  <2>2. QED  BY <2>1
<1>2. \E x \in D : \A y \in D : ~(<<y, x>> \in OpToRel(<, Nat))
  <2> HIDE DEF D
  <2> QED  BY <1>1, WFMin, NatLessThanWellFounded
<1>3. PICK x \in D : \A y \in D : ~(y < x)
  BY <1>1, <1>2 DEF OpToRel
<1>4. PICK m \in M : x = NMutex - m
  BY <1>3
<1>5. ASSUME NEW n \in M  PROVE n <= m
  <2>0. NMutex - n \in D
    OBVIOUS
  <2>1. n \in Nat /\ m \in Nat
    BY DEF Mutex
  <2>2. ~(NMutex - n < NMutex - m)
    BY <1>3, <1>4, <2>0
  <2>3. QED  BY <2>1, <2>2, MutexAssumption
<1>6. QED  BY <1>5

(* When nothing runs or is runnable, a mutex with sleepers is held by a    *)
(* thread that sleeps on a later mutex; the last such mutex has none.      *)
LEMMA NobodyWaits == IInv => NoLockDeadlock
<1> SUFFICES ASSUME IInv, curr = Idle, runq = <<>>, NEW m0 \in Mutex, waiting[m0] # <<>>
             PROVE  FALSE
  BY DEF NoLockDeadlock
<1> DEFINE M == {m \in Mutex : waiting[m] # <<>>}
<1>1. TypeOK /\ SchedType /\ MutualExclusion /\ OnePlace /\ NoLostWakeup /\ Discipline
  BY DEF IInv, TypeOK
<1>2. PICK m \in M : \A n \in M : n <= m
  <2>1. M \subseteq Mutex /\ M # {}  OBVIOUS
  <2>2. QED  BY <2>1, LastMutex
<1>3. \A t \in Thread : status[t] \notin {"RUNNING", "RUNNABLE"}
  BY <1>1, EmptyQueue, SchedAssumption DEF OnePlace
<1>4. PICK t \in Thread : m \in held[t]
  BY <1>1, <1>2, <1>3 DEF NoLostWakeup, MutualExclusion
<1>5. status[t] = "WAITING"
  BY <1>1, <1>3, <1>4 DEF Discipline, Gone, SchedType, Status, AllThreads
<1>6. PICK n \in Mutex : InQueue(waiting[n], t)
  BY <1>1, <1>5 DEF OnePlace
<1>7. wants[t] = n /\ waiting[n] # <<>>
  BY <1>1, <1>6, EmptyQueue DEF OnePlace
<1>8. m < n /\ n <= m
  BY <1>1, <1>2, <1>4, <1>7, SMTT(30) DEF Discipline, NoMutex, Mutex
<1>9. QED  BY <1>2, <1>8 DEF Mutex

(* Callers that respect the lock order never wait for each other for ever  *)
(* in mutex_lock: the idle thread is alone only when no thread is asleep   *)
(* on a mutex.                                                             *)
THEOREM LockOrderPreventsDeadlock == Spec => []NoLockDeadlock
<1>1. QED  BY NobodyWaits, InitIInv, NextIInv, PTL DEF Spec
-----------------------------------------------------------------------------
(* The owner of the refinement mapping is the holder of the mutex.         *)
LEMMA OwnerOf ==
    ASSUME NEW h, NEW m, \A t, u \in Thread : m \in h[t] /\ m \in h[u] => t = u
    PROVE  /\ \A t \in Thread : m \in h[t] => OwnerIn(h, m) = t
           /\ (\A t \in Thread : m \notin h[t]) => OwnerIn(h, m) = NoThread
BY DEF OwnerIn

(* A lock attempt on a locked mutex is the abstract Sleep.                 *)
LEMMA BlockIsSleep ==
    ASSUME IInv, NEW t \in Thread, NEW m \in Mutex, NEW f,
           curr = t, \A h \in held[t] : h < m, block(t, m, f)
    PROVE  Lock!Sleep(t, m)
<1>1. TypeOK /\ MutualExclusion /\ OnePlace  BY DEF IInv
<1>2. \A n \in Mutex : ~InQueue(waiting[n], t)
  BY <1>1 DEF OnePlace
<1>3. Lock!Awake(t)
  BY <1>2 DEF Lock!Awake, asleep
<1>4. owner[m] \notin {NoThread, t} /\ owner' = owner
  <2>1. PICK u \in Thread : m \in held[u]
    BY <1>1 DEF block, MutualExclusion
  <2>2. u # t
    BY <2>1, SMTT(30) DEF Mutex
  <2>3. owner[m] = u
    BY <1>1, <2>1, OwnerOf DEF owner, MutualExclusion
  <2>4. QED  BY <2>2, <2>3, SchedAssumption DEF owner, block
<1>5. asleep' = [asleep EXCEPT ![m] = @ \cup {t}]
  <2>1. waiting' = [waiting EXCEPT ![m] = Append(@, t)] /\ waiting \in [Mutex -> Seq(Thread)]
    BY <1>1 DEF block, TypeOK
  <2>2. \A n \in Mutex : waiting'[n] = IF n = m THEN Append(waiting[m], t) ELSE waiting[n]
    BY <2>1
  <2>3. \A u : InQueue(Append(waiting[m], t), u) <=> InQueue(waiting[m], u) \/ u = t
    BY <2>1, AppendQueue
  <2>4. \A n \in Mutex : asleep'[n] = IF n = m THEN asleep[n] \cup {t} ELSE asleep[n]
    BY <2>2, <2>3 DEF asleep
  <2>5. QED  BY <2>4 DEF asleep
<1>6. QED  BY <1>3, <1>4, <1>5 DEF Lock!Sleep

(* A lock attempt on a free mutex is the abstract Acquire.                 *)
LEMMA TakeIsAcquire ==
    ASSUME IInv, NEW t \in Thread, NEW m \in Mutex, NEW f, curr = t, take(t, m, f)
    PROVE  Lock!Acquire(t, m)
<1>1. TypeOK /\ MutualExclusion /\ OnePlace  BY DEF IInv
<1>2. Lock!Awake(t)
  BY <1>1 DEF Lock!Awake, asleep, OnePlace
<1>3. \A u \in Thread : m \notin held[u]
  BY <1>1 DEF take, MutualExclusion
<1>4. owner[m] = NoThread
  BY <1>3, OwnerOf DEF owner
<1>5. \A u \in Thread : held'[u] = IF u = t THEN held[u] \cup {m} ELSE held[u]
  BY <1>1 DEF take, TypeOK
<1>6. owner' = [owner EXCEPT ![m] = t]
  <2>1. OwnerIn(held', m) = t
    <3>1. \A u, v \in Thread : m \in held'[u] /\ m \in held'[v] => u = v
      BY <1>3, <1>5
    <3>2. m \in held'[t]
      BY <1>5
    <3>3. QED  BY <3>1, <3>2, OwnerOf
  <2>2. ASSUME NEW n \in Mutex, n # m  PROVE OwnerIn(held', n) = OwnerIn(held, n)
    <3>1. \A u \in Thread : n \in held'[u] <=> n \in held[u]
      BY <1>5, <2>2
    <3>2. \A u, v \in Thread : n \in held[u] /\ n \in held[v] => u = v
      BY <1>1 DEF MutualExclusion
    <3>3. QED  BY <3>1, <3>2, OwnerOf
  <2>3. \A n \in Mutex : owner'[n] = IF n = m THEN t ELSE owner[n]
    BY <2>1, <2>2 DEF owner
  <2>4. QED  BY <2>3 DEF owner
<1>7. asleep' = asleep
  BY DEF take, asleep
<1>8. QED  BY <1>2, <1>4, <1>6, <1>7 DEF Lock!Acquire

(* An unlock is the abstract Release, whose woken thread is the head of    *)
(* the queue.                                                              *)
LEMMA UnlockIsRelease ==
    ASSUME IInv, NEW t \in Thread, NEW m \in Mutex, NEW f, unlock(t, m, f)
    PROVE  Lock!Release(t, m)
<1>1. TypeOK /\ MutualExclusion /\ OnePlace  BY DEF IInv
<1>2. Lock!Awake(t)
  BY <1>1 DEF Lock!Awake, asleep, OnePlace, unlock, Runs
<1>3. m \in held[t] /\ \A u \in Thread : m \in held[u] => u = t
  BY <1>1 DEF unlock, MutualExclusion
<1>4. owner[m] = t
  BY <1>3, OwnerOf DEF owner
<1>5. \A u \in Thread : held'[u] = IF u = t THEN held[u] \ {m} ELSE held[u]
  BY <1>1 DEF unlock, TypeOK
<1>6. owner' = [owner EXCEPT ![m] = NoThread]
  <2>1. OwnerIn(held', m) = NoThread
    <3>1. \A u \in Thread : m \notin held'[u]
      BY <1>3, <1>5
    <3>2. QED  BY <3>1, OwnerOf
  <2>2. ASSUME NEW n \in Mutex, n # m  PROVE OwnerIn(held', n) = OwnerIn(held, n)
    <3>1. \A u \in Thread : n \in held'[u] <=> n \in held[u]
      BY <1>5, <2>2
    <3>2. \A u, v \in Thread : n \in held[u] /\ n \in held[v] => u = v
      BY <1>1 DEF MutualExclusion
    <3>3. QED  BY <3>1, <3>2, OwnerOf
  <2>3. \A n \in Mutex : owner'[n] = IF n = m THEN NoThread ELSE owner[n]
    BY <2>1, <2>2 DEF owner
  <2>4. QED  BY <2>3 DEF owner
<1>7. \/ asleep[m] = {} /\ asleep' = asleep
      \/ \E u \in asleep[m] : asleep' = [asleep EXCEPT ![m] = @ \ {u}]
  <2>1. CASE waiting[m] = <<>>
    <3>1. waiting' = waiting  BY <2>1 DEF unlock, wake_first
    <3>2. QED  BY <2>1, <3>1, EmptyQueue DEF asleep
  <2>2. CASE waiting[m] # <<>>
    <3> DEFINE w == Head(waiting[m])
    <3>1. /\ waiting' = [waiting EXCEPT ![m] = Tail(@)]
          /\ waiting \in [Mutex -> Seq(Thread)]
          /\ NoRepeats(waiting[m])
      BY <1>1, <2>2 DEF unlock, wake_first, TypeOK, OnePlace
    <3>2. \A n \in Mutex : waiting'[n] = IF n = m THEN Tail(waiting[m]) ELSE waiting[n]
      BY <3>1
    <3>3. /\ w \in Thread /\ InQueue(waiting[m], w)
          /\ \A u : InQueue(Tail(waiting[m]), u) <=> InQueue(waiting[m], u) /\ u # w
      BY <2>2, <3>1, TailQueue
    <3>4. \A n \in Mutex : asleep'[n] = IF n = m THEN asleep[n] \ {w} ELSE asleep[n]
      BY <3>2, <3>3 DEF asleep
    <3>5. w \in asleep[m] /\ asleep' = [asleep EXCEPT ![m] = @ \ {w}]
      BY <3>3, <3>4 DEF asleep
    <3>6. QED  BY <3>5
  <2>3. QED  BY <2>1, <2>2
<1>8. QED  BY <1>2, <1>4, <1>6, <1>7 DEF Lock!Release

(* Every step of the kernel is a step of the abstract lock or leaves it    *)
(* as it is.                                                               *)
LEMMA NextIsLock == IInv /\ [Next]_vars => [Lock!Next]_<<owner, asleep>>
<1> SUFFICES ASSUME IInv, [Next]_vars  PROVE Lock!Next \/ UNCHANGED <<owner, asleep>>
  OBVIOUS
<1>1. CASE UNCHANGED <<held, waiting>>
  BY <1>1 DEF owner, asleep
<1>2. ASSUME NEW t \in Thread, NEW m \in Mutex, mutex_lock(t, m) \/ mutex_lock_int_save(t, m)
      PROVE  Lock!Next
  BY <1>2, BlockIsSleep, TakeIsAcquire
     DEF mutex_lock, mutex_lock_int_save, MayLock, Runs, Lock!Next
<1>3. ASSUME NEW t \in Thread, NEW m \in Mutex, mutex_unlock(t, m) \/ mutex_unlock_int_save(t, m)
      PROVE  Lock!Next
  BY <1>3, UnlockIsRelease DEF mutex_unlock, mutex_unlock_int_save, Lock!Next
<1>4. ASSUME NEW t \in Thread, retry(t)  PROVE Lock!Next
  <2>1. wants[t] \in Mutex /\ curr = t /\ \A h \in held[t] : h < wants[t]
    BY <1>4 DEF retry, IInv, TypeOK, Discipline
  <2>2. QED  BY <1>4, <2>1, BlockIsSleep, TakeIsAcquire DEF retry, Lock!Next
<1>5. ASSUME NEW t \in Thread, NEW m \in Mutex, mutex_init(t, m)  PROVE UNCHANGED <<held, waiting>>
  <2>1. waiting[m] = <<>>
    <3>1. SUFFICES ASSUME waiting[m] # <<>>  PROVE FALSE
      OBVIOUS
    <3>2. Head(waiting[m]) \in Thread /\ InQueue(waiting[m], Head(waiting[m]))
      BY <3>1, TailQueue DEF IInv, TypeOK
    <3>3. QED  BY <1>5, <3>2 DEF IInv, OnePlace, Discipline, mutex_init
  <2>2. QED  BY <1>5, <2>1 DEF mutex_init, IInv, TypeOK
<1>6. Tick \/ UNCHANGED vars => UNCHANGED <<held, waiting>>
  BY DEF Tick, vars, mutexVars
<1>7. ASSUME NEW t \in Thread,
             \/ \E m \in Mutex : mutex_destroy(t, m)
             \/ disable_interrupts(t) \/ enable_interrupts(t)
             \/ \E u \in Thread : start_thread(t, u)
             \/ vanish(t)
      PROVE  UNCHANGED <<held, waiting>>
  BY <1>7 DEF mutex_destroy, disable_interrupts, enable_interrupts, start_thread, vanish, mutexVars
<1>8. QED  BY <1>1, <1>2, <1>3, <1>4, <1>5, <1>6, <1>7 DEF Next, Step

(* mutex.c implements the blocking lock of BlockingLock.tla.               *)
THEOREM MutexImplementsLock == Spec => ImplementsLock
<1>1. Init => Lock!Init
  <2>1. Init => asleep = [m \in Mutex |-> {}]
    BY EmptyQueue DEF Init, asleep
  <2>2. Init => owner = [m \in Mutex |-> NoThread]
    <3>1. Init => \A m \in Mutex : \A t \in Thread : m \notin held[t]
      BY DEF Init
    <3>2. Init => \A m \in Mutex : OwnerIn(held, m) = NoThread
      BY <3>1 DEF OwnerIn
    <3>3. QED  BY <3>2 DEF owner
  <2>3. QED  BY <2>1, <2>2 DEF Lock!Init
<1>2. QED  BY <1>1, InitIInv, NextIInv, NextIsLock, PTL DEF Spec, ImplementsLock, Lock!Spec
=============================================================================
