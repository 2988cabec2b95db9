--------------------------- MODULE KMutexProofs -----------------------------
(***************************************************************************)
(* The invariant of the kernel mutex over the scheduler, for any set of    *)
(* threads and any number of mutexes.                                      *)
(***************************************************************************)
EXTENDS KMutex, SchedProofs

(* The statuses of a thread that is in no queue and does not run.          *)
Gone(s) == s \in {"NONE", "DESCHEDULED"}

(* How the callers use mutexes: none is inside mutex_lock on a destroyed   *)
(* mutex, one that waits holds earlier mutexes only, and a thread that     *)
(* does not exist (or is descheduled) holds nothing.                       *)
Discipline ==
    /\ \A m \in Mutex : value[m] = MUTEX_INVALID => \A t \in Thread : wants[t] # m
    /\ \A t \in Thread : wants[t] # NoMutex => \A h \in held[t] : h < wants[t]
    /\ \A t \in Thread : Gone(status[t]) => held[t] = {} /\ wants[t] = NoMutex

(* The inductive invariant: the safety properties that the runs check      *)
(* support each other; Discipline keeps mutex_init from emptying a queue   *)
(* somebody sleeps on, and orders the threads that wait for each other.    *)
IInv == TypeOK /\ MutualExclusion /\ OnePlace /\ NoLostWakeup /\ Discipline

(* The boot state (mutex_init on every mutex) satisfies the invariant.     *)
LEMMA InitIInv == Init => IInv
<1> SUFFICES ASSUME Init  PROVE IInv
  OBVIOUS
<1>0. Idle \notin Thread /\ NoThread \notin AllThreads
  BY SchedAssumption DEF AllThreads
<1>1. PICK first \in Thread : SchedInit(first)
  BY DEF Init
<1>2. runq = <<first>> /\ curr = Idle /\ intr = TRUE
  BY <1>1 DEF SchedInit
<1>3. status = [t \in AllThreads |->
                  IF t = Idle THEN "RUNNING" ELSE IF t = first THEN "RUNNABLE" ELSE "NONE"]
  BY <1>1 DEF SchedInit
<1>4. \A t \in Thread : status[t] = IF t = first THEN "RUNNABLE" ELSE "NONE"
  BY <1>0, <1>3 DEF AllThreads
<1>5. /\ runq \in Seq(Thread) /\ NoRepeats(runq)
      /\ \A t : InQueue(runq, t) <=> t = first
  BY <1>2 DEF NoRepeats, InQueue
<1>6. TypeOK
  <2>1. status \in [AllThreads -> Status]
    BY <1>3 DEF Status
  <2>2. SchedType
    BY <1>2, <1>5, <2>1 DEF SchedType, AllThreads
  <2>3. QED  BY <2>2 DEF TypeOK, Init
<1>7. MutualExclusion
  BY DEF MutualExclusion, Init
<1>8. OnePlace
  <2>1. \A m \in Mutex : NoRepeats(waiting[m]) /\ \A t : ~InQueue(waiting[m], t)
    BY EmptyQueue DEF Init
  <2>2. QED  BY <1>0, <1>2, <1>4, <1>5, <2>1 DEF OnePlace
<1>9. NoLostWakeup
  BY DEF NoLostWakeup, Init
<1>10. Discipline
  BY DEF Discipline, Gone, Init, MUTEX_INVALID
<1>11. QED  BY <1>6, <1>7, <1>8, <1>9, <1>10 DEF IInv

(* A lock attempt that finds the mutex locked puts the caller to sleep.    *)
LEMMA BlockStep ==
    ASSUME IInv, NEW t \in Thread, NEW m \in Mutex, NEW f \in BOOLEAN,
           curr = t, wants[t] \in {NoMutex, m}, \A h \in held[t] : h < m, block(t, m, f)
    PROVE  IInv'
<1> DEFINE st == [status EXCEPT ![t] = "WAITING"]
<1>0. /\ Idle \notin Thread /\ NoThread \notin AllThreads /\ Thread \subseteq AllThreads
      /\ NoMutex \notin Mutex
  BY SchedAssumption DEF AllThreads, NoMutex, Mutex
<1>1. TypeOK /\ SchedType /\ MutualExclusion /\ OnePlace /\ NoLostWakeup
  BY DEF IInv, TypeOK
<1>2. st \in [AllThreads -> Status] /\ \A u \in Thread : st[u] = IF u = t THEN "WAITING" ELSE status[u]
  BY <1>0, <1>1 DEF SchedType, Status
<1>3. status[t] = "RUNNING" /\ ~InQueue(runq, t) /\ \A n \in Mutex : ~InQueue(waiting[n], t)
  BY <1>1 DEF OnePlace
<1>4. context_switch(t, NoThread, st, runq)
  BY DEF block
<1>5. /\ SchedType'
      /\ NoRepeats(runq')
      /\ \A u \in Thread : status'[u] = "RUNNING" <=> curr' = u
      /\ \A u \in Thread : status'[u] = "RUNNABLE" <=> InQueue(runq', u)
      /\ \A u \in Thread : st[u] \in {"RUNNING", "RUNNABLE"} => status'[u] \in {"RUNNING", "RUNNABLE"}
      /\ \A u \in Thread : st[u] \notin {"RUNNING", "RUNNABLE"} => status'[u] = st[u]
  <2>1. runq \in Seq(Thread) /\ NoRepeats(runq)
    BY <1>1 DEF SchedType, OnePlace
  <2>2. \A u \in Thread : st[u] = "RUNNABLE" <=> InQueue(runq, u)
    BY <1>1, <1>2, <1>3 DEF OnePlace
  <2>3. \A u \in Thread : st[u] = "RUNNING" => u = t
    BY <1>1, <1>2 DEF OnePlace
  <2>4. QED
    BY <1>0, <1>2, <1>4, <2>1, <2>2, <2>3, ContextSwitchPlaces
<1>6. /\ waiting' \in [Mutex -> Seq(Thread)]
      /\ NoRepeats(waiting'[m])
      /\ \A u : InQueue(waiting'[m], u) <=> InQueue(waiting[m], u) \/ u = t
      /\ \A n \in Mutex : n # m => waiting'[n] = waiting[n]
  <2>1. waiting \in [Mutex -> Seq(Thread)] /\ waiting' = [waiting EXCEPT ![m] = Append(@, t)]
    BY <1>1 DEF TypeOK, block
  <2>2. waiting'[m] = Append(waiting[m], t) /\ waiting[m] \in Seq(Thread) /\ NoRepeats(waiting[m])
    BY <1>1, <2>1 DEF OnePlace
  <2>3. QED
    BY <1>3, <2>1, <2>2, AppendQueue
<1>7. /\ wants' \in [Thread -> Mutex \cup {NoMutex}]
      /\ \A u \in Thread : wants'[u] = IF u = t THEN m ELSE wants[u]
  BY <1>1 DEF TypeOK, block
<1>8. TypeOK'
  BY <1>1, <1>5, <1>6, <1>7 DEF TypeOK, block
<1>9. MutualExclusion'
  BY <1>1 DEF MutualExclusion, block
<1>10. OnePlace'
  <2>1. \A n \in Mutex : NoRepeats(waiting'[n])
    BY <1>1, <1>6 DEF OnePlace
  <2>2. ASSUME NEW u \in Thread, NEW n \in Mutex, InQueue(waiting'[n], u)
        PROVE  status'[u] = "WAITING" /\ wants'[u] = n
    <3>1. CASE u = t
      BY <1>2, <1>3, <1>5, <1>6, <1>7, <2>2, <3>1, SMTT(30)
    <3>2. CASE u # t
      <4>1. InQueue(waiting[n], u)  BY <1>6, <2>2, <3>2
      <4>2. status[u] = "WAITING" /\ wants[u] = n  BY <1>1, <4>1 DEF OnePlace
      <4>3. QED  BY <1>2, <1>5, <1>7, <3>2, <4>2
    <3>3. QED  BY <3>1, <3>2
  <2>3. ASSUME NEW u \in Thread, status'[u] = "WAITING"
        PROVE  \E n \in Mutex : InQueue(waiting'[n], u)
    <3>1. CASE u = t
      BY <1>6, <3>1
    <3>2. CASE u # t
      <4>1. status[u] = "WAITING"
        BY <1>2, <1>5, <2>3, <3>2
      <4>2. PICK n \in Mutex : InQueue(waiting[n], u)  BY <1>1, <4>1 DEF OnePlace
      <4>3. InQueue(waiting'[n], u)  BY <1>6, <4>2
      <4>4. QED  BY <4>3
    <3>3. QED  BY <3>1, <3>2
  <2>4. QED  BY <1>5, <2>1, <2>2, <2>3 DEF OnePlace
<1>11. NoLostWakeup'
  <2> SUFFICES ASSUME NEW n \in Mutex, waiting'[n] # <<>>, value'[n] # 0
               PROVE  \E u \in Thread : wants'[u] = n /\ status'[u] \in {"RUNNING", "RUNNABLE"}
    BY DEF NoLostWakeup
  <2>1. n # m /\ value[n] # 0 /\ waiting[n] # <<>>
    BY <1>6 DEF block
  <2>2. PICK u \in Thread : wants[u] = n /\ status[u] \in {"RUNNING", "RUNNABLE"}
    BY <1>1, <2>1 DEF NoLostWakeup
  <2>3. CASE u # t
    BY <1>2, <1>5, <1>7, <2>2, <2>3
  <2>4. CASE u = t
    BY <1>0, <2>1, <2>2, <2>4
  <2>5. QED  BY <2>3, <2>4
<1>12. Discipline'
  <2>1. Discipline /\ UNCHANGED <<value, held>> /\ value[m] = 0
    BY DEF IInv, block
  <2>2. \A u \in Thread : Gone(status'[u]) => u # t /\ Gone(status[u])
    BY <1>2, <1>5 DEF Gone
  <2>3. QED  BY <1>7, <2>1, <2>2, SMTT(30) DEF Discipline, Gone, MUTEX_INVALID
<1>13. QED  BY <1>8, <1>9, <1>10, <1>11, <1>12 DEF IInv

(* A lock attempt that finds the mutex free takes it.                      *)
LEMMA TakeStep ==
    ASSUME IInv, NEW t \in Thread, NEW m \in Mutex, NEW f \in BOOLEAN,
           curr = t, wants[t] \in {NoMutex, m}, take(t, m, f)
    PROVE  IInv'
<1>0. NoMutex \notin Mutex
  BY DEF NoMutex, Mutex
<1>1. TypeOK /\ SchedType /\ MutualExclusion /\ OnePlace /\ NoLostWakeup
  BY DEF IInv, TypeOK
<1>2. /\ UNCHANGED <<curr, status, runq, waiting, flag>> /\ intr' = f
      /\ value' \in [Mutex -> {MUTEX_INVALID, 0, 1}]
      /\ \A n \in Mutex : value'[n] = IF n = m THEN 0 ELSE value[n]
      /\ held' \in [Thread -> SUBSET Mutex]
      /\ \A u \in Thread : held'[u] = IF u = t THEN held[u] \cup {m} ELSE held[u]
      /\ wants' \in [Thread -> Mutex \cup {NoMutex}]
      /\ \A u \in Thread : wants'[u] = IF u = t THEN NoMutex ELSE wants[u]
  BY <1>1 DEF TypeOK, take
<1>3. value[m] # 0 /\ \A u \in Thread : m \notin held[u]
  BY <1>1 DEF take, MutualExclusion
<1>4. TypeOK'
  BY <1>1, <1>2 DEF TypeOK, SchedType
<1>5. MutualExclusion'
  <2>1. ASSUME NEW n \in Mutex, NEW u \in Thread, NEW v \in Thread, n \in held'[u], n \in held'[v]
        PROVE u = v
    BY <1>1, <1>2, <1>3, <2>1 DEF MutualExclusion
  <2>2. ASSUME NEW n \in Mutex  PROVE value'[n] = 0 <=> \E u \in Thread : n \in held'[u]
    <3>1. CASE n = m
      BY <1>2, <3>1
    <3>2. CASE n # m
      <4>1. \A u \in Thread : n \in held'[u] <=> n \in held[u]  BY <1>2, <3>2
      <4>2. value[n] = 0 <=> \E u \in Thread : n \in held[u]  BY <1>1 DEF MutualExclusion
      <4>3. QED  BY <1>2, <3>2, <4>1, <4>2
    <3>3. QED  BY <3>1, <3>2
  <2>3. QED  BY <2>1, <2>2 DEF MutualExclusion
<1>6. OnePlace'
  <2>1. status[t] = "RUNNING"
    BY <1>1 DEF OnePlace
  <2>2. ASSUME NEW u \in Thread, NEW n \in Mutex, InQueue(waiting[n], u)
        PROVE  status[u] = "WAITING" /\ wants'[u] = n
    BY <1>1, <1>2, <2>1, <2>2 DEF OnePlace
  <2>3. QED  BY <1>1, <1>2, <2>2 DEF OnePlace
<1>7. NoLostWakeup'
  <2> SUFFICES ASSUME NEW n \in Mutex, waiting'[n] # <<>>, value'[n] # 0
               PROVE  \E u \in Thread : wants'[u] = n /\ status'[u] \in {"RUNNING", "RUNNABLE"}
    BY DEF NoLostWakeup
  <2>1. n # m /\ value[n] # 0 /\ waiting[n] # <<>>
    BY <1>2
  <2>2. PICK u \in Thread : wants[u] = n /\ status[u] \in {"RUNNING", "RUNNABLE"}
    BY <1>1, <2>1 DEF NoLostWakeup
  <2>3. u # t
    BY <1>0, <2>1, <2>2
  <2>4. QED  BY <1>2, <2>2, <2>3
<1>8. Discipline'
  <2>1. Discipline /\ status[t] = "RUNNING"
    BY <1>1 DEF IInv, OnePlace
  <2>2. QED  BY <1>0, <1>2, <2>1, SMTT(30) DEF Discipline, Gone, MUTEX_INVALID
<1>9. QED  BY <1>4, <1>5, <1>6, <1>7, <1>8 DEF IInv

(* An unlock by the holder frees the mutex and wakes the first sleeper.    *)
LEMMA UnlockStep ==
    ASSUME IInv, NEW t \in Thread, NEW m \in Mutex, NEW f \in BOOLEAN, unlock(t, m, f)
    PROVE  IInv'
<1>0. /\ Idle \notin Thread /\ NoMutex \notin Mutex /\ Thread \subseteq AllThreads
  BY SchedAssumption DEF AllThreads, NoMutex, Mutex
<1>1. TypeOK /\ SchedType /\ MutualExclusion /\ OnePlace /\ NoLostWakeup
  BY DEF IInv, TypeOK
<1>2. /\ UNCHANGED <<curr, wants, flag>> /\ intr' = f /\ curr = t
      /\ value' \in [Mutex -> {MUTEX_INVALID, 0, 1}]
      /\ \A n \in Mutex : value'[n] = IF n = m THEN 1 ELSE value[n]
      /\ held' \in [Thread -> SUBSET Mutex]
      /\ \A u \in Thread : held'[u] = IF u = t THEN held[u] \ {m} ELSE held[u]
  BY <1>1 DEF TypeOK, unlock, Runs
<1>3. MutualExclusion'
  <2>1. m \in held[t] /\ \A u \in Thread : m \in held[u] => u = t
    BY <1>1 DEF unlock, MutualExclusion
  <2>2. ASSUME NEW n \in Mutex  PROVE value'[n] = 0 <=> \E u \in Thread : n \in held'[u]
    <3>1. CASE n = m
      BY <1>2, <2>1, <3>1
    <3>2. CASE n # m
      <4>1. \A u \in Thread : n \in held'[u] <=> n \in held[u]  BY <1>2, <3>2
      <4>2. value[n] = 0 <=> \E u \in Thread : n \in held[u]  BY <1>1 DEF MutualExclusion
      <4>3. QED  BY <1>2, <3>2, <4>1, <4>2
    <3>3. QED  BY <3>1, <3>2
  <2>3. \A n \in Mutex : \A u, v \in Thread : n \in held'[u] /\ n \in held'[v] => u = v
    BY <1>1, <1>2 DEF MutualExclusion
  <2>4. QED  BY <2>2, <2>3 DEF MutualExclusion
<1>3a. status[t] = "RUNNING" /\ wants[t] = NoMutex /\ Discipline
  BY <1>1, <1>2 DEF OnePlace, unlock, Runs, IInv
<1>3b. \A u \in Thread : Gone(status'[u]) => Gone(status[u])
  <2>1. CASE waiting[m] = <<>>
    BY <2>1 DEF unlock, wake_first, Gone
  <2>2. CASE waiting[m] # <<>>
    <3>1. status' = [status EXCEPT ![Head(waiting[m])] = "RUNNABLE"]
      BY <2>2 DEF unlock, wake_first
    <3>2. QED  BY <1>0, <1>1, <3>1 DEF SchedType, Gone
  <2>3. QED  BY <2>1, <2>2
<1>3c. Discipline'
  BY <1>2, <1>3a, <1>3b, SMTT(30) DEF Discipline, Gone, MUTEX_INVALID
<1>4. CASE waiting[m] = <<>>
  <2>1. UNCHANGED <<status, runq, waiting>>
    BY <1>4 DEF unlock, wake_first
  <2>2. TypeOK'
    BY <1>1, <1>2, <2>1 DEF TypeOK, SchedType
  <2>3. OnePlace'
    BY <1>1, <1>2, <2>1 DEF OnePlace
  <2>4. NoLostWakeup'
    BY <1>1, <1>2, <1>4, <2>1 DEF NoLostWakeup
  <2>5. QED  BY <1>3, <1>3c, <2>2, <2>3, <2>4 DEF IInv
<1>5. CASE waiting[m] # <<>>
  <2> DEFINE w == Head(waiting[m])
  <2>1. /\ status' = [status EXCEPT ![w] = "RUNNABLE"]
        /\ runq' = Append(runq, w)
        /\ waiting' = [waiting EXCEPT ![m] = Tail(@)]
    BY <1>5 DEF unlock, wake_first
  <2>2. waiting[m] \in Seq(Thread) /\ NoRepeats(waiting[m]) /\ runq \in Seq(Thread) /\ NoRepeats(runq)
    BY <1>1 DEF TypeOK, SchedType, OnePlace
  <2>3. /\ w \in Thread /\ InQueue(waiting[m], w)
        /\ Tail(waiting[m]) \in Seq(Thread) /\ NoRepeats(Tail(waiting[m]))
        /\ \A u : InQueue(Tail(waiting[m]), u) <=> InQueue(waiting[m], u) /\ u # w
    BY <1>5, <2>2, TailQueue
  <2>4. status[w] = "WAITING" /\ wants[w] = m /\ ~InQueue(runq, w) /\ w # t
    BY <1>1, <1>2, <2>3 DEF OnePlace
  <2>5. /\ runq' \in Seq(Thread) /\ NoRepeats(runq')
        /\ \A u : InQueue(runq', u) <=> InQueue(runq, u) \/ u = w
    BY <2>1, <2>2, <2>3, <2>4, AppendQueue
  <2>6. /\ status' \in [AllThreads -> Status]
        /\ \A u \in Thread : status'[u] = IF u = w THEN "RUNNABLE" ELSE status[u]
    BY <1>0, <1>1, <2>1, <2>3 DEF SchedType, Status
  <2>7. /\ waiting' \in [Mutex -> Seq(Thread)]
        /\ waiting'[m] = Tail(waiting[m])
        /\ \A n \in Mutex : n # m => waiting'[n] = waiting[n]
    BY <1>1, <2>1, <2>3 DEF TypeOK
  <2>8. TypeOK'
    BY <1>1, <1>2, <2>5, <2>6, <2>7 DEF TypeOK, SchedType
  <2>9. OnePlace'
    <3>1. \A n \in Mutex : NoRepeats(waiting'[n])
      BY <1>1, <2>3, <2>7 DEF OnePlace
    <3>2. \A u \in Thread : status'[u] = "RUNNING" <=> curr' = u
      <4>1. \A u \in Thread : status'[u] = "RUNNING" <=> status[u] = "RUNNING"
        BY <2>4, <2>6
      <4>2. QED  BY <1>1, <1>2, <4>1 DEF OnePlace
    <3>3. \A u \in Thread : status'[u] = "RUNNABLE" <=> InQueue(runq', u)
      BY <1>1, <2>5, <2>6 DEF OnePlace
    <3>4. ASSUME NEW u \in Thread, NEW n \in Mutex, InQueue(waiting'[n], u)
          PROVE  status'[u] = "WAITING" /\ wants'[u] = n
      <4>1. InQueue(waiting[n], u) /\ u # w
        <5>1. CASE n = m  BY <2>3, <2>7, <3>4, <5>1
        <5>2. CASE n # m
          <6>1. InQueue(waiting[n], u)  BY <2>7, <3>4, <5>2
          <6>2. wants[u] = n  BY <1>1, <6>1 DEF OnePlace
          <6>3. QED  BY <2>4, <5>2, <6>1, <6>2
        <5>3. QED  BY <5>1, <5>2
      <4>2. QED  BY <1>1, <1>2, <2>6, <4>1 DEF OnePlace
    <3>5. ASSUME NEW u \in Thread, status'[u] = "WAITING"
          PROVE  \E n \in Mutex : InQueue(waiting'[n], u)
      <4>1. u # w /\ status[u] = "WAITING"  BY <2>6, <3>5
      <4>2. PICK n \in Mutex : InQueue(waiting[n], u)  BY <1>1, <4>1 DEF OnePlace
      <4>3. InQueue(waiting'[n], u)  BY <2>3, <2>7, <4>1, <4>2
      <4>4. QED  BY <4>3
    <3>6. QED  BY <2>5, <3>1, <3>2, <3>3, <3>4, <3>5 DEF OnePlace
  <2>10. NoLostWakeup'
    <3> SUFFICES ASSUME NEW n \in Mutex, waiting'[n] # <<>>, value'[n] # 0
                 PROVE  \E u \in Thread : wants'[u] = n /\ status'[u] \in {"RUNNING", "RUNNABLE"}
      BY DEF NoLostWakeup
    <3>1. CASE n = m
      BY <1>2, <2>3, <2>4, <2>6, <3>1
    <3>2. CASE n # m
      <4>0. value[n] # 0 /\ waiting[n] # <<>>
        BY <1>2, <2>7, <3>2
      <4>1. PICK u \in Thread : wants[u] = n /\ status[u] \in {"RUNNING", "RUNNABLE"}
        BY <1>1, <4>0 DEF NoLostWakeup
      <4>2. wants'[u] = n  BY <1>2, <4>1
      <4>3. status'[u] \in {"RUNNING", "RUNNABLE"}  BY <2>6, <4>1
      <4>4. QED  BY <4>2, <4>3
    <3>3. QED  BY <3>1, <3>2
  <2>11. QED  BY <1>3, <1>3c, <2>8, <2>9, <2>10 DEF IInv
<1>6. QED  BY <1>4, <1>5

(* A step that leaves every mutex alone and only moves the running thread  *)
(* preserves the invariant when the places of the threads stay consistent. *)
LEMMA PlacesStep ==
    ASSUME IInv, UNCHANGED mutexVars, SchedType',
           NoRepeats(runq'),
           \A u \in Thread : status'[u] = "RUNNING" <=> curr' = u,
           \A u \in Thread : status'[u] = "RUNNABLE" <=> InQueue(runq', u),
           \A u \in Thread : status[u] = "WAITING" <=> status'[u] = "WAITING",
           \A u \in Thread : /\ status[u] \in {"RUNNING", "RUNNABLE"}
                              /\ wants[u] # NoMutex
                              => status'[u] \in {"RUNNING", "RUNNABLE"},
           \A u \in Thread : Gone(status'[u]) => held[u] = {} /\ wants[u] = NoMutex
    PROVE  IInv'
<1>0. NoMutex \notin Mutex
  BY DEF NoMutex, Mutex
<1>1. TypeOK /\ MutualExclusion /\ OnePlace /\ NoLostWakeup
  BY DEF IInv
<1>2. UNCHANGED <<value, waiting, held, wants, flag>>
  BY DEF mutexVars
<1>3. TypeOK'
  BY <1>1, <1>2 DEF TypeOK
<1>4. MutualExclusion'
  BY <1>1, <1>2 DEF MutualExclusion
<1>5. OnePlace'
  BY <1>1, <1>2 DEF OnePlace
<1>6. NoLostWakeup'
  <2> SUFFICES ASSUME NEW n \in Mutex, waiting'[n] # <<>>, value'[n] # 0
               PROVE  \E u \in Thread : wants'[u] = n /\ status'[u] \in {"RUNNING", "RUNNABLE"}
    BY DEF NoLostWakeup
  <2>1. PICK u \in Thread : wants[u] = n /\ status[u] \in {"RUNNING", "RUNNABLE"}
    BY <1>1, <1>2 DEF NoLostWakeup
  <2>2. wants'[u] = n /\ status'[u] \in {"RUNNING", "RUNNABLE"}
    BY <1>0, <1>2, <2>1
  <2>3. QED  BY <2>2
<1>7. Discipline'
  BY <1>2 DEF IInv, Discipline, Gone
<1>8. QED  BY <1>3, <1>4, <1>5, <1>6, <1>7 DEF IInv

(* Preemption by the timer.                                                *)
LEMMA TickStep == IInv /\ Tick => IInv'
<1> SUFFICES ASSUME IInv, Tick  PROVE IInv'
  OBVIOUS
<1>1. SchedType /\ OnePlace
  BY DEF IInv, TypeOK
<1>2. context_switch(curr, NoThread, status, runq) /\ UNCHANGED mutexVars
  BY DEF Tick, tickback
<1>3. /\ SchedType'
      /\ NoRepeats(runq')
      /\ \A u \in Thread : status'[u] = "RUNNING" <=> curr' = u
      /\ \A u \in Thread : status'[u] = "RUNNABLE" <=> InQueue(runq', u)
      /\ \A u \in Thread : status[u] \in {"RUNNING", "RUNNABLE"}
                                => status'[u] \in {"RUNNING", "RUNNABLE"}
      /\ \A u \in Thread : status[u] \notin {"RUNNING", "RUNNABLE"}
                                => status'[u] = status[u]
  <2>1. /\ curr \in AllThreads \cup {NoThread}
        /\ status \in [AllThreads -> Status]
        /\ runq \in Seq(Thread)
        /\ NoRepeats(runq)
        /\ \A u \in Thread : status[u] = "RUNNABLE" <=> InQueue(runq, u)
        /\ \A u \in Thread : status[u] = "RUNNING" => u = curr
    BY <1>1 DEF SchedType, OnePlace
  <2>2. QED  BY <1>2, <2>1, ContextSwitchPlaces
<1>4. \A u \in Thread : status[u] = "WAITING" <=> status'[u] = "WAITING"
  BY <1>3
<1>5. \A u \in Thread : Gone(status'[u]) => held[u] = {} /\ wants[u] = NoMutex
  BY <1>3 DEF IInv, Discipline, Gone
<1>6. QED  BY <1>2, <1>3, <1>4, <1>5, PlacesStep

(* The last step of vanish takes the running thread away.                  *)
LEMMA VanishStep == ASSUME IInv, NEW t \in Thread, vanish(t)  PROVE IInv'
<1> DEFINE st == [status EXCEPT ![t] = "NONE"]
<1>0. Thread \subseteq AllThreads
  BY DEF AllThreads
<1>1. SchedType /\ OnePlace
  BY DEF IInv, TypeOK
<1>2. /\ context_switch(NoThread, NoThread, st, runq) /\ UNCHANGED mutexVars
      /\ curr = t /\ wants[t] = NoMutex /\ status[t] = "RUNNING"
  BY <1>1 DEF vanish, Runs, OnePlace
<1>3. st \in [AllThreads -> Status] /\ \A u \in Thread : st[u] = IF u = t THEN "NONE" ELSE status[u]
  BY <1>0, <1>1 DEF SchedType, Status
<1>4. /\ SchedType'
      /\ NoRepeats(runq')
      /\ \A u \in Thread : status'[u] = "RUNNING" <=> curr' = u
      /\ \A u \in Thread : status'[u] = "RUNNABLE" <=> InQueue(runq', u)
      /\ \A u \in Thread : st[u] \in {"RUNNING", "RUNNABLE"}
                                => status'[u] \in {"RUNNING", "RUNNABLE"}
      /\ \A u \in Thread : st[u] \notin {"RUNNING", "RUNNABLE"}
                                => status'[u] = st[u]
  <2>1. /\ runq \in Seq(Thread)
        /\ NoRepeats(runq)
        /\ \A u \in Thread : st[u] = "RUNNABLE" <=> InQueue(runq, u)
        /\ \A u \in Thread : st[u] = "RUNNING" => u = NoThread
    BY <1>1, <1>2, <1>3 DEF SchedType, OnePlace
  <2>2. QED  BY <1>2, <1>3, <2>1, ContextSwitchPlaces, ZenonT(60)
<1>5. \A u \in Thread : status[u] = "WAITING" <=> status'[u] = "WAITING"
  <2>1. \A u \in Thread : status[u] = "WAITING" <=> st[u] = "WAITING"
    BY <1>2, <1>3
  <2>2. \A u \in Thread : st[u] = "WAITING" <=> status'[u] = "WAITING"
    BY <1>4
  <2>3. QED  BY <2>1, <2>2
<1>6. \A u \in Thread : /\ status[u] \in {"RUNNING", "RUNNABLE"} /\ wants[u] # NoMutex
                         => status'[u] \in {"RUNNING", "RUNNABLE"}
  BY <1>2, <1>3, <1>4
<1>7. \A u \in Thread : Gone(status'[u]) => held[u] = {} /\ wants[u] = NoMutex
  <2>1. held[t] = {}
    BY DEF vanish
  <2>2. \A u \in Thread : Gone(status[u]) => held[u] = {} /\ wants[u] = NoMutex
    BY DEF IInv, Discipline
  <2>3. \A u \in Thread : Gone(status'[u]) => u = t \/ Gone(status[u])
    BY <1>3, <1>4 DEF Gone
  <2>4. QED  BY <1>2, <2>1, <2>2, <2>3
<1>8. QED  BY <1>2, <1>4, <1>5, <1>6, <1>7, PlacesStep

(* A new thread goes on the run queue (runq_add_thread).                   *)
LEMMA StartStep ==
    ASSUME IInv, NEW t \in Thread, NEW u \in Thread, start_thread(t, u)
    PROVE  IInv'
<1>0. Thread \subseteq AllThreads
  BY DEF AllThreads
<1>1. SchedType /\ OnePlace
  BY DEF IInv, TypeOK
<1>2. /\ status' = [status EXCEPT ![u] = "RUNNABLE"] /\ status[u] = "NONE"
      /\ runq' = Append(runq, u) /\ intr' = TRUE /\ curr' = curr
      /\ UNCHANGED mutexVars
  BY DEF start_thread, runq_add_thread
<1>3. /\ runq' \in Seq(Thread) /\ NoRepeats(runq')
      /\ \A v : InQueue(runq', v) <=> InQueue(runq, v) \/ v = u
  <2>1. runq \in Seq(Thread) /\ NoRepeats(runq) /\ ~InQueue(runq, u)
    BY <1>1, <1>2 DEF SchedType, OnePlace
  <2>2. QED  BY <1>2, <2>1, AppendQueue
<1>4. /\ status' \in [AllThreads -> Status]
      /\ \A v \in Thread : status'[v] = IF v = u THEN "RUNNABLE" ELSE status[v]
  BY <1>0, <1>1, <1>2 DEF SchedType, Status
<1>5. SchedType'
  BY <1>1, <1>2, <1>3, <1>4 DEF SchedType
<1>6. \A v \in Thread : status'[v] = "RUNNING" <=> curr' = v
  BY <1>1, <1>2, <1>4, SMTT(30) DEF OnePlace
<1>7. \A v \in Thread : status'[v] = "RUNNABLE" <=> InQueue(runq', v)
  BY <1>1, <1>3, <1>4 DEF OnePlace
<1>8. \A v \in Thread : status[v] = "WAITING" <=> status'[v] = "WAITING"
  BY <1>2, <1>4
<1>9. \A v \in Thread : /\ status[v] \in {"RUNNING", "RUNNABLE"} /\ wants[v] # NoMutex
                         => status'[v] \in {"RUNNING", "RUNNABLE"}
  BY <1>4
<1>10. \A v \in Thread : Gone(status'[v]) => held[v] = {} /\ wants[v] = NoMutex
  BY <1>4 DEF IInv, Discipline, Gone
<1>11. QED  BY <1>2, <1>3, <1>5, <1>6, <1>7, <1>8, <1>9, <1>10, PlacesStep

(* Destroying an unused mutex.                                             *)
LEMMA DestroyStep ==
    ASSUME IInv, NEW t \in Thread, NEW m \in Mutex, mutex_destroy(t, m)
    PROVE  IInv'
<1>1. TypeOK /\ MutualExclusion /\ OnePlace /\ NoLostWakeup
  BY DEF IInv
<1>2. /\ UNCHANGED <<curr, status, runq, intr, waiting, held, wants, flag>>
      /\ value' \in [Mutex -> {MUTEX_INVALID, 0, 1}]
      /\ \A n \in Mutex : value'[n] = IF n = m THEN MUTEX_INVALID ELSE value[n]
      /\ value[m] = 1
      /\ \A u \in Thread : m \notin held[u] /\ wants[u] # m
  <2>1. /\ UNCHANGED <<curr, status, runq, intr, waiting, held, wants, flag>>
        /\ value' = [value EXCEPT ![m] = MUTEX_INVALID] /\ value[m] = 1
        /\ \A u \in Thread : m \notin held[u] /\ wants[u] # m
    BY DEF mutex_destroy, schedVars
  <2>2. value \in [Mutex -> {MUTEX_INVALID, 0, 1}]
    BY SMTT(30), <1>1 DEF TypeOK
  <2>3. QED  BY <2>1, <2>2
<1>3. waiting[m] = <<>>
  <2>1. SUFFICES ASSUME waiting[m] # <<>>  PROVE FALSE
    OBVIOUS
  <2>2. Head(waiting[m]) \in Thread /\ InQueue(waiting[m], Head(waiting[m]))
    BY <1>1, <2>1, TailQueue DEF TypeOK
  <2>3. wants[Head(waiting[m])] = m
    BY <1>1, <2>2 DEF OnePlace
  <2>4. QED  BY <1>2, <2>2, <2>3
<1>4. TypeOK'
  BY SMTT(30), <1>1, <1>2 DEF TypeOK, SchedType
<1>5. MutualExclusion'
  <2>1. MUTEX_INVALID # 0  BY DEF MUTEX_INVALID
  <2>2. \A n \in Mutex : value'[n] = 0 <=> value[n] = 0
    BY <1>2, <2>1
  <2>3. QED  BY <1>1, <1>2, <2>2 DEF MutualExclusion
<1>6. OnePlace'
  BY <1>1, <1>2 DEF OnePlace
<1>7. NoLostWakeup'
  <2>1. SUFFICES ASSUME NEW n \in Mutex, waiting[n] # <<>>
                 PROVE  \/ value'[n] = 0
                        \/ \E u \in Thread : wants[u] = n /\ status[u] \in {"RUNNING", "RUNNABLE"}
    BY <1>2 DEF NoLostWakeup
  <2>2. value'[n] = value[n]
    BY <1>2, <1>3, <2>1
  <2>3. QED  BY SMTT(30), <1>1, <2>1, <2>2 DEF NoLostWakeup
<1>8. Discipline'
  BY <1>2 DEF IInv, Discipline, Gone
<1>9. QED  BY <1>4, <1>5, <1>6, <1>7, <1>8 DEF IInv

(* Initialising a mutex nobody uses.                                       *)
LEMMA InitMutexStep ==
    ASSUME IInv, NEW t \in Thread, NEW m \in Mutex, mutex_init(t, m)
    PROVE  IInv'
<1>1. TypeOK /\ MutualExclusion /\ OnePlace /\ NoLostWakeup
  BY DEF IInv
<1>2. /\ UNCHANGED <<curr, status, runq, intr, held, wants, flag>>
      /\ value' \in [Mutex -> {MUTEX_INVALID, 0, 1}]
      /\ \A n \in Mutex : value'[n] = IF n = m THEN 1 ELSE value[n]
      /\ waiting' \in [Mutex -> Seq(Thread)]
      /\ \A n \in Mutex : waiting'[n] = IF n = m THEN <<>> ELSE waiting[n]
      /\ value[m] = MUTEX_INVALID
  BY <1>1 DEF TypeOK, mutex_init, schedVars
<1>3. waiting[m] = <<>>
  <2>1. SUFFICES ASSUME waiting[m] # <<>>  PROVE FALSE
    OBVIOUS
  <2>2. Head(waiting[m]) \in Thread /\ InQueue(waiting[m], Head(waiting[m]))
    BY <1>1, <2>1, TailQueue DEF TypeOK
  <2>3. wants[Head(waiting[m])] = m
    BY <1>1, <2>2 DEF OnePlace
  <2>4. \A u \in Thread : wants[u] # m
    BY <1>2 DEF IInv, Discipline
  <2>5. QED  BY <2>2, <2>3, <2>4
<1>4. waiting' = waiting
  BY <1>1, <1>2, <1>3 DEF TypeOK
<1>5. TypeOK'
  BY <1>1, <1>2 DEF TypeOK, SchedType
<1>6. MutualExclusion'
  <2>1. MUTEX_INVALID # 0 /\ 1 # 0  BY DEF MUTEX_INVALID
  <2>2. \A n \in Mutex : value'[n] = 0 <=> value[n] = 0
    BY SMTT(30), <1>2, <2>1
  <2>3. QED  BY <1>1, <1>2, <2>2 DEF MutualExclusion
<1>7. OnePlace'
  BY SMTT(30), <1>1, <1>2, <1>4 DEF OnePlace
<1>8. NoLostWakeup'
  <2>1. SUFFICES ASSUME NEW n \in Mutex, waiting[n] # <<>>
                 PROVE  \/ value'[n] = 0
                        \/ \E u \in Thread : wants[u] = n /\ status[u] \in {"RUNNING", "RUNNABLE"}
    BY SMTT(30), <1>2, <1>4 DEF NoLostWakeup
  <2>2. value'[n] = value[n]
    BY <1>2, <1>3, <2>1
  <2>3. QED  BY <1>1, <2>1, <2>2 DEF NoLostWakeup
<1>9. Discipline'
  BY <1>2 DEF IInv, Discipline, Gone, MUTEX_INVALID
<1>10. QED  BY <1>5, <1>6, <1>7, <1>8, <1>9 DEF IInv

(* Every step of the kernel preserves the invariant.                       *)
LEMMA NextIInv == IInv /\ [Next]_vars => IInv'
<1> SUFFICES ASSUME IInv, [Next]_vars  PROVE IInv'
  OBVIOUS
<1>0. /\ intr \in BOOLEAN /\ flag \in [Thread -> BOOLEAN] /\ TRUE \in BOOLEAN
      /\ wants \in [Thread -> Mutex \cup {NoMutex}]
  BY DEF IInv, TypeOK, SchedType
<1>1. CASE Tick
  BY <1>1, TickStep
<1>2. ASSUME NEW t \in Thread, NEW m \in Mutex, mutex_lock(t, m) \/ mutex_lock_int_save(t, m)
      PROVE IInv'
  BY ZenonT(30), <1>0, <1>2, BlockStep, TakeStep DEF mutex_lock, mutex_lock_int_save, MayLock, Runs
<1>3. ASSUME NEW t \in Thread, NEW m \in Mutex, mutex_unlock(t, m) \/ mutex_unlock_int_save(t, m)
      PROVE IInv'
  BY <1>0, <1>3, UnlockStep DEF mutex_unlock, mutex_unlock_int_save
<1>4. ASSUME NEW t \in Thread, NEW m \in Mutex, mutex_destroy(t, m) \/ mutex_init(t, m)
      PROVE IInv'
  BY <1>4, DestroyStep, InitMutexStep
<1>5. ASSUME NEW t \in Thread, retry(t)  PROVE IInv'
  <2>1. wants[t] \in Mutex /\ flag[t] \in BOOLEAN /\ curr = t
    BY <1>0, <1>5 DEF retry, NoMutex
  <2>2. \A h \in held[t] : h < wants[t]
    BY <1>5 DEF retry, IInv, Discipline, Gone
  <2>3. QED  BY <1>5, <2>1, <2>2, BlockStep, TakeStep DEF retry
<1>6. ASSUME NEW t \in Thread, disable_interrupts(t) \/ enable_interrupts(t)  PROVE IInv'
  <2>1. intr' \in BOOLEAN /\ UNCHANGED <<curr, status, runq, mutexVars>>
    BY ZenonT(30), <1>6 DEF disable_interrupts, enable_interrupts
  <2>2. QED  BY ZenonT(30), <2>1, PlacesStep DEF IInv, TypeOK, SchedType, OnePlace, Discipline, Gone
<1>7. ASSUME NEW t \in Thread, NEW u \in Thread, start_thread(t, u)  PROVE IInv'
  BY <1>7, StartStep
<1>8. ASSUME NEW t \in Thread, vanish(t)  PROVE IInv'
  BY <1>8, VanishStep
<1>9. CASE UNCHANGED vars
  BY <1>9 DEF IInv, TypeOK, SchedType, MutualExclusion, OnePlace, NoLostWakeup,
              Discipline, vars, schedVars, mutexVars
<1>10. QED  BY <1>1, <1>2, <1>3, <1>4, <1>5, <1>6, <1>7, <1>8, <1>9 DEF Next, Step

(* Type correctness of the scheduler and mutex state.                      *)
THEOREM TypeCorrect == Spec => []TypeOK
<1>1. IInv => TypeOK  BY DEF IInv
<1>2. QED  BY <1>1, InitIInv, NextIInv, PTL DEF Spec

(* mutex_lock and mutex_unlock give mutual exclusion, for any number of    *)
(* threads and mutexes and any preemption.                                 *)
THEOREM MutexExcludes == Spec => []MutualExclusion
<1>1. IInv => MutualExclusion  BY DEF IInv
<1>2. QED  BY <1>1, InitIInv, NextIInv, PTL DEF Spec

(* context_switch, mutex_lock and mutex_unlock never lose a thread and     *)
(* never queue one twice.                                                  *)
THEOREM ThreadsInOnePlace == Spec => []OnePlace
<1>1. IInv => OnePlace  BY DEF IInv
<1>2. QED  BY <1>1, InitIInv, NextIInv, PTL DEF Spec

(* mutex_unlock never leaves a free mutex with sleepers and nobody on the  *)
(* way to lock it.                                                         *)
THEOREM WakeupsAreKept == Spec => []NoLostWakeup
<1>1. IInv => NoLostWakeup  BY DEF IInv
<1>2. QED  BY <1>1, InitIInv, NextIInv, PTL DEF Spec
=============================================================================
