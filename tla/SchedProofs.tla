---------------------------- MODULE SchedProofs -----------------------------
(***************************************************************************)
(* What the queues and the context switch of the scheduler do, for any set *)
(* of threads.                                                             *)
(***************************************************************************)
EXTENDS Sched, TLAPS

(* Appending a thread to a queue (add_to_tail) adds it and nothing else.   *)
LEMMA AppendQueue ==
    ASSUME NEW S, NEW q \in Seq(S), NEW x \in S
    PROVE  /\ Append(q, x) \in Seq(S)
           /\ Append(q, x) # <<>>
           /\ \A t : InQueue(Append(q, x), t) <=> InQueue(q, t) \/ t = x
           /\ NoRepeats(q) /\ ~InQueue(q, x) => NoRepeats(Append(q, x))
<1>1. Append(q, x) \in Seq(S) /\ Len(Append(q, x)) = Len(q) + 1 /\ Len(q) \in Nat
  OBVIOUS
<1>2. /\ \A i \in 1..Len(q) : Append(q, x)[i] = q[i]
      /\ Append(q, x)[Len(q) + 1] = x
  OBVIOUS
<1>3. \A t : InQueue(Append(q, x), t) <=> InQueue(q, t) \/ t = x
  <2>1. ASSUME NEW t, InQueue(Append(q, x), t)  PROVE InQueue(q, t) \/ t = x
    BY <1>1, <1>2, <2>1 DEF InQueue
  <2>2. ASSUME NEW t, InQueue(q, t)  PROVE InQueue(Append(q, x), t)
    BY <1>1, <1>2, <2>2 DEF InQueue
  <2>3. InQueue(Append(q, x), x)
    BY <1>1, <1>2 DEF InQueue
  <2>4. QED  BY <2>1, <2>2, <2>3
<1>4. ASSUME NoRepeats(q), ~InQueue(q, x)  PROVE NoRepeats(Append(q, x))
  BY <1>1, <1>2, <1>4 DEF NoRepeats, InQueue
<1>5. QED  BY <1>1, <1>3, <1>4

(* Taking the head off a queue (get_first, del_entry) removes that thread  *)
(* and nothing else.                                                       *)
LEMMA TailQueue ==
    ASSUME NEW S, NEW q \in Seq(S), q # <<>>
    PROVE  /\ Head(q) \in S
           /\ Tail(q) \in Seq(S)
           /\ InQueue(q, Head(q))
           /\ NoRepeats(q) => NoRepeats(Tail(q))
           /\ NoRepeats(q) => \A t : InQueue(Tail(q), t) <=> InQueue(q, t) /\ t # Head(q)
<1>1. /\ Len(q) \in Nat \ {0}
      /\ Tail(q) \in Seq(S)
      /\ Len(Tail(q)) = Len(q) - 1
      /\ Head(q) = q[1]
      /\ Head(q) \in S
  OBVIOUS
<1>2. \A i \in 1..Len(Tail(q)) : Tail(q)[i] = q[i + 1]
  BY <1>1
<1>3. InQueue(q, Head(q))
  BY <1>1 DEF InQueue
<1>4. NoRepeats(q) => NoRepeats(Tail(q))
  BY <1>1, <1>2 DEF NoRepeats
<1>5. ASSUME NoRepeats(q), NEW t
      PROVE InQueue(Tail(q), t) <=> InQueue(q, t) /\ t # Head(q)
  <2>1. ASSUME InQueue(Tail(q), t)  PROVE InQueue(q, t) /\ t # Head(q)
    <3>1. PICK i \in 1..Len(Tail(q)) : Tail(q)[i] = t  BY <2>1 DEF InQueue
    <3>2. i + 1 \in 1..Len(q) /\ q[i + 1] = t /\ 1 \in 1..Len(q) /\ i + 1 # 1
      BY <1>1, <1>2, <3>1
    <3>3. QED  BY <1>1, <1>5, <3>2 DEF InQueue, NoRepeats
  <2>2. ASSUME InQueue(q, t), t # Head(q)  PROVE InQueue(Tail(q), t)
    <3>1. PICK i \in 1..Len(q) : q[i] = t  BY <2>2 DEF InQueue
    <3>2. i - 1 \in 1..Len(Tail(q)) /\ Tail(q)[i - 1] = t
      BY <1>1, <1>2, <2>2, <3>1
    <3>3. QED  BY <3>2 DEF InQueue
  <2>3. QED  BY <2>1, <2>2
<1>6. QED  BY <1>1, <1>3, <1>4, <1>5

(* An empty queue holds no thread, and only an empty queue does.           *)
LEMMA EmptyQueue ==
    /\ NoRepeats(<<>>)
    /\ \A t : ~InQueue(<<>>, t)
BY DEF NoRepeats, InQueue

(* What context_switch does to the places of the threads, whoever calls    *)
(* it: afterwards the running thread is the one marked RUNNING, the run    *)
(* queue holds the RUNNABLE threads, and no thread that was neither is     *)
(* touched.                                                                *)
LEMMA ContextSwitchPlaces ==
    ASSUME NEW c \in AllThreads \cup {NoThread},
           NEW st \in [AllThreads -> Status],
           NEW rq \in Seq(Thread),
           NoRepeats(rq),
           \A u \in Thread : st[u] = "RUNNABLE" <=> InQueue(rq, u),
           \A u \in Thread : st[u] = "RUNNING" => u = c,
           context_switch(c, NoThread, st, rq)
    PROVE  /\ SchedType'
           /\ NoRepeats(runq')
           /\ \A u \in Thread : status'[u] = "RUNNING" <=> curr' = u
           /\ \A u \in Thread : status'[u] = "RUNNABLE" <=> InQueue(runq', u)
           /\ \A u \in Thread : st[u] \in {"RUNNING", "RUNNABLE"}
                                    => status'[u] \in {"RUNNING", "RUNNABLE"}
           /\ \A u \in Thread : st[u] \notin {"RUNNING", "RUNNABLE"}
                                    => status'[u] = st[u]
<1> DEFINE busy   == c \in Thread /\ st[c] = "RUNNING"
           next   == next_thread(NoThread, rq)
           target == switch_target(next)
           rest   == runq_rest(NoThread, rq)
<1>0. Idle \notin Thread /\ NoThread \notin AllThreads
  BY SchedAssumption DEF AllThreads
<1>1. CASE rq = <<>>
  <2>1. next = NoThread /\ target = Idle /\ rest = rq
    BY <1>1 DEF next_thread, runq_rest, switch_target
  <2>2. CASE c = Idle \/ busy
    <3>1. curr' = c /\ status' = st /\ runq' = rq /\ intr' = TRUE
      BY <2>1, <2>2 DEF context_switch, switch_target
    <3>2. \A u \in Thread : st[u] # "RUNNABLE"
      BY <1>1, EmptyQueue
    <3>3. QED  BY <1>0, <2>2, <3>1, <3>2 DEF SchedType, AllThreads
  <2>3. CASE ~(c = Idle \/ busy)
    <3>1. /\ curr' = Idle /\ runq' = rq /\ intr' = TRUE
          /\ status' = [t \in AllThreads |-> IF t = Idle THEN "RUNNING" ELSE st[t]]
      BY <2>1, <2>3 DEF context_switch, switch_target
    <3>2. \A u \in Thread : st[u] # "RUNNING"
      BY <2>3
    <3>3. \A u \in Thread : status'[u] = st[u]
      BY <1>0, <3>1 DEF AllThreads
    <3>4. status' \in [AllThreads -> Status]
      BY <3>1 DEF Status
    <3>5. QED  BY <1>0, <3>1, <3>2, <3>3, <3>4 DEF SchedType, AllThreads
  <2>4. QED  BY <2>2, <2>3
<1>2. CASE rq # <<>>
  <2>1. /\ next = Head(rq) /\ target = Head(rq) /\ rest = Tail(rq)
        /\ Head(rq) \in Thread /\ Head(rq) # NoThread
    BY <1>0, <1>2, TailQueue DEF next_thread, runq_rest, switch_target, AllThreads
  <2>2. /\ curr' = Head(rq)
        /\ intr' = TRUE
        /\ status' = [t \in AllThreads |->
                         IF t = Head(rq) THEN "RUNNING"
                         ELSE IF t = c /\ busy THEN "RUNNABLE" ELSE st[t]]
        /\ runq' = IF busy THEN Append(Tail(rq), c) ELSE Tail(rq)
    BY <2>1 DEF context_switch, switch_target
  <2>3. /\ Tail(rq) \in Seq(Thread) /\ NoRepeats(Tail(rq))
        /\ \A u : InQueue(Tail(rq), u) <=> InQueue(rq, u) /\ u # Head(rq)
        /\ InQueue(rq, Head(rq))
    BY <1>2, TailQueue
  <2>4. st[Head(rq)] = "RUNNABLE"
    BY <2>1, <2>3
  <2>5. busy => c # Head(rq) /\ ~InQueue(Tail(rq), c)
    BY <2>3, <2>4
  <2>6. /\ runq' \in Seq(Thread) /\ NoRepeats(runq')
        /\ \A u : InQueue(runq', u) <=> InQueue(Tail(rq), u) \/ (busy /\ u = c)
    <3>1. CASE busy
      <4>1. runq' = Append(Tail(rq), c) /\ c \in Thread  BY <2>2, <3>1
      <4>2. /\ Append(Tail(rq), c) \in Seq(Thread)
            /\ \A u : InQueue(Append(Tail(rq), c), u) <=> InQueue(Tail(rq), u) \/ u = c
            /\ NoRepeats(Append(Tail(rq), c))
        <5>1. Tail(rq) \in Seq(Thread) /\ c \in Thread /\ NoRepeats(Tail(rq)) /\ ~InQueue(Tail(rq), c)
          BY <2>3, <2>5, <3>1, <4>1
        <5>2. QED  BY ONLY <5>1, AppendQueue
      <4>3. QED  BY <3>1, <4>1, <4>2
    <3>2. CASE ~busy  BY <2>2, <2>3, <3>2
    <3>3. QED  BY <3>1, <3>2
  <2>7. \A u \in Thread : status'[u] = IF u = Head(rq) THEN "RUNNING"
                                       ELSE IF u = c /\ busy THEN "RUNNABLE" ELSE st[u]
    BY <2>2 DEF AllThreads
  <2>8. status' \in [AllThreads -> Status]
    BY <2>2 DEF Status
  <2>9. \A u \in Thread : st[u] = "RUNNING" => u = c /\ busy
    OBVIOUS
  <2>10. \A u \in Thread : status'[u] = "RUNNING" <=> curr' = u
    BY <2>2, <2>7, <2>9
  <2>11. \A u \in Thread : status'[u] = "RUNNABLE" <=> InQueue(runq', u)
    BY <2>3, <2>5, <2>6, <2>7
  <2>12. SchedType'
    BY <2>1, <2>2, <2>6, <2>8 DEF SchedType, AllThreads
  <2>13. /\ \A u \in Thread : st[u] \in {"RUNNING", "RUNNABLE"}
                                    => status'[u] \in {"RUNNING", "RUNNABLE"}
         /\ \A u \in Thread : st[u] \notin {"RUNNING", "RUNNABLE"}
                                    => status'[u] = st[u]
    BY <2>4, <2>7, <2>9
  <2>14. QED  BY <2>6, <2>10, <2>11, <2>12, <2>13
<1>3. QED  BY <1>1, <1>2
=============================================================================
