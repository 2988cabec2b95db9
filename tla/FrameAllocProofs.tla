-------------------------- MODULE FrameAllocProofs --------------------------
(***************************************************************************)
(* Proofs about the frame allocator, for any number of frames and threads. *)
(***************************************************************************)
EXTENDS FrameAlloc, TLAPS

(* The stack with a frame pushed (free_list_head = frame_addr).            *)
LEMMA PushedStack ==
    ASSUME NEW S, NEW s \in Seq(S), NEW x \in S
    PROVE  /\ <<x>> \o s \in Seq(S)
           /\ Len(<<x>> \o s) = Len(s) + 1
           /\ (<<x>> \o s)[1] = x
           /\ \A i \in 2..(Len(s) + 1) : (<<x>> \o s)[i] = s[i - 1]
OBVIOUS

(* The stack with its top popped.                                          *)
LEMMA PoppedStack ==
    ASSUME NEW S, NEW s \in Seq(S), s # <<>>
    PROVE  /\ Tail(s) \in Seq(S)
           /\ Len(s) \in Nat \ {0}
           /\ Len(Tail(s)) = Len(s) - 1
           /\ \A i \in 1..(Len(s) - 1) : Tail(s)[i] = s[i + 1]
OBVIOUS

(* list_mut protects the list: its holder is the one thread inside the     *)
(* critical section, and finds there what it last read or wrote.           *)
Protected ==
    /\ \A t \in Thread : pc[t] \in Critical <=> list_mut = t
    /\ \A t \in Thread : pc[t] = "pop" => stack # <<>> /\ frame_addr[t] = stack[1]
    /\ \A t \in Thread : pc[t] = "push" => free_frames_arr[frame_addr[t]] = free_list_head

IInv == TypeOK /\ ListSpellsStack /\ FrameInOnePlace /\ Protected

(* The list that init_free_list builds holds every frame.                  *)
LEMMA InitIInv == Init => IInv
<1> SUFFICES ASSUME Init  PROVE IInv
  OBVIOUS
<1>0. NFrames \in Nat /\ NFrames > 0 /\ NoThread \notin Thread
  BY FrameAssumption
<1>1. stack \in Seq(Frame) /\ Len(stack) = NFrames /\ \A i \in 1..NFrames : stack[i] = i - 1
  BY <1>0 DEF Init, Frame
<1>2. stack # <<>>
  BY <1>0, <1>1
<1>3. TypeOK
  BY <1>0, <1>1 DEF Init, TypeOK, Link, Pc, Frame, FREE_FRAME_LIST_END
<1>4. ListSpellsStack
  <2>1. free_list_head = stack[1]
    BY <1>0, <1>1 DEF Init
  <2>2. ASSUME NEW i \in 1..NFrames
        PROVE  free_frames_arr[stack[i]] = IF i = NFrames THEN FREE_FRAME_LIST_END ELSE stack[i + 1]
    BY <1>0, <1>1 DEF Init, Frame
  <2>3. QED  BY <1>1, <1>2, <2>1, <2>2 DEF ListSpellsStack
<1>5. FrameInOnePlace
  <2>1. \A i, j \in 1..Len(stack) : stack[i] = stack[j] => i = j
    BY <1>0, <1>1
  <2>2. \A t \in Thread : ~Carrying(pc[t])
    BY DEF Init, Carrying
  <2>3. ASSUME NEW f \in Frame  PROVE \E i \in 1..Len(stack) : stack[i] = f
    <3>1. f + 1 \in 1..NFrames /\ f + 1 - 1 = f
      BY <1>0 DEF Frame
    <3>2. stack[f + 1] = (f + 1) - 1
      BY <1>1, <3>1
    <3>3. stack[f + 1] = f
      BY <1>0, <3>2 DEF Frame
    <3>4. QED  BY <1>1, <3>1, <3>3
  <2>4. used = {}
    BY DEF Init
  <2>5. QED  BY <2>1, <2>2, <2>3, <2>4 DEF FrameInOnePlace
<1>6. Protected
  BY <1>0 DEF Init, Protected, Critical
<1>7. QED  BY <1>3, <1>4, <1>5, <1>6 DEF IInv

(* A step that moves one thread and takes or releases list_mut, but leaves *)
(* the list, the frames and who carries them as they are.                  *)
LEMMA QuietStep ==
    ASSUME IInv, NEW t \in Thread, NEW to \in Pc,
           pc' = [pc EXCEPT ![t] = to],
           UNCHANGED <<free_list_head, free_frames_arr, frame_addr, used, stack>>,
           list_mut' \in Thread \cup {NoThread},
           to \notin {"pop", "push"},
           Carrying(pc[t]) <=> to \in {"alloc_unlock", "dealloc", "link", "push"},
           \A u \in Thread : (IF u = t THEN to ELSE pc[u]) \in Critical <=> list_mut' = u
    PROVE  IInv'
<1>0. TypeOK /\ ListSpellsStack /\ FrameInOnePlace /\ Protected
  BY DEF IInv
<1>1. pc' \in [Thread -> Pc] /\ \A u \in Thread : pc'[u] = IF u = t THEN to ELSE pc[u]
  BY <1>0 DEF TypeOK
<1>2. \A u \in Thread : Carrying(pc'[u]) <=> Carrying(pc[u])
  BY <1>1 DEF Carrying
<1>3. TypeOK'
  BY <1>0, <1>1 DEF TypeOK
<1>4. ListSpellsStack'
  BY <1>0 DEF ListSpellsStack
<1>5. FrameInOnePlace'
  BY <1>0, <1>2 DEF FrameInOnePlace
<1>6. Protected'
  BY <1>0, <1>1 DEF Protected
<1>7. QED  BY <1>3, <1>4, <1>5, <1>6 DEF IInv

(* allocate_frame reads the top of the stack.                              *)
LEMMA ReadHeadStep == ASSUME IInv, NEW t \in Thread, alloc_reads_head(t)  PROVE IInv'
<1>0. TypeOK /\ ListSpellsStack /\ FrameInOnePlace /\ Protected
  BY DEF IInv
<1>1. /\ UNCHANGED <<free_list_head, free_frames_arr, list_mut, used, stack>>
      /\ pc[t] = "test"
      /\ pc' \in [Thread -> Pc]
      /\ \A u \in Thread : pc'[u] = IF u = t THEN "pop" ELSE pc[u]
      /\ free_list_head # FREE_FRAME_LIST_END
  BY <1>0 DEF TypeOK, alloc_reads_head, Goto, Pc
<1>2. stack # <<>> /\ free_list_head = stack[1] /\ free_list_head \in Frame
  BY <1>0, <1>1 DEF ListSpellsStack, TypeOK, Link
<1>3. /\ frame_addr' \in [Thread -> Frame]
      /\ \A u \in Thread : frame_addr'[u] = IF u = t THEN free_list_head ELSE frame_addr[u]
  BY <1>0, <1>2 DEF TypeOK, alloc_reads_head
<1>4. \A u \in Thread : (Carrying(pc'[u]) <=> Carrying(pc[u])) /\ (Carrying(pc[u]) => u # t)
  BY <1>1 DEF Carrying
<1>5. TypeOK'
  BY <1>0, <1>1, <1>3 DEF TypeOK
<1>6. ListSpellsStack'
  BY <1>0, <1>1 DEF ListSpellsStack
<1>7. FrameInOnePlace'
  <2>1. \A u \in Thread : Carrying(pc[u]) => frame_addr'[u] = frame_addr[u]
    BY <1>3, <1>4
  <2>2. ASSUME NEW f \in Frame
        PROVE  \/ f \in used \/ \E i \in 1..Len(stack) : stack[i] = f
               \/ \E u \in Thread : Carrying(pc'[u]) /\ frame_addr'[u] = f
    BY <1>0, <1>4, <2>1 DEF FrameInOnePlace
  <2>3. QED  BY <1>0, <1>1, <1>4, <2>1, <2>2 DEF FrameInOnePlace
<1>8. Protected'
  BY <1>0, <1>1, <1>2, <1>3 DEF Protected, Critical
<1>9. QED  BY <1>5, <1>6, <1>7, <1>8 DEF IInv

(* allocate_frame takes the frame it read off the list.                    *)
LEMMA PopStep == ASSUME IInv, NEW t \in Thread, alloc_pops(t)  PROVE IInv'
<1>0. TypeOK /\ ListSpellsStack /\ FrameInOnePlace /\ Protected
  BY DEF IInv
<1>1. /\ UNCHANGED <<free_frames_arr, list_mut, frame_addr, used>>
      /\ pc[t] = "pop"
      /\ pc' \in [Thread -> Pc]
      /\ \A u \in Thread : pc'[u] = IF u = t THEN "alloc_unlock" ELSE pc[u]
      /\ free_list_head' = free_frames_arr[frame_addr[t]]
      /\ stack' = Tail(stack)
  BY <1>0 DEF TypeOK, alloc_pops, Goto, Pc
<1>2. stack # <<>> /\ frame_addr[t] = stack[1] /\ stack \in Seq(Frame)
  BY <1>0, <1>1 DEF Protected, TypeOK
<1>3. /\ stack' \in Seq(Frame)
      /\ Len(stack) \in Nat \ {0}
      /\ Len(stack') = Len(stack) - 1
      /\ \A i \in 1..(Len(stack) - 1) : stack'[i] = stack[i + 1]
  BY <1>1, <1>2, PoppedStack
<1>4. /\ Carrying(pc'[t]) /\ ~Carrying(pc[t])
      /\ \A u \in Thread : u # t => (Carrying(pc'[u]) <=> Carrying(pc[u]))
  BY <1>1 DEF Carrying
<1>5. \A f : (\E i \in 1..Len(stack) : stack[i] = f)
                <=> f = stack[1] \/ \E i \in 1..Len(stack') : stack'[i] = f
  <2>1. ASSUME NEW f, NEW i \in 1..Len(stack), stack[i] = f
        PROVE  f = stack[1] \/ \E j \in 1..Len(stack') : stack'[j] = f
    <3>1. CASE i = 1  BY <2>1, <3>1
    <3>2. CASE i # 1
      <4>1. i - 1 \in 1..(Len(stack) - 1)  BY <1>3, <3>2
      <4>2. stack'[i - 1] = f  BY <1>3, <2>1, <4>1
      <4>3. QED  BY <1>3, <4>1, <4>2
    <3>3. QED  BY <3>1, <3>2
  <2>2. ASSUME NEW f, NEW i \in 1..Len(stack'), stack'[i] = f
        PROVE  \E j \in 1..Len(stack) : stack[j] = f
    <3>1. i + 1 \in 1..Len(stack) /\ stack[i + 1] = f  BY <1>3, <2>2
    <3>2. QED  BY <3>1
  <2>3. 1 \in 1..Len(stack)  BY <1>3
  <2>4. QED  BY <2>1, <2>2, <2>3
<1>6. TypeOK'
  <2>1. free_list_head' \in Link  BY <1>0, <1>1 DEF TypeOK
  <2>2. QED  BY <1>0, <1>1, <1>3, <2>1 DEF TypeOK
<1>7. ListSpellsStack'
  <2>1. free_list_head' = IF stack' = <<>> THEN FREE_FRAME_LIST_END ELSE stack'[1]
    <3>1. CASE Len(stack) = 1
      <4>1. stack' = <<>>  BY <1>3, <3>1
      <4>2. free_frames_arr[stack[1]] = FREE_FRAME_LIST_END
        BY <1>0, <3>1 DEF ListSpellsStack
      <4>3. QED  BY <1>1, <1>2, <4>1, <4>2
    <3>2. CASE Len(stack) # 1
      <4>1. Len(stack') # 0 /\ stack'[1] = stack[2]  BY <1>3, <3>2
      <4>2. stack' # <<>>  BY <4>1
      <4>3. free_frames_arr[stack[1]] = stack[2]
        BY <1>0, <1>3, <3>2 DEF ListSpellsStack
      <4>4. QED  BY <1>1, <1>2, <4>1, <4>2, <4>3
    <3>3. QED  BY <3>1, <3>2
  <2>2. ASSUME NEW i \in 1..Len(stack')
        PROVE  free_frames_arr[stack'[i]]
                   = IF i = Len(stack') THEN FREE_FRAME_LIST_END ELSE stack'[i + 1]
    <3>1. i + 1 \in 1..Len(stack) /\ stack'[i] = stack[i + 1]
      BY <1>3
    <3>2. free_frames_arr[stack[i + 1]]
              = IF i + 1 = Len(stack) THEN FREE_FRAME_LIST_END ELSE stack[(i + 1) + 1]
      BY <1>0, <3>1 DEF ListSpellsStack
    <3>3. i # Len(stack') => stack'[i + 1] = stack[(i + 1) + 1]
      BY <1>3
    <3>4. QED  BY <1>3, <3>1, <3>2, <3>3
  <2>3. QED  BY <1>1, <2>1, <2>2 DEF ListSpellsStack
<1>8. FrameInOnePlace'
  <2>1. \A i, j \in 1..Len(stack) : stack[i] = stack[j] => i = j
    BY <1>0 DEF FrameInOnePlace
  <2>2. \A i, j \in 1..Len(stack') : stack'[i] = stack'[j] => i = j
    <3>1. ASSUME NEW i \in 1..Len(stack'), NEW j \in 1..Len(stack'), stack'[i] = stack'[j]
          PROVE  i = j
      <4>1. i + 1 \in 1..Len(stack) /\ j + 1 \in 1..Len(stack) /\ stack[i + 1] = stack[j + 1]
        BY <1>3, <3>1
      <4>2. i + 1 = j + 1  BY <2>1, <4>1
      <4>3. QED  BY <1>3, <4>2
    <3>2. QED  BY <3>1
  <2>3. \A i \in 1..Len(stack') : stack'[i] # stack[1]
    <3>1. ASSUME NEW i \in 1..Len(stack'), stack'[i] = stack[1]  PROVE FALSE
      <4>1. i + 1 \in 1..Len(stack) /\ 1 \in 1..Len(stack) /\ stack[i + 1] = stack[1] /\ i + 1 # 1
        BY <1>3, <3>1
      <4>2. QED  BY <2>1, <4>1
    <3>2. QED  BY <3>1
  <2>4. stack[1] \notin used /\ \A i \in 1..Len(stack') : stack'[i] \notin used
    BY <1>0, <1>3, <1>5 DEF FrameInOnePlace
  <2>5. ASSUME NEW u \in Thread, Carrying(pc[u])
        PROVE  /\ frame_addr[u] \notin used /\ frame_addr[u] # stack[1]
               /\ \A i \in 1..Len(stack') : stack'[i] # frame_addr[u]
               /\ \A v \in Thread : Carrying(pc[v]) /\ frame_addr[v] = frame_addr[u] => v = u
    BY <1>0, <1>3, <1>5, <2>5 DEF FrameInOnePlace
  <2>6. ASSUME NEW f \in Frame
        PROVE  \/ f \in used \/ \E i \in 1..Len(stack') : stack'[i] = f
               \/ \E u \in Thread : Carrying(pc'[u]) /\ frame_addr[u] = f
    <3>1. CASE f = stack[1]
      BY <1>2, <1>4, <3>1
    <3>2. CASE f # stack[1] /\ \E i \in 1..Len(stack) : stack[i] = f
      BY <1>5, <3>2
    <3>3. CASE \E u \in Thread : Carrying(pc[u]) /\ frame_addr[u] = f
      <4>1. PICK u \in Thread : Carrying(pc[u]) /\ frame_addr[u] = f  BY <3>3
      <4>2. Carrying(pc'[u])  BY <1>4, <4>1
      <4>3. QED  BY <4>1, <4>2
    <3>4. QED  BY <1>0, <3>1, <3>2, <3>3 DEF FrameInOnePlace
  <2>7. ASSUME NEW u \in Thread, Carrying(pc'[u])
        PROVE  /\ frame_addr[u] \notin used
               /\ \A i \in 1..Len(stack') : stack'[i] # frame_addr[u]
               /\ \A v \in Thread : Carrying(pc'[v]) /\ frame_addr[v] = frame_addr[u] => v = u
    <3>1. CASE u = t
      <4>1. frame_addr[u] = stack[1]  BY <1>2, <3>1
      <4>2. ASSUME NEW v \in Thread, Carrying(pc'[v]), frame_addr[v] = stack[1]  PROVE v = t
        BY <1>4, <2>5, <4>2
      <4>3. QED  BY <2>3, <2>4, <3>1, <4>1, <4>2
    <3>2. CASE u # t
      <4>1. Carrying(pc[u])  BY <1>4, <2>7, <3>2
      <4>2. ASSUME NEW v \in Thread, Carrying(pc'[v]), frame_addr[v] = frame_addr[u]  PROVE v = u
        BY <1>2, <1>4, <2>5, <4>1, <4>2
      <4>3. QED  BY <2>5, <4>1, <4>2
    <3>3. QED  BY <3>1, <3>2
  <2>8. QED  BY <1>1, <2>2, <2>4, <2>6, <2>7 DEF FrameInOnePlace
<1>9. Protected'
  BY <1>0, <1>1 DEF Protected, Critical
<1>10. QED  BY <1>6, <1>7, <1>8, <1>9 DEF IInv

(* allocate_frame unlocks and its caller has the frame.                    *)
LEMMA ReturnStep == ASSUME IInv, NEW t \in Thread, alloc_returns(t)  PROVE IInv'
<1>0. TypeOK /\ ListSpellsStack /\ FrameInOnePlace /\ Protected
  BY DEF IInv
<1>1. /\ UNCHANGED <<free_list_head, free_frames_arr, frame_addr, stack>>
      /\ pc[t] = "alloc_unlock" /\ list_mut' = NoThread
      /\ pc' \in [Thread -> Pc]
      /\ \A u \in Thread : pc'[u] = IF u = t THEN "out" ELSE pc[u]
      /\ used' = used \cup {frame_addr[t]}
  BY <1>0 DEF TypeOK, alloc_returns, Goto, Pc
<1>2. Carrying(pc[t]) /\ \A u \in Thread : Carrying(pc'[u]) <=> Carrying(pc[u]) /\ u # t
  BY <1>1 DEF Carrying
<1>3. TypeOK'
  BY <1>0, <1>1 DEF TypeOK
<1>4. ListSpellsStack'
  BY <1>0, <1>1 DEF ListSpellsStack
<1>5. FrameInOnePlace'
  <2>1. ASSUME NEW f \in Frame
        PROVE  \/ f \in used' \/ \E i \in 1..Len(stack) : stack[i] = f
               \/ \E u \in Thread : Carrying(pc'[u]) /\ frame_addr[u] = f
    BY <1>0, <1>1, <1>2 DEF FrameInOnePlace
  <2>2. QED  BY <1>0, <1>1, <1>2, <2>1 DEF FrameInOnePlace
<1>6. Protected'
  BY <1>0, <1>1, FrameAssumption DEF Protected, Critical
<1>7. QED  BY <1>3, <1>4, <1>5, <1>6 DEF IInv

(* A caller gives a frame back.                                            *)
LEMMA GiveBackStep ==
    ASSUME IInv, NEW t \in Thread, NEW f \in Frame, deallocate_frame(t, f)
    PROVE  IInv'
<1>0. TypeOK /\ ListSpellsStack /\ FrameInOnePlace /\ Protected
  BY DEF IInv
<1>1. /\ UNCHANGED <<free_list_head, free_frames_arr, list_mut, stack>>
      /\ pc[t] = "out" /\ f \in used
      /\ pc' \in [Thread -> Pc]
      /\ \A u \in Thread : pc'[u] = IF u = t THEN "dealloc" ELSE pc[u]
      /\ frame_addr' \in [Thread -> Frame]
      /\ \A u \in Thread : frame_addr'[u] = IF u = t THEN f ELSE frame_addr[u]
      /\ used' = used \ {f}
  BY <1>0 DEF TypeOK, deallocate_frame, Goto, Pc
<1>2. /\ Carrying(pc'[t]) /\ ~Carrying(pc[t])
      /\ \A u \in Thread : u # t => (Carrying(pc'[u]) <=> Carrying(pc[u]))
  BY <1>1 DEF Carrying
<1>3. TypeOK'
  BY <1>0, <1>1 DEF TypeOK
<1>4. ListSpellsStack'
  BY <1>0, <1>1 DEF ListSpellsStack
<1>5. FrameInOnePlace'
  <2>1. ASSUME NEW g \in Frame
        PROVE  \/ g \in used' \/ \E i \in 1..Len(stack) : stack[i] = g
               \/ \E u \in Thread : Carrying(pc'[u]) /\ frame_addr'[u] = g
    <3>1. CASE g = f
      <4>1. Carrying(pc'[t]) /\ frame_addr'[t] = g  BY <1>1, <1>2, <3>1
      <4>2. QED  BY <4>1
    <3>2. CASE g # f /\ g \in used
      BY <1>1, <3>2
    <3>3. CASE \E u \in Thread : Carrying(pc[u]) /\ frame_addr[u] = g
      <4>1. PICK u \in Thread : Carrying(pc[u]) /\ frame_addr[u] = g  BY <3>3
      <4>2. Carrying(pc'[u]) /\ frame_addr'[u] = g  BY <1>1, <1>2, <4>1
      <4>3. QED  BY <4>2
    <3>4. QED  BY <1>0, <3>1, <3>2, <3>3 DEF FrameInOnePlace
  <2>2. ASSUME NEW u \in Thread, Carrying(pc'[u])
        PROVE  /\ frame_addr'[u] \notin used'
               /\ \A i \in 1..Len(stack) : stack[i] # frame_addr'[u]
               /\ \A v \in Thread : Carrying(pc'[v]) /\ frame_addr'[v] = frame_addr'[u] => v = u
    <3>0. \A v \in Thread : Carrying(pc[v]) => frame_addr[v] \notin used /\ frame_addr[v] # f
      BY <1>0, <1>1 DEF FrameInOnePlace
    <3>1. CASE u = t
      <4>1. frame_addr'[u] = f  BY <1>1, <3>1
      <4>2. ASSUME NEW v \in Thread, Carrying(pc'[v]), frame_addr'[v] = f  PROVE v = t
        BY <1>1, <1>2, <3>0, <4>2
      <4>3. \A i \in 1..Len(stack) : stack[i] # f
        BY <1>0, <1>1 DEF FrameInOnePlace
      <4>4. QED  BY <1>1, <3>1, <4>1, <4>2, <4>3
    <3>2. CASE u # t
      <4>1. Carrying(pc[u]) /\ frame_addr'[u] = frame_addr[u]  BY <1>1, <1>2, <2>2, <3>2
      <4>2. ASSUME NEW v \in Thread, Carrying(pc'[v]), frame_addr'[v] = frame_addr[u]  PROVE v = u
        <5>1. v # t  BY <1>1, <3>0, <4>1, <4>2
        <5>2. Carrying(pc[v]) /\ frame_addr[v] = frame_addr[u]  BY <1>1, <1>2, <4>2, <5>1
        <5>3. QED  BY <1>0, <4>1, <5>2 DEF FrameInOnePlace
      <4>3. \A i \in 1..Len(stack) : stack[i] # frame_addr[u]
        BY <1>0, <4>1 DEF FrameInOnePlace
      <4>4. QED  BY <1>1, <3>0, <4>1, <4>2, <4>3
    <3>3. QED  BY <3>1, <3>2
  <2>3. QED  BY <1>0, <1>1, <2>1, <2>2 DEF FrameInOnePlace
<1>6. Protected'
  BY <1>0, <1>1 DEF Protected, Critical
<1>7. QED  BY <1>3, <1>4, <1>5, <1>6 DEF IInv

(* deallocate_frame links the old head behind the frame it carries; the    *)
(* frame is not on the list, so the list does not change.                  *)
LEMMA LinkStep == ASSUME IInv, NEW t \in Thread, dealloc_links(t)  PROVE IInv'
<1>0. TypeOK /\ ListSpellsStack /\ FrameInOnePlace /\ Protected
  BY DEF IInv
<1>1. /\ UNCHANGED <<free_list_head, list_mut, frame_addr, used, stack>>
      /\ pc[t] = "link"
      /\ pc' \in [Thread -> Pc]
      /\ \A u \in Thread : pc'[u] = IF u = t THEN "push" ELSE pc[u]
      /\ free_frames_arr' \in [Frame -> Link]
      /\ \A f \in Frame : free_frames_arr'[f] = IF f = frame_addr[t] THEN free_list_head
                                                 ELSE free_frames_arr[f]
      /\ frame_addr[t] \in Frame
  BY <1>0 DEF TypeOK, dealloc_links, Goto, Pc
<1>2. Carrying(pc[t]) /\ \A u \in Thread : Carrying(pc'[u]) <=> Carrying(pc[u])
  BY <1>1 DEF Carrying
<1>3. \A i \in 1..Len(stack) : stack[i] \in Frame /\ stack[i] # frame_addr[t]
  BY <1>0, <1>2 DEF FrameInOnePlace, TypeOK
<1>4. TypeOK'
  BY <1>0, <1>1 DEF TypeOK
<1>5. ListSpellsStack'
  BY <1>0, <1>1, <1>3 DEF ListSpellsStack
<1>6. FrameInOnePlace'
  BY <1>0, <1>1, <1>2 DEF FrameInOnePlace
<1>7. Protected'
  <2>1. \A u \in Thread : pc[u] \in Critical => u = t
    BY <1>0, <1>1 DEF Protected, Critical
  <2>2. QED  BY <1>0, <1>1, <2>1 DEF Protected, Critical
<1>8. QED  BY <1>4, <1>5, <1>6, <1>7 DEF IInv

(* deallocate_frame makes its frame the new head.                          *)
LEMMA PushStep == ASSUME IInv, NEW t \in Thread, dealloc_pushes(t)  PROVE IInv'
<1> DEFINE x == frame_addr[t]
<1>0. TypeOK /\ ListSpellsStack /\ FrameInOnePlace /\ Protected
  BY DEF IInv
<1>1. /\ UNCHANGED <<free_frames_arr, list_mut, frame_addr, used>>
      /\ pc[t] = "push"
      /\ pc' \in [Thread -> Pc]
      /\ \A u \in Thread : pc'[u] = IF u = t THEN "dealloc_unlock" ELSE pc[u]
      /\ free_list_head' = x
      /\ stack' = <<x>> \o stack
      /\ x \in Frame /\ stack \in Seq(Frame)
      /\ free_frames_arr[x] = free_list_head
  BY <1>0 DEF TypeOK, dealloc_pushes, Goto, Pc, Protected
<1>2. /\ stack' \in Seq(Frame) /\ Len(stack) \in Nat
      /\ Len(stack') = Len(stack) + 1
      /\ stack'[1] = x
      /\ \A i \in 2..(Len(stack) + 1) : stack'[i] = stack[i - 1]
  BY <1>1, PushedStack
<1>3. Carrying(pc[t]) /\ \A u \in Thread : Carrying(pc'[u]) <=> Carrying(pc[u]) /\ u # t
  BY <1>1 DEF Carrying
<1>4. /\ x \notin used
      /\ \A i \in 1..Len(stack) : stack[i] # x
      /\ \A u \in Thread : Carrying(pc[u]) /\ frame_addr[u] = x => u = t
  BY <1>0, <1>3 DEF FrameInOnePlace
<1>5. \A f : (\E i \in 1..Len(stack') : stack'[i] = f)
                <=> f = x \/ \E i \in 1..Len(stack) : stack[i] = f
  <2>1. ASSUME NEW f, NEW i \in 1..Len(stack'), stack'[i] = f
        PROVE  f = x \/ \E j \in 1..Len(stack) : stack[j] = f
    <3>1. CASE i = 1  BY <1>2, <2>1, <3>1
    <3>2. CASE i # 1
      <4>1. i - 1 \in 1..Len(stack) /\ stack[i - 1] = f  BY <1>2, <2>1, <3>2
      <4>2. QED  BY <4>1
    <3>3. QED  BY <3>1, <3>2
  <2>2. ASSUME NEW f, NEW i \in 1..Len(stack), stack[i] = f
        PROVE  \E j \in 1..Len(stack') : stack'[j] = f
    <3>1. i + 1 \in 2..(Len(stack) + 1) /\ (i + 1) - 1 = i  BY <1>2
    <3>2. stack'[i + 1] = f  BY <1>2, <2>2, <3>1
    <3>3. i + 1 \in 1..Len(stack')  BY <1>2
    <3>4. QED  BY <3>2, <3>3
  <2>3. 1 \in 1..Len(stack')  BY <1>2
  <2>4. QED  BY <1>2, <2>1, <2>2, <2>3
<1>6. TypeOK'
  BY <1>0, <1>1, <1>2 DEF TypeOK, Link
<1>7. ListSpellsStack'
  <2>1. stack' # <<>>  BY <1>2
  <2>2. ASSUME NEW i \in 1..Len(stack')
        PROVE  free_frames_arr[stack'[i]]
                   = IF i = Len(stack') THEN FREE_FRAME_LIST_END ELSE stack'[i + 1]
    <3>1. CASE i = 1
      <4>1. CASE stack = <<>>
        BY <1>0, <1>1, <1>2, <3>1, <4>1 DEF ListSpellsStack
      <4>2. CASE stack # <<>>
        <5>1. Len(stack) # 0  BY <1>1, <4>2
        <5>2. stack'[2] = stack[1]  BY <1>2, <5>1
        <5>3. free_list_head = stack[1]  BY <1>0, <4>2 DEF ListSpellsStack
        <5>4. QED  BY <1>1, <1>2, <3>1, <5>1, <5>2, <5>3
      <4>3. QED  BY <4>1, <4>2
    <3>2. CASE i # 1
      <4>1. i - 1 \in 1..Len(stack) /\ stack'[i] = stack[i - 1]  BY <1>2, <3>2
      <4>2. free_frames_arr[stack[i - 1]]
                = IF i - 1 = Len(stack) THEN FREE_FRAME_LIST_END ELSE stack[(i - 1) + 1]
        BY <1>0, <4>1 DEF ListSpellsStack
      <4>3. i # Len(stack') => stack'[i + 1] = stack[(i - 1) + 1]
        BY <1>2, <3>2
      <4>4. QED  BY <1>2, <4>1, <4>2, <4>3
    <3>3. QED  BY <3>1, <3>2
  <2>3. QED  BY <1>1, <1>2, <2>1, <2>2 DEF ListSpellsStack
<1>8. FrameInOnePlace'
  <2>1. ASSUME NEW i \in 1..Len(stack'), NEW j \in 1..Len(stack'), stack'[i] = stack'[j]
        PROVE  i = j
    <3>1. CASE i = 1 \/ j = 1
      <4>1. \A k \in 2..(Len(stack) + 1) : stack'[k] # x  BY <1>2, <1>4
      <4>2. QED  BY <1>2, <2>1, <3>1, <4>1
    <3>2. CASE i # 1 /\ j # 1
      <4>1. i - 1 \in 1..Len(stack) /\ j - 1 \in 1..Len(stack) /\ stack[i - 1] = stack[j - 1]
        BY <1>2, <2>1, <3>2
      <4>2. i - 1 = j - 1  BY <1>0, <4>1 DEF FrameInOnePlace
      <4>3. QED  BY <1>2, <4>2
    <3>3. QED  BY <3>1, <3>2
  <2>2. \A i \in 1..Len(stack') : stack'[i] \notin used
    BY SMTT(30), <1>0, <1>4, <1>5 DEF FrameInOnePlace
  <2>3. ASSUME NEW u \in Thread, Carrying(pc'[u])
        PROVE  /\ frame_addr[u] \notin used
               /\ \A i \in 1..Len(stack') : stack'[i] # frame_addr[u]
               /\ \A v \in Thread : Carrying(pc'[v]) /\ frame_addr[v] = frame_addr[u] => v = u
    <3>1. Carrying(pc[u]) /\ frame_addr[u] # x  BY <1>3, <1>4, <2>3
    <3>2. \A i \in 1..Len(stack) : stack[i] # frame_addr[u]
      BY <1>0, <3>1 DEF FrameInOnePlace
    <3>3. \A i \in 1..Len(stack') : stack'[i] # frame_addr[u]  BY <1>5, <3>1, <3>2
    <3>4. ASSUME NEW v \in Thread, Carrying(pc'[v]), frame_addr[v] = frame_addr[u]  PROVE v = u
      BY <1>0, <1>3, <3>1, <3>4 DEF FrameInOnePlace
    <3>5. QED  BY <1>0, <3>1, <3>3, <3>4 DEF FrameInOnePlace
  <2>4. ASSUME NEW f \in Frame
        PROVE  \/ f \in used \/ \E i \in 1..Len(stack') : stack'[i] = f
               \/ \E u \in Thread : Carrying(pc'[u]) /\ frame_addr[u] = f
    <3>1. CASE \E i \in 1..Len(stack) : stack[i] = f  BY <1>5, <3>1
    <3>2. CASE \E u \in Thread : Carrying(pc[u]) /\ frame_addr[u] = f
      <4>1. PICK u \in Thread : Carrying(pc[u]) /\ frame_addr[u] = f  BY <3>2
      <4>2. CASE u = t  BY <1>5, <4>1, <4>2
      <4>3. CASE u # t  BY <1>3, <4>1, <4>3
      <4>4. QED  BY <4>2, <4>3
    <3>3. QED  BY <1>0, <3>1, <3>2 DEF FrameInOnePlace
  <2>5. QED  BY <1>1, <2>1, <2>2, <2>3, <2>4 DEF FrameInOnePlace
<1>9. Protected'
  <2>1. \A u \in Thread : pc[u] \in Critical => u = t
    BY <1>0, <1>1 DEF Protected, Critical
  <2>2. QED  BY <1>0, <1>1, <2>1 DEF Protected, Critical
<1>10. QED  BY <1>6, <1>7, <1>8, <1>9 DEF IInv

(* Every step of the allocator preserves the invariant.                    *)
LEMMA NextIInv == IInv /\ [Next]_vars => IInv'
<1> SUFFICES ASSUME IInv, [Next]_vars  PROVE IInv'
  OBVIOUS
<1>0. TypeOK /\ Protected /\ NoThread \notin Thread
  BY FrameAssumption DEF IInv
<1>1. ASSUME NEW t \in Thread, allocate_frame(t)  PROVE IInv'
  <2>1. \A u \in Thread : pc[u] \in Critical <=> list_mut = u  BY <1>0 DEF Protected
  <2>2. list_mut \in Thread \cup {NoThread}  BY <1>0 DEF TypeOK
  <2>3. /\ pc[t] = "out" /\ pc' = [pc EXCEPT ![t] = "alloc"]
        /\ UNCHANGED <<free_list_head, free_frames_arr, list_mut, frame_addr, used, stack>>
    BY <1>1 DEF allocate_frame, Goto
  <2>4. \A u \in Thread : (IF u = t THEN "alloc" ELSE pc[u]) \in Critical <=> list_mut' = u
    BY <2>1, <2>3 DEF Critical
  <2>5. QED  BY <2>2, <2>3, <2>4, QuietStep DEF Pc, Carrying
<1>2. ASSUME NEW t \in Thread, lock(t, "alloc", "test") \/ lock(t, "dealloc", "link")
      PROVE  IInv'
  <2>1. \A u \in Thread : pc[u] \notin Critical  BY SMTT(30), <1>0, <1>2 DEF lock, Protected
  <2>2. CASE lock(t, "alloc", "test")
    BY <1>0, <2>1, <2>2, QuietStep DEF lock, Goto, Pc, Carrying, Critical
  <2>3. CASE lock(t, "dealloc", "link")
    BY <1>0, <2>1, <2>3, QuietStep DEF lock, Goto, Pc, Carrying, Critical
  <2>4. QED  BY <1>2, <2>2, <2>3
<1>3. ASSUME NEW t \in Thread, alloc_fails(t) \/ dealloc_returns(t)  PROVE IInv'
  <2>0. pc[t] \in Critical  BY <1>3 DEF alloc_fails, dealloc_returns, Goto, Critical
  <2>1. \A u \in Thread : pc[u] \in Critical => u = t  BY <1>0, <2>0 DEF Protected
  <2>2. /\ pc[t] \in {"test", "dealloc_unlock"} /\ pc' = [pc EXCEPT ![t] = "out"]
        /\ UNCHANGED <<free_list_head, free_frames_arr, frame_addr, used, stack>>
        /\ list_mut' = NoThread
    BY <1>3 DEF alloc_fails, dealloc_returns, Goto
  <2>3. \A u \in Thread : (IF u = t THEN "out" ELSE pc[u]) \in Critical <=> list_mut' = u
    BY <1>0, <2>1, <2>2 DEF Critical
  <2>4. QED  BY <2>2, <2>3, QuietStep DEF Pc, Carrying
<1>4. ASSUME NEW t \in Thread,
             \/ alloc_reads_head(t) \/ alloc_pops(t) \/ alloc_returns(t)
             \/ dealloc_links(t) \/ dealloc_pushes(t)
             \/ \E f \in Frame : deallocate_frame(t, f)
      PROVE  IInv'
  BY <1>4, ReadHeadStep, PopStep, ReturnStep, LinkStep, PushStep, GiveBackStep
<1>5. CASE UNCHANGED vars
  <2>1. \A t \in Thread : Carrying(pc'[t]) <=> Carrying(pc[t])  BY <1>5 DEF vars, Carrying
  <2>2. TypeOK'  BY <1>5 DEF IInv, TypeOK, vars
  <2>3. ListSpellsStack'  BY <1>5 DEF IInv, ListSpellsStack, vars
  <2>4. FrameInOnePlace'  BY <1>5, <2>1 DEF IInv, FrameInOnePlace, vars
  <2>5. Protected'  BY <1>5 DEF IInv, Protected, vars
  <2>6. QED  BY <2>2, <2>3, <2>4, <2>5 DEF IInv
<1>6. QED  BY <1>1, <1>2, <1>3, <1>4, <1>5 DEF Next, Step

(* Type correctness: every frame the allocator returns or links passes the *)
(* range kernel_asserts of allocate_frame and deallocate_frame.            *)
THEOREM TypeCorrect == Spec => []TypeOK
<1>1. IInv => TypeOK  BY DEF IInv
<1>2. QED  BY <1>1, InitIInv, NextIInv, PTL DEF Spec

(* The free list always spells out a stack of free frames.                 *)
THEOREM ListIsStack == Spec => []ListSpellsStack
<1>1. IInv => ListSpellsStack  BY DEF IInv
<1>2. QED  BY <1>1, InitIInv, NextIInv, PTL DEF Spec

(* allocate_frame and deallocate_frame neither duplicate nor lose a frame. *)
THEOREM FramesInOnePlace == Spec => []FrameInOnePlace
<1>1. IInv => FrameInOnePlace  BY DEF IInv
<1>2. QED  BY <1>1, InitIInv, NextIInv, PTL DEF Spec

(* frame_allocator.c implements the frame pool that the paging code uses.  *)
THEOREM AllocatorImplementsPool == Spec => ImplementsPool
<1>1. IInv => FreeFrames = Frame \ used
  <2> SUFFICES ASSUME IInv  PROVE FreeFrames = Frame \ used
    OBVIOUS
  <2>1. ASSUME NEW f \in FreeFrames  PROVE f \in Frame \ used
    <3>1. CASE \E i \in 1..Len(stack) : f = stack[i]
      BY <3>1 DEF IInv, TypeOK, FrameInOnePlace
    <3>2. CASE \E t \in Thread : Carrying(pc[t]) /\ f = frame_addr[t]
      BY <3>2 DEF IInv, TypeOK, FrameInOnePlace
    <3>3. QED  BY <2>1, <3>1, <3>2 DEF FreeFrames
  <2>2. ASSUME NEW f \in Frame, f \notin used  PROVE f \in FreeFrames
    BY <2>2 DEF IInv, FrameInOnePlace, FreeFrames
  <2>3. QED  BY <2>1, <2>2
<1>a. IInv' => (FreeFrames = Frame \ used)'
  BY <1>1, PTL
<1>2. Init => Pool!Init
  BY <1>1, InitIInv DEF Init, Pool!Init
<1>3. IInv /\ IInv' /\ [Next]_vars => [Pool!Next]_<<used, FreeFrames>>
  <2> SUFFICES ASSUME IInv, IInv', [Next]_vars
               PROVE  Pool!Next \/ UNCHANGED <<used, FreeFrames>>
    OBVIOUS
  <2>0. FreeFrames = Frame \ used /\ FreeFrames' = Frame \ used'
    <3>1. FreeFrames = Frame \ used  BY <1>1
    <3>2. (FreeFrames = Frame \ used)'  BY <1>a
    <3>3. QED  BY <3>1, <3>2 DEF Frame
  <2>1. ASSUME NEW t \in Thread, alloc_returns(t)  PROVE Pool!Next
    <3>1. Carrying(pc[t])  BY <2>1 DEF alloc_returns, Goto, Carrying
    <3>2. frame_addr[t] \in Frame /\ frame_addr[t] \notin used
      BY <3>1 DEF IInv, TypeOK, FrameInOnePlace
    <3>3. Pool!Allocate(frame_addr[t])
      BY <2>0, <2>1, <3>2 DEF alloc_returns, Pool!Allocate
    <3>4. QED  BY <3>2, <3>3 DEF Pool!Next
  <2>2. ASSUME NEW t \in Thread, NEW f \in Frame, deallocate_frame(t, f)  PROVE Pool!Next
    <3>1. Pool!Deallocate(f)  BY <2>0, <2>2 DEF deallocate_frame, Pool!Deallocate
    <3>2. QED  BY <3>1 DEF Pool!Next
  <2>3. ASSUME NEW t \in Thread,
               \/ allocate_frame(t) \/ lock(t, "alloc", "test") \/ lock(t, "dealloc", "link")
               \/ alloc_fails(t) \/ alloc_reads_head(t) \/ alloc_pops(t)
               \/ dealloc_links(t) \/ dealloc_pushes(t) \/ dealloc_returns(t)
        PROVE  UNCHANGED <<used, FreeFrames>>
    <3>1. UNCHANGED used
      BY <2>3 DEF allocate_frame, lock, alloc_fails, alloc_reads_head, alloc_pops,
                  dealloc_links, dealloc_pushes, dealloc_returns
    <3>2. QED  BY <2>0, <3>1
  <2>4. CASE UNCHANGED vars
    <3>1. UNCHANGED used  BY <2>4 DEF vars
    <3>2. QED  BY <2>0, <3>1
  <2>5. QED  BY <2>1, <2>2, <2>3, <2>4 DEF Next, Step
<1>4. QED
  BY <1>2, <1>3, InitIInv, NextIInv, PTL DEF Spec, ImplementsPool, Pool!Spec
=============================================================================
