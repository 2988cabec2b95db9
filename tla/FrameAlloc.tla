----------------------------- MODULE FrameAlloc -----------------------------
(***************************************************************************)
(* The physical frame allocator, allocator/frame_allocator.c: a stack of   *)
(* free frames threaded through free_frames_arr and protected by list_mut. *)
(* Frames are FRAME_INDEX values.  A thread may be preempted between any   *)
(* two statements; list_mut is the lock of BlockingLock.                   *)
(***************************************************************************)
EXTENDS Integers, Sequences

CONSTANTS Thread, NoThread,
          NFrames     \* FREE_FRAMES_COUNT

ASSUME FrameAssumption == NFrames \in Nat \ {0} /\ NoThread \notin Thread

Frame == 0..(NFrames - 1)

FREE_FRAME_LIST_END == -1    \* UINT_MAX read as an int

VARIABLES free_list_head,
          free_frames_arr,
          list_mut,   \* the holder of list_mut
          pc,         \* where a thread is in allocate_frame or deallocate_frame
          frame_addr, \* the local variable or argument of that call
          used,       \* frames handed out and not yet given back
          stack       \* history: the stack that the list stands for

vars == <<free_list_head, free_frames_arr, list_mut, pc, frame_addr, used, stack>>

Link == Frame \cup {FREE_FRAME_LIST_END}

Pc == {"out", "alloc", "test", "pop", "alloc_unlock", "dealloc", "link", "push", "dealloc_unlock"}

TypeOK ==
    /\ free_list_head \in Link
    /\ free_frames_arr \in [Frame -> Link]
    /\ list_mut \in Thread \cup {NoThread}
    /\ pc \in [Thread -> Pc]
    /\ frame_addr \in [Thread -> Frame]
    /\ used \in SUBSET Frame
    /\ stack \in Seq(Frame)

(* init_free_list chains all frames in order.                              *)
Init ==
    /\ free_list_head = 0
    /\ free_frames_arr = [i \in Frame |-> IF i = NFrames - 1 THEN FREE_FRAME_LIST_END ELSE i + 1]
    /\ list_mut = NoThread
    /\ pc = [t \in Thread |-> "out"]
    /\ frame_addr \in [Thread -> {0}]
    /\ used = {}
    /\ stack = [i \in 1..NFrames |-> i - 1]

Goto(t, from, to) == pc[t] = from /\ pc' = [pc EXCEPT ![t] = to]

(* mutex_lock(&list_mut)                                                   *)
lock(t, from, to) ==
    /\ Goto(t, from, to)
    /\ list_mut = NoThread
    /\ list_mut' = t
    /\ UNCHANGED <<free_list_head, free_frames_arr, frame_addr, used, stack>>

allocate_frame(t) ==
    /\ Goto(t, "out", "alloc")
    /\ UNCHANGED <<free_list_head, free_frames_arr, list_mut, frame_addr, used, stack>>

(* The list is empty: unlock and return NULL.                              *)
alloc_fails(t) ==
    /\ Goto(t, "test", "out")
    /\ free_list_head = FREE_FRAME_LIST_END
    /\ list_mut' = NoThread
    /\ UNCHANGED <<free_list_head, free_frames_arr, frame_addr, used, stack>>

alloc_reads_head(t) ==
    /\ Goto(t, "test", "pop")
    /\ free_list_head # FREE_FRAME_LIST_END
    /\ frame_addr' = [frame_addr EXCEPT ![t] = free_list_head]
    /\ UNCHANGED <<free_list_head, free_frames_arr, list_mut, used, stack>>

alloc_keeps_head(t) ==   \* fault: the frame stays on the list
    /\ Goto(t, "pop", "alloc_unlock")
    /\ UNCHANGED <<free_list_head, free_frames_arr, list_mut, frame_addr, used, stack>>

alloc_pops(t) ==
    /\ Goto(t, "pop", "alloc_unlock")
    /\ free_list_head' = free_frames_arr[frame_addr[t]]
    /\ stack' = Tail(stack)
    /\ UNCHANGED <<free_frames_arr, list_mut, frame_addr, used>>

(* Unlock and return the frame to the caller, which now uses it.           *)
alloc_returns(t) ==
    /\ Goto(t, "alloc_unlock", "out")
    /\ list_mut' = NoThread
    /\ used' = used \cup {frame_addr[t]}
    /\ UNCHANGED <<free_list_head, free_frames_arr, frame_addr, stack>>

(* A caller gives back a frame it uses (the kernel_asserts of              *)
(* deallocate_frame hold for such a frame).                                *)
deallocate_frame(t, f) ==
    /\ Goto(t, "out", "dealloc")
    /\ f \in used
    /\ frame_addr' = [frame_addr EXCEPT ![t] = f]
    /\ used' = used \ {f}
    /\ UNCHANGED <<free_list_head, free_frames_arr, list_mut, stack>>

dealloc_links(t) ==
    /\ Goto(t, "link", "push")
    /\ free_frames_arr' = [free_frames_arr EXCEPT ![frame_addr[t]] = free_list_head]
    /\ UNCHANGED <<free_list_head, list_mut, frame_addr, used, stack>>

dealloc_pushes(t) ==
    /\ Goto(t, "push", "dealloc_unlock")
    /\ free_list_head' = frame_addr[t]
    /\ stack' = <<frame_addr[t]>> \o stack
    /\ UNCHANGED <<free_frames_arr, list_mut, frame_addr, used>>

dealloc_returns(t) ==
    /\ Goto(t, "dealloc_unlock", "out")
    /\ list_mut' = NoThread
    /\ UNCHANGED <<free_list_head, free_frames_arr, frame_addr, used, stack>>

Step(t) ==
    \/ allocate_frame(t) \/ lock(t, "alloc", "test") \/ alloc_fails(t)
    \/ alloc_reads_head(t) \/ alloc_pops(t) \/ alloc_returns(t)
    \/ \E f \in Frame : deallocate_frame(t, f)
    \/ lock(t, "dealloc", "link") \/ dealloc_links(t) \/ dealloc_pushes(t) \/ dealloc_returns(t)

Next == \E t \in Thread : Step(t)

Spec == Init /\ [][Next]_vars
-----------------------------------------------------------------------------
(* Where a thread has a frame that is neither on the stack nor with its    *)
(* user: it has been popped and not returned, or given back and not pushed. *)
Carrying(p) == p \in {"alloc_unlock", "dealloc", "link", "push"}

(* The array and the head spell out the stack (init_free_list,             *)
(* allocate_frame, deallocate_frame): following free_frames_arr from       *)
(* free_list_head visits the free frames from top to bottom and ends.      *)
ListSpellsStack ==
    /\ free_list_head = IF stack = <<>> THEN FREE_FRAME_LIST_END ELSE stack[1]
    /\ \A i \in 1..Len(stack) :
          free_frames_arr[stack[i]] = IF i = Len(stack) THEN FREE_FRAME_LIST_END ELSE stack[i + 1]

(* Every frame is in exactly one place: once on the free stack, with its   *)
(* user, or in the hands of one thread inside the allocator.  Frames are   *)
(* therefore neither handed out twice nor lost by allocate_frame and       *)
(* deallocate_frame.                                                       *)
FrameInOnePlace ==
    /\ \A i, j \in 1..Len(stack) : stack[i] = stack[j] => i = j
    /\ \A i \in 1..Len(stack) : stack[i] \notin used
    /\ \A t \in Thread : Carrying(pc[t]) =>
          /\ frame_addr[t] \notin used
          /\ \A i \in 1..Len(stack) : stack[i] # frame_addr[t]
          /\ \A u \in Thread : Carrying(pc[u]) /\ frame_addr[u] = frame_addr[t] => u = t
    /\ \A f \in Frame : \/ f \in used
                        \/ \E i \in 1..Len(stack) : stack[i] = f
                        \/ \E t \in Thread : Carrying(pc[t]) /\ frame_addr[t] = f

(* The statements between mutex_lock and mutex_unlock of the allocator.    *)
Critical == {"test", "pop", "alloc_unlock", "link", "push", "dealloc_unlock"}

(* The frames on the stack or in the hands of the allocator.               *)
FreeFrames ==
    {stack[i] : i \in 1..Len(stack)} \cup {frame_addr[t] : t \in {u \in Thread : Carrying(pc[u])}}

Pool == INSTANCE FramePool WITH free <- FreeFrames

(* The allocator implements the frame pool: allocate_frame returns only    *)
(* frames nobody uses, and what deallocate_frame gets can be had again.    *)
ImplementsPool == Pool!Spec
=============================================================================
