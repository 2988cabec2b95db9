----------------------------- MODULE FramePool ------------------------------
(***************************************************************************)
(* What allocator/frame_allocator.c promises: a frame handed out belongs   *)
(* to its user until the user gives it back.                               *)
(***************************************************************************)
CONSTANT Frame

VARIABLES used, free

Init == used = {} /\ free = Frame

Allocate(f) ==
    /\ f \in free /\ f \notin used
    /\ free' = free \ {f}
    /\ used' = used \cup {f}

Deallocate(f) ==
    /\ f \in used /\ f \notin free
    /\ free' = free \cup {f}
    /\ used' = used \ {f}

Next == \E f \in Frame : Allocate(f) \/ Deallocate(f)

Spec == Init /\ [][Next]_<<used, free>>
=============================================================================
