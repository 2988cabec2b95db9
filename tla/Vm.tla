--------------------------------- MODULE Vm ---------------------------------
(***************************************************************************)
(* User address spaces (vm/vm.c) as fork, the page fault handler, system   *)
(* calls that store results, new_pages, remove_pages and vanish change     *)
(* them: page table entries, copy-on-write, frame reference counts.        *)
(*                                                                         *)
(* Each page has a page table of its own (NUM_PAGE_TABLE_ENTRIES is 1), so *)
(* the loops over directories and tables are one loop over pages.  Frames  *)
(* come from the pool of FramePool.tla, and lock_frame/unlock_frame are    *)
(* the lock of BlockingLock.tla; a body that runs entirely under one frame *)
(* lock is one step.                                                       *)
(***************************************************************************)
EXTENDS Integers, FiniteSets

CONSTANTS Thread, Task, Frame, NoThread, NoTask, NoFrame,
          NPages,      \* user pages
          TextPages,   \* pages of the first program mapped read-only
          DataPages,   \* pages of the first program mapped writable
          MaxThreads,  \* bound: threads per task
          Value        \* bound: what a program stores; a new page holds 0

Page == 1..NPages

ASSUME VmAssumption ==
    /\ NPages \in Nat /\ MaxThreads \in Nat /\ 0 \in Value
    /\ TextPages \subseteq Page /\ DataPages \subseteq Page \ TextPages

VARIABLES pt,          \* page table entries of a task's address space
          task,        \* the task of a thread; NoTask: no such thread
          used,        \* frames taken from the pool
          frame_ref_count,
          frame_lock,  \* holder of a frame's lock
          fork_mutex,  \* holder of a task's fork_mutex
          data,        \* contents of a frame
          pc, loc,     \* where a thread is in the kernel, and its local variables
          mem,         \* history: what was last stored in a page of a task
          region       \* history: first page of the new_pages call a page is of, or
                       \* one of the three below

locks == <<frame_lock, fork_mutex>>
vars == <<pt, task, used, frame_ref_count, locks, data, pc, loc, mem, region>>

Unmapped == 0    \* no page, or one remove_pages was called for
Program == -1    \* a page of the program
Leftover == -2   \* mapped by a new_pages call that failed

Absent == [frame |-> NoFrame, rw |-> TRUE, cow |-> FALSE, np |-> "none"]  \* PAGE_TABLE_ENTRY_DEFAULT

NoLocals == [i |-> 0, first |-> 0, last |-> 0, f |-> NoFrame, n |-> NoFrame, space |-> NoTask]

Mapped(a, p) == pt[a][p] # Absent

TypeOK ==
    /\ pt \in [Task -> [Page -> [frame : Frame \cup {NoFrame}, rw : BOOLEAN, cow : BOOLEAN,
                                 np : {"none", "page", "start", "end"}]]]
    /\ task \in [Thread -> Task \cup {NoTask}]
    /\ used \in SUBSET Frame
    /\ frame_ref_count \in [Frame -> 0..Cardinality(Task)]
    /\ frame_lock \in [Frame -> Thread \cup {NoThread}]
    /\ fork_mutex \in [Task -> Thread \cup {NoThread}]
    /\ data \in [Frame -> Value] /\ mem \in [Task -> [Page -> Value]]
    /\ pc \in [Thread -> {"none", "user", "cow", "cow_lock", "cow_test", "cow_count", "cow_new",
                          "cow_unlock", "cow_rw", "clone", "clone_inc", "map", "unmap",
                          "unmap_clear", "vanish", "free", "panic"}]
    /\ region \in [Task -> [Page -> Leftover..NPages]]

(* load_init_task: one task with one thread and the segments of its        *)
(* program, each page in a frame of its own, filled with zeros.            *)
Init ==
    \E a \in Task, t \in Thread, fr \in [TextPages \cup DataPages -> Frame] :
        /\ \A p, q \in TextPages \cup DataPages : fr[p] = fr[q] => p = q
        /\ pt = [b \in Task |-> [p \in Page |->
                    IF b = a /\ p \in TextPages \cup DataPages
                    THEN [frame |-> fr[p], rw |-> p \in DataPages, cow |-> FALSE, np |-> "none"]
                    ELSE Absent]]
        /\ task = [u \in Thread |-> IF u = t THEN a ELSE NoTask]
        /\ used = {fr[p] : p \in TextPages \cup DataPages}
        /\ frame_ref_count = [f \in Frame |-> IF f \in used THEN 1 ELSE 0]
        /\ frame_lock = [f \in Frame |-> NoThread]
        /\ fork_mutex = [b \in Task |-> NoThread]
        /\ data = [f \in Frame |-> 0]
        /\ pc = [u \in Thread |-> IF u = t THEN "user" ELSE "none"]
        /\ loc = [u \in Thread |-> NoLocals]
        /\ mem = [b \in Task |-> [p \in Page |-> 0]]
        /\ region = [b \in Task |-> [p \in Page |->
                        IF b = a /\ p \in TextPages \cup DataPages THEN Program ELSE Unmapped]]
-----------------------------------------------------------------------------
Goto(t, from, to) == pc[t] = from /\ pc' = [pc EXCEPT ![t] = to]

(* Return to user mode: the locals are gone.                               *)
Return(t, from) ==
    /\ Goto(t, from, "user")
    /\ loc' = [loc EXCEPT ![t] = NoLocals]

(* lock_frame(f) asserts that f is a frame, and waits for its lock.        *)
Free(f) == f # NoFrame /\ frame_lock[f] = NoThread

Present(e) == e.frame # NoFrame

(* A user instruction that stores v in page p.                             *)
store(t, p, v) ==
    /\ pc[t] = "user"
    /\ Present(pt[task[t]][p]) /\ pt[task[t]][p].rw
    /\ data' = [data EXCEPT ![pt[task[t]][p].frame] = v]
    /\ mem' = [mem EXCEPT ![task[t]][p] = v]
    /\ UNCHANGED <<pt, task, used, frame_ref_count, locks, pc, loc, region>>
-----------------------------------------------------------------------------
(* The page fault handler.                                                 *)

(* The test of is_addr_cow: it reads (entry | COW_MODE), which is never 0, *)
(* so every present entry that is not writable passes.                     *)
is_addr_cow(e) == Present(e) /\ ~e.rw

(* The kernel stores v in a user page.  It never sets CR0.WP, so that the  *)
(* store goes to the frame whatever the entry allows, and every task that  *)
(* shares the frame sees it.                                               *)
kernel_store(f, v) ==
    /\ data' = [data EXCEPT ![f] = v]
    /\ mem' = [a \in Task |-> [p \in Page |-> IF pt[a][p].frame = f THEN v ELSE mem[a][p]]]

(* A fault with a handler registered: the registers are stored on the      *)
(* exception stack, and the handler, registered no longer, runs in user    *)
(* mode.  When that page is gone the store faults, is handled the same way *)
(* and so on until the kernel stack is used up.                            *)
invoke_swexn_handler(t, e) ==
    \/ /\ Present(e)
       /\ \E v \in Value : kernel_store(e.frame, v)
       /\ UNCHANGED pc
    \/ ~Present(e) /\ Goto(t, "user", "panic") /\ UNCHANGED <<data, mem>>

(* Whether a handler is registered, and where its stack is, is left open:  *)
(* the page was tested when it was registered, and the stack grows down    *)
(* from there, so that by now it may be any page of the task (or of its    *)
(* parent: fork copies the registration).                                  *)
page_fault(t, p) ==
    /\ pc[t] = "user"
    /\ ~(Present(pt[task[t]][p]) /\ pt[task[t]][p].rw)
    /\ \/ /\ is_addr_cow(pt[task[t]][p])
          /\ Goto(t, "user", "cow")
          /\ loc' = [loc EXCEPT ![t].i = p]
          /\ UNCHANGED <<data, mem>>
       \/ /\ ~is_addr_cow(pt[task[t]][p])
          /\ \/ \E q \in Page : invoke_swexn_handler(t, pt[task[t]][q])
             \/ Goto(t, "user", "vanish") /\ UNCHANGED <<data, mem>>   \* kill_current_thread
          /\ UNCHANGED loc
    /\ UNCHANGED <<pt, task, used, frame_ref_count, locks, region>>

(* readline, get_cursor_pos and wait store what they return in the page of *)
(* the pointer, which is_memory_writable tests, or run on into the next    *)
(* one, which it does not.  (No such page: a page fault.)                  *)
copy_out(t, p, v) ==
    /\ pc[t] = "user"
    /\ Present(pt[task[t]][p]) /\ pt[task[t]][p].rw
    /\ \E q \in {p, p + 1} \cap Page :
          Present(pt[task[t]][q]) /\ kernel_store(pt[task[t]][q].frame, v)
    /\ UNCHANGED <<pt, task, used, frame_ref_count, locks, pc, loc, region>>

(* handle_cow reads the frame of the page, then locks the frame.           *)
cow_read(t) ==
    /\ Goto(t, "cow", "cow_lock")
    /\ loc' = [loc EXCEPT ![t].f = pt[task[t]][loc[t].i].frame]
    /\ UNCHANGED <<pt, task, used, frame_ref_count, locks, data, mem, region>>

cow_lock(t) ==
    /\ Goto(t, "cow_lock", "cow_test")
    /\ Free(loc[t].f)
    /\ frame_lock' = [frame_lock EXCEPT ![loc[t].f] = t]
    /\ UNCHANGED <<pt, task, used, frame_ref_count, fork_mutex, data, loc, mem, region>>

cow_sole(t) ==
    /\ Goto(t, "cow_test", "cow_unlock")
    /\ frame_ref_count[loc[t].f] = 1
    /\ pt' = [pt EXCEPT ![task[t]][loc[t].i].cow = FALSE]
    /\ UNCHANGED <<task, used, frame_ref_count, locks, data, loc, mem, region>>

(* A shared frame: the page moves to a new frame with the same contents.   *)
cow_copy(t) ==
    /\ Goto(t, "cow_test", "cow_count")
    /\ frame_ref_count[loc[t].f] # 1
    /\ Present(pt[task[t]][loc[t].i])
    /\ \E n \in Frame \ used :
          /\ used' = used \cup {n}
          /\ loc' = [loc EXCEPT ![t].n = n]
          /\ data' = [data EXCEPT ![n] = data[pt[task[t]][loc[t].i].frame]]
          /\ pt' = [pt EXCEPT ![task[t]][loc[t].i].frame = n, ![task[t]][loc[t].i].cow = FALSE]
    /\ UNCHANGED <<task, frame_ref_count, locks, mem, region>>

(* The page is gone: the copy faults in the kernel, and the handler kills  *)
(* the thread, which still holds the lock of the frame.                    *)
cow_gone(t) ==
    /\ Goto(t, "cow_test", "vanish")
    /\ frame_ref_count[loc[t].f] # 1
    /\ ~Present(pt[task[t]][loc[t].i])
    /\ loc' = [loc EXCEPT ![t] = NoLocals]
    /\ UNCHANGED <<pt, task, used, frame_ref_count, locks, data, mem, region>>

(* No frame is left: handle_cow fails and the handler kills the thread.    *)
cow_nomem(t) ==
    /\ Goto(t, "cow_test", "vanish")
    /\ frame_ref_count[loc[t].f] # 1
    /\ Present(pt[task[t]][loc[t].i])
    /\ used = Frame
    /\ frame_lock' = [frame_lock EXCEPT ![loc[t].f] = NoThread]
    /\ loc' = [loc EXCEPT ![t] = NoLocals]
    /\ UNCHANGED <<pt, task, used, frame_ref_count, fork_mutex, data, mem, region>>

cow_count_kept(t) ==   \* fault: the old frame keeps its count
    /\ Goto(t, "cow_count", "cow_new")
    /\ UNCHANGED <<pt, task, used, frame_ref_count, locks, data, loc, mem, region>>

cow_count(t) ==
    /\ Goto(t, "cow_count", "cow_new")
    /\ frame_ref_count' = [frame_ref_count EXCEPT ![loc[t].f] = @ - 1]
    /\ UNCHANGED <<pt, task, used, locks, data, loc, mem, region>>

(* The frame that handle_cow locks while it holds the lock of frame_addr.  *)
old_frame(l) == l.f   \* fault: frame_addr is locked a second time

new_frame(l) == l.n

cow_new(t) ==
    /\ Goto(t, "cow_new", "cow_unlock")
    /\ Free(new_frame(loc[t]))
    /\ frame_ref_count' = [frame_ref_count EXCEPT ![loc[t].n] = @ + 1]
    /\ UNCHANGED <<pt, task, used, locks, data, loc, mem, region>>

cow_unlock(t) ==
    /\ Goto(t, "cow_unlock", "cow_rw")
    /\ frame_lock' = [frame_lock EXCEPT ![loc[t].f] = NoThread]
    /\ UNCHANGED <<pt, task, used, frame_ref_count, fork_mutex, data, loc, mem, region>>

cow_rw(t) ==
    /\ Return(t, "cow_rw")
    /\ pt' = [pt EXCEPT ![task[t]][loc[t].i].rw = TRUE]
    /\ UNCHANGED <<task, used, frame_ref_count, locks, data, mem, region>>
-----------------------------------------------------------------------------
(* fork, thread_fork.                                                      *)

Live(a) == \E t \in Thread : task[t] = a

Building(b) == \E t \in Thread : loc[t].space = b

(* do_fork: one thread of a task at a time; create_task names the child,   *)
(* then clone_paging_info visits the pages in order.                       *)
do_fork(t) ==
    /\ Goto(t, "user", "clone")
    /\ fork_mutex[task[t]] = NoThread
    /\ \E u \in Thread : pc[u] = "none"
    /\ \E b \in Task :
          /\ ~Live(b) /\ ~Building(b)
          /\ fork_mutex' = [fork_mutex EXCEPT ![task[t]] = t]
          /\ loc' = [loc EXCEPT ![t] = [NoLocals EXCEPT !.i = 1, !.space = b]]
    /\ UNCHANGED <<pt, task, used, frame_ref_count, frame_lock, data, mem, region>>

(* clone_page_table: the entry is copied, then its frame is counted.       *)
clone_page_table(t) ==
    LET p == loc[t].i  a == task[t]  b == loc[t].space
    IN  /\ pc[t] = "clone"
        /\ p \in Page
        /\ pt' = [pt EXCEPT ![b][p] = pt[a][p]]
        /\ mem' = [mem EXCEPT ![b][p] = mem[a][p]]
        /\ region' = [region EXCEPT ![b][p] = region[a][p]]
        /\ IF Mapped(a, p)
           THEN Goto(t, "clone", "clone_inc") /\ loc' = [loc EXCEPT ![t].f = pt[a][p].frame]
           ELSE Goto(t, "clone", "clone") /\ loc' = [loc EXCEPT ![t].i = p + 1]
        /\ UNCHANGED <<task, used, frame_ref_count, locks, data>>

increment_ref_count(t) ==
    /\ Goto(t, "clone_inc", "clone")
    /\ Free(loc[t].f)
    /\ frame_ref_count' = [frame_ref_count EXCEPT ![loc[t].f] = @ + 1]
    /\ loc' = [loc EXCEPT ![t].i = @ + 1, ![t].f = NoFrame]
    /\ UNCHANGED <<pt, task, used, locks, data, mem, region>>

(* The kernel heap has no room for the table: what was cloned is freed.    *)
clone_nomem(t) ==
    /\ Goto(t, "clone", "free")
    /\ loc[t].i \in Page
    /\ Mapped(task[t], loc[t].i)
    /\ loc' = [loc EXCEPT ![t].i = 1]
    /\ UNCHANGED <<pt, task, used, frame_ref_count, locks, data, mem, region>>

make_pt_cow_child_only(a, b) ==  \* fault: the parent keeps its writable entries
    [pt EXCEPT ![b] = [p \in Page |->
        IF pt[b][p] # Absent /\ pt[b][p].rw
        THEN [pt[b][p] EXCEPT !.rw = FALSE, !.cow = TRUE] ELSE pt[b][p]]]

(* make_pages_cow on both directories: writable entries become read-only   *)
(* and copy-on-write.                                                      *)
make_pages_cow(a, b) ==
    [c \in Task |-> [p \in Page |->
        IF c \in {a, b} /\ pt[c][p] # Absent /\ pt[c][p].rw
        THEN [pt[c][p] EXCEPT !.rw = FALSE, !.cow = TRUE] ELSE pt[c][p]]]

(* The end of do_fork: the child's thread becomes runnable.                *)
fork_child(t) ==
    /\ pc[t] = "clone"
    /\ loc[t].i = NPages + 1
    /\ pt' = make_pages_cow(task[t], loc[t].space)
    /\ \E u \in Thread :
          /\ pc[u] = "none"
          /\ task' = [task EXCEPT ![u] = loc[t].space]
          /\ pc' = [pc EXCEPT ![u] = "user", ![t] = "user"]
    /\ fork_mutex' = [fork_mutex EXCEPT ![task[t]] = NoThread]
    /\ loc' = [loc EXCEPT ![t] = NoLocals]
    /\ UNCHANGED <<used, frame_ref_count, frame_lock, data, mem, region>>

do_thread_fork(t) ==
    /\ pc[t] = "user"
    /\ Cardinality({v \in Thread : task[v] = task[t]}) < MaxThreads
    /\ \E u \in Thread :
          /\ pc[u] = "none"
          /\ task' = [task EXCEPT ![u] = task[t]]
          /\ pc' = [pc EXCEPT ![u] = "user"]
    /\ UNCHANGED <<pt, used, frame_ref_count, locks, data, loc, mem, region>>
-----------------------------------------------------------------------------
(* vanish: the last thread of a task frees its address space.              *)

sys_vanish(t) ==
    /\ Goto(t, "user", "vanish")
    /\ UNCHANGED <<pt, task, used, frame_ref_count, locks, data, loc, mem, region>>

do_vanish(t) ==
    /\ pc[t] = "vanish"
    /\ IF \E u \in Thread \ {t} : task[u] = task[t]
       THEN Goto(t, "vanish", "none") /\ task' = [task EXCEPT ![t] = NoTask] /\ UNCHANGED loc
       ELSE /\ Goto(t, "vanish", "free")
            /\ loc' = [loc EXCEPT ![t] = [NoLocals EXCEPT !.i = 1, !.space = task[t]]]
            /\ UNCHANGED task
    /\ UNCHANGED <<pt, used, frame_ref_count, locks, data, mem, region>>

(* One reference to frame f less; the last one gives the frame back.       *)
release_always(f) ==   \* fault: the frame is given back whoever else maps it
    /\ Free(f)
    /\ frame_ref_count' = [frame_ref_count EXCEPT ![f] = @ - 1]
    /\ used' = used \ {f}

release(f) ==
    /\ Free(f)
    /\ frame_ref_count' = [frame_ref_count EXCEPT ![f] = @ - 1]
    /\ used' = IF frame_ref_count[f] = 1 THEN used \ {f} ELSE used

(* free_page_table of page i of the space being freed.                     *)
free_page_table(t) ==
    LET b == loc[t].space  p == loc[t].i
    IN  /\ Goto(t, "free", "free")
        /\ p \in Page
        /\ IF Mapped(b, p) THEN release(pt[b][p].frame) ELSE UNCHANGED <<used, frame_ref_count>>
        /\ pt' = [pt EXCEPT ![b][p] = Absent]
        /\ mem' = [mem EXCEPT ![b][p] = 0]
        /\ region' = [region EXCEPT ![b][p] = Unmapped]
        /\ loc' = [loc EXCEPT ![t].i = p + 1]
        /\ UNCHANGED <<task, locks, data>>

(* The directory is freed: of a vanished task, or of a child whose clone   *)
(* failed, and then fork returns an error.                                 *)
free_page_directory(t) ==
    /\ pc[t] = "free"
    /\ loc[t].i = NPages + 1
    /\ IF loc[t].space = task[t]
       THEN Goto(t, "free", "none") /\ task' = [task EXCEPT ![t] = NoTask] /\ UNCHANGED fork_mutex
       ELSE /\ Goto(t, "free", "user")
            /\ fork_mutex' = [fork_mutex EXCEPT ![task[t]] = NoThread]
            /\ UNCHANGED task
    /\ loc' = [loc EXCEPT ![t] = NoLocals]
    /\ UNCHANGED <<pt, used, frame_ref_count, frame_lock, data, mem, region>>
-----------------------------------------------------------------------------
(* new_pages and remove_pages.                                             *)

(* is_memory_range_mapped on n pages from p: the loop also looks at the    *)
(* page that starts at the end address.                                    *)
is_memory_range_mapped(a, p, n) == \E q \in (p .. p + n) \cap Page : Mapped(a, q)

(* A range within the address space: base + len does not wrap.             *)
new_pages(t, p, n) ==
    /\ Goto(t, "user", "map")
    /\ p + n - 1 \in Page
    /\ ~is_memory_range_mapped(task[t], p, n)
    /\ loc' = [loc EXCEPT ![t].i = p, ![t].first = p, ![t].last = p + n - 1]
    /\ UNCHANGED <<pt, task, used, frame_ref_count, locks, data, mem, region>>

(* map_segment on one page: an absent page gets a zeroed frame.            *)
map_segment(t) ==
    LET a == task[t]  p == loc[t].i
    IN  /\ Goto(t, "map", "map")
        /\ p <= loc[t].last
        /\ \/ Mapped(a, p) /\ UNCHANGED <<pt, used, frame_ref_count, data, mem>>
           \/ /\ ~Mapped(a, p)
              /\ \E n \in Frame \ used :
                    /\ Free(n)
                    /\ used' = used \cup {n}
                    /\ frame_ref_count' = [frame_ref_count EXCEPT ![n] = @ + 1]
                    /\ pt' = [pt EXCEPT ![a][p] =
                                 [frame |-> n, rw |-> TRUE, cow |-> FALSE, np |-> "page"]]
                    /\ data' = [data EXCEPT ![n] = 0]
              /\ mem' = [mem EXCEPT ![a][p] = 0]
        /\ loc' = [loc EXCEPT ![t].i = p + 1]
        /\ UNCHANGED <<task, locks, region>>

(* No frame is left, or no kernel memory for a page table: new_pages fails *)
(* and keeps the pages it has mapped.                                      *)
map_nomem(t) ==
    /\ Return(t, "map")
    /\ loc[t].i <= loc[t].last
    /\ ~Mapped(task[t], loc[t].i)
    /\ region' = [region EXCEPT ![task[t]] =
                     [p \in Page |-> IF p \in loc[t].first .. loc[t].i - 1 THEN Leftover ELSE @[p]]]
    /\ UNCHANGED <<pt, task, used, frame_ref_count, locks, data, mem>>

(* The end of map_new_pages: the last page is marked END, then the first   *)
(* one START, which replaces END when they are the same page.              *)
mark_region(e, p, first, last) ==
    [e EXCEPT !.np = IF p = first THEN "start" ELSE IF p = last THEN "end" ELSE @]

map_new_pages(t) ==
    /\ Return(t, "map")
    /\ loc[t].i = loc[t].last + 1
    /\ pt' = [pt EXCEPT ![task[t]] = [p \in Page |-> mark_region(@[p], p, loc[t].first, loc[t].last)]]
    /\ region' = [region EXCEPT ![task[t]] =
                     [p \in Page |-> IF p \in loc[t].first .. loc[t].last THEN loc[t].first ELSE @[p]]]
    /\ UNCHANGED <<task, used, frame_ref_count, locks, data, mem>>

(* Where a page has no page table, the code reads a word of low memory as  *)
(* its entry; it is taken to hold no mark.                                 *)
remove_pages(t, p) ==
    /\ Goto(t, "user", "unmap")
    /\ pt[task[t]][p].np = "start"
    /\ loc' = [loc EXCEPT ![t].i = p]
    /\ region' = [region EXCEPT ![task[t]] =
                     [q \in Page |-> IF @[q] = p THEN Unmapped ELSE @[q]]]
    /\ UNCHANGED <<pt, task, used, frame_ref_count, locks, data, mem>>

(* unmap_new_pages: the frame is released, then the entry is cleared, and  *)
(* so on while the next entry is marked PAGE or END.                       *)
unmap_release(t) ==
    LET f == pt[task[t]][loc[t].i].frame
    IN  /\ Goto(t, "unmap", "unmap_clear")
        /\ release(f)
        /\ loc' = [loc EXCEPT ![t].f = f]
        /\ UNCHANGED <<pt, task, locks, data, mem, region>>

stops_at_end(e) == e.np = "page"   \* fault: the page marked END stays

in_region(e) == e.np \in {"page", "end"}

unmap_clear(t) ==
    LET a == task[t]  p == loc[t].i
    IN  /\ pc[t] = "unmap_clear"
        /\ IF p + 1 \in Page /\ in_region(pt[a][p + 1])
           THEN Goto(t, "unmap_clear", "unmap") /\ loc' = [loc EXCEPT ![t].i = p + 1, ![t].f = NoFrame]
           ELSE Return(t, "unmap_clear")
        /\ pt' = [pt EXCEPT ![a][p] = Absent]
        /\ mem' = [mem EXCEPT ![a][p] = 0]
        /\ UNCHANGED <<task, used, frame_ref_count, locks, data, region>>
-----------------------------------------------------------------------------
(* The frames whose lock thread t asks for.                                *)
Wanted(t) ==
    IF pc[t] \in {"cow_lock", "clone_inc"} THEN {loc[t].f}
    ELSE IF pc[t] = "cow_new" THEN {new_frame(loc[t])}
    ELSE IF pc[t] = "free" /\ loc[t].i \in Page /\ Mapped(loc[t].space, loc[t].i)
    THEN {pt[loc[t].space][loc[t].i].frame}
    ELSE IF pc[t] = "unmap" THEN {pt[task[t]][loc[t].i].frame}
    ELSE {}

(* lock_frame(NULL) fails its kernel_assert, and the kernel halts.         *)
kernel_panic(t) ==
    /\ NoFrame \in Wanted(t)
    /\ Goto(t, pc[t], "panic")
    /\ UNCHANGED <<pt, task, used, frame_ref_count, locks, data, loc, mem, region>>

Steps ==
    \E t \in Thread :
        \/ \E p \in Page, v \in Value : store(t, p, v) \/ copy_out(t, p, v)
        \/ \E p \in Page : page_fault(t, p) \/ remove_pages(t, p)
        \/ \E p, n \in Page : new_pages(t, p, n)
        \/ cow_read(t) \/ cow_lock(t) \/ cow_sole(t) \/ cow_copy(t) \/ cow_nomem(t)
        \/ cow_count(t) \/ cow_new(t) \/ cow_unlock(t) \/ cow_rw(t)
        \/ do_fork(t) \/ clone_page_table(t) \/ increment_ref_count(t) \/ clone_nomem(t)
        \/ fork_child(t)
        \/ sys_vanish(t) \/ do_vanish(t) \/ free_page_table(t) \/ free_page_directory(t)
        \/ map_segment(t) \/ map_nomem(t) \/ map_new_pages(t)
        \/ unmap_release(t) \/ unmap_clear(t)

Running == \A t \in Thread : pc[t] # "panic"

(* Tasks with one thread.                                                  *)
Next == Running /\ Steps

Spec == Init /\ [][Next]_vars

(* Tasks with several threads.  One thread may then remove a page under    *)
(* another, which makes two more steps possible.                           *)
ThreadsNext ==
    Running /\ (Steps \/ \E t \in Thread : do_thread_fork(t) \/ cow_gone(t) \/ kernel_panic(t))

ThreadsSpec == Init /\ [][ThreadsNext]_vars
-----------------------------------------------------------------------------
(* Properties.                                                             *)

(* The entries that map frame f.                                           *)
Mappers(f) == {m \in Task \X Page : pt[m[1]][m[2]].frame = f}

(* f is between a change of a page table and the matching change of its    *)
(* reference count (or the other way round) in some thread.                *)
InFlight(f) ==
    \E t \in Thread :
        \/ pc[t] \in {"clone_inc", "unmap_clear"} /\ loc[t].f = f
        \/ pc[t] = "cow_count" /\ f \in {loc[t].f, loc[t].n}
        \/ pc[t] = "cow_new" /\ loc[t].n = f

(* Reference counts are exact: fork, copy-on-write, remove_pages and       *)
(* vanish leave frame_ref_count equal to the number of page table entries  *)
(* that hold the frame, and a frame is out of the pool exactly when that   *)
(* number is not 0.                                                        *)
RefCountsExact ==
    \A f \in Frame : ~InFlight(f) =>
        /\ frame_ref_count[f] = Cardinality(Mappers(f))
        /\ f \in used <=> Mappers(f) # {}

(* remove_pages has released the frame of page p and not yet cleared p's   *)
(* entry.                                                                  *)
Removing(a, p) == \E t \in Thread : task[t] = a /\ pc[t] = "unmap_clear" /\ loc[t].i = p

(* Address spaces are separate: a frame that a running task can write is   *)
(* mapped by no other task that runs, but for an entry remove_pages is     *)
(* about to clear (the frame may be another task's by then).               *)
WritableIsPrivate ==
    \A a, b \in Task : \A p, q \in Page :
        (/\ a # b /\ Live(a) /\ Live(b)
         /\ Mapped(a, p) /\ pt[a][p].frame = pt[b][q].frame
         /\ ~Removing(a, p) /\ ~Removing(b, q))
            => ~pt[a][p].rw

(* Every running task reads back in each page what was last stored there,  *)
(* by itself or (a forked child) by its parent before the fork, whatever   *)
(* the other tasks store, fork, fault, map or free.  The one thing of      *)
(* another task it may see is what the kernel stored for that task in a    *)
(* page they still share since the fork: an exception frame, which is      *)
(* stored with no test, or a result that runs on into a second page.       *)
MemoryIsKept ==
    \A a \in Task : \A p \in Page :
        Live(a) /\ Mapped(a, p) /\ ~Removing(a, p) => data[pt[a][p].frame] = mem[a][p]

(* remove_pages gives back the whole region of the new_pages call that     *)
(* allocated it, and no page of another region or of the program: outside  *)
(* the two calls no page of a removed region is mapped, and the pages of   *)
(* every other region are all there, from the page marked START, as are    *)
(* those of the program.  Pages that a failed new_pages has left belong to *)
(* no region and may go with the one before them.                          *)
RegionsWhole ==
    \A a \in Task :
        (Live(a) /\ \A t \in Thread : task[t] = a => pc[t] = "user") =>
            \A p \in Page :
                /\ region[a][p] = Unmapped => ~Mapped(a, p)
                /\ region[a][p] = Program => Mapped(a, p) /\ pt[a][p].np = "none"
                /\ region[a][p] \in Page =>
                      /\ Mapped(a, p) /\ pt[a][region[a][p]].np = "start"
                      /\ \A q \in region[a][p] .. p : region[a][q] = region[a][p]

(* Frame locks never deadlock, although handle_cow locks the new frame     *)
(* while it holds the old one: no set of threads waits within itself.      *)
NoFrameDeadlock ==
    ~\E S \in SUBSET Thread \ {{}} : \A t \in S :
        \E f \in Wanted(t) \ {NoFrame} : frame_lock[f] \in S
=============================================================================
