-------------------------------- MODULE Exec --------------------------------
(***************************************************************************)
(* exec: the address space of a task is replaced while the timer switches  *)
(* tasks (core/exec.c, load_task of core/task.c, loader/loader.c).         *)
(*                                                                         *)
(* Tasks have one thread, so a task is its thread and exec_mutex is free.  *)
(* What a page directory maps is one value: nothing yet ("empty"), pages   *)
(* without contents ("mapped"), a whole program, or anything else          *)
(* ("torn").  Stores of the kernel to user addresses go where cr3 points.  *)
(***************************************************************************)
EXTENDS Sched, FiniteSets

CONSTANTS Task,        \* the threads there are
          Pd,          \* blocks of kernel memory for page directories
          KernelPd,    \* the directory of the idle task
          Program,
          First        \* the program that runs before the first exec

ASSUME ExecAssumption ==
    /\ IsFiniteSet(Task) /\ Task \subseteq Thread /\ KernelPd \notin Pd /\ First \in Program
    /\ Program \cap {"free", "empty", "mapped", "torn"} = {}

VARIABLES at,                \* where a thread is in exec
          pdbr, cr3, image,
          old_pd, new_pd,    \* locals of do_exec and load_task (outside: KernelPd)
          loading,           \* the program the last exec asked for
          program            \* the program the registers of a task belong to

execLocals == <<old_pd, new_pd, loading>>
execVars == <<schedVars, at, pdbr, cr3, image, execLocals, program>>

(* Every task runs in a page directory of its own.                         *)
ImageInit ==
    /\ at = [t \in Task |-> "user"]
    /\ pdbr \in Injection(Task, Pd)
    /\ cr3 = KernelPd
    /\ image = [d \in Pd \cup {KernelPd} |->
                   IF d = KernelPd THEN "empty" ELSE IF d \in Range(pdbr) THEN First ELSE "free"]
    /\ old_pd = [t \in Task |-> KernelPd] /\ new_pd = old_pd
    /\ loading = [t \in Task |-> First]
    /\ program = [t \in Task |-> First]

ExecInit == ImageInit /\ \E q \in Injection(1..Cardinality(Task), Task) : SchedQueued(q)

ExecGoto(t, from, to) ==
    /\ curr = t /\ at[t] = from
    /\ at' = [at EXCEPT ![t] = to]
    /\ UNCHANGED schedVars

Returns(t) ==
    /\ old_pd' = [old_pd EXCEPT ![t] = KernelPd]
    /\ new_pd' = [new_pd EXCEPT ![t] = KernelPd]
    /\ UNCHANGED loading
-----------------------------------------------------------------------------
(* The timer switches to the next thread and loads its page directory.     *)
switch_to_thread ==
    /\ intr
    /\ context_switch(curr, NoThread, status, runq)
    /\ cr3' = IF curr' = curr THEN cr3 ELSE IF curr' = Idle THEN KernelPd ELSE pdbr[curr']
    /\ UNCHANGED <<at, pdbr, image, execLocals, program>>
-----------------------------------------------------------------------------
(* do_exec up to copy_args.  A name or a vector that cannot be read, a     *)
(* program that does not exist and too many arguments end the call before. *)
do_exec_static(t, p) ==   \* fault: old_pd is one variable for all tasks
    /\ ExecGoto(t, "user", "args")
    /\ old_pd' = [u \in Task |-> cr3]
    /\ loading' = [loading EXCEPT ![t] = p]
    /\ UNCHANGED <<pdbr, cr3, image, new_pd, program>>

do_exec(t, p) ==
    /\ ExecGoto(t, "user", "args")
    /\ old_pd' = [old_pd EXCEPT ![t] = cr3]
    /\ loading' = [loading EXCEPT ![t] = p]
    /\ UNCHANGED <<pdbr, cr3, image, new_pd, program>>

copy_args(t) ==
    /\ ExecGoto(t, "args", "create")
    /\ UNCHANGED <<pdbr, cr3, image, execLocals, program>>

(* There is no memory for the vector: the call returns.                    *)
copy_args_no_vector(t) ==
    /\ ExecGoto(t, "args", "user")
    /\ Returns(t)
    /\ UNCHANGED <<pdbr, cr3, image, program>>

(* An argument cannot be copied: free_args also frees the element after    *)
(* the last, which was never set, and the model stops.                     *)
copy_args_torn(t) ==
    /\ ExecGoto(t, "args", "undefined")
    /\ UNCHANGED <<pdbr, cr3, image, execLocals, program>>
-----------------------------------------------------------------------------
(* load_task.                                                              *)

(* smemalign returns some free block; it does not matter which.            *)
create_page_directory(t) ==
    /\ ExecGoto(t, "create", "set_cr3")
    /\ \E d \in Pd : image[d] = "free"
    /\ new_pd' = [new_pd EXCEPT ![t] = CHOOSE d \in Pd : image[d] = "free"]
    /\ image' = [image EXCEPT ![new_pd'[t]] = "empty"]
    /\ UNCHANGED <<pdbr, cr3, old_pd, loading, program>>

no_page_directory(t) ==
    /\ ExecGoto(t, "create", "rollback")
    /\ UNCHANGED <<pdbr, cr3, image, execLocals, program>>

set_cur_pd(t) ==
    /\ ExecGoto(t, "set_cr3", "set_pdbr")
    /\ cr3' = new_pd[t]
    /\ UNCHANGED <<pdbr, image, execLocals, program>>

set_pdbr(t) ==
    /\ ExecGoto(t, "set_pdbr", "map")
    /\ pdbr' = [pdbr EXCEPT ![t] = new_pd[t]]
    /\ UNCHANGED <<cr3, image, execLocals, program>>

(* The frames of all segments, in the new directory wherever cr3 points;   *)
(* or there are too few.                                                   *)
setup_page_table(t) ==
    /\ \/ ExecGoto(t, "map", "load") /\ image' = [image EXCEPT ![new_pd[t]] = "mapped"]
       \/ ExecGoto(t, "map", "rollback") /\ image' = [image EXCEPT ![new_pd[t]] = "torn"]
    /\ UNCHANGED <<pdbr, cr3, execLocals, program>>

(* The segments are stored at user addresses, or a buffer for one cannot   *)
(* be allocated.                                                           *)
load_program(t) ==
    /\ \/ /\ ExecGoto(t, "load", "arguments")
          /\ image' = [image EXCEPT ![cr3] = IF @ = "mapped" THEN loading[t] ELSE "torn"]
       \/ /\ ExecGoto(t, "load", "rollback")
          /\ image' = [image EXCEPT ![cr3] = "torn"]
    /\ UNCHANGED <<pdbr, cr3, execLocals, program>>

(* copy_user_args and set_task_stack; or there is no memory for the copy   *)
(* of the vector.                                                          *)
copy_user_args(t) ==
    /\ \/ /\ ExecGoto(t, "arguments", "free")
          /\ image' = [image EXCEPT ![cr3] = IF @ = loading[t] THEN @ ELSE "torn"]
          /\ program' = [program EXCEPT ![t] = loading[t]]
       \/ /\ ExecGoto(t, "arguments", "rollback")
          /\ UNCHANGED <<image, program>>
    /\ UNCHANGED <<pdbr, cr3, execLocals>>
-----------------------------------------------------------------------------
(* The end of do_exec.                                                     *)
exec_done(t) ==
    /\ ExecGoto(t, "free", "user")
    /\ image' = [image EXCEPT ![old_pd[t]] = "free"]
    /\ Returns(t)
    /\ UNCHANGED <<pdbr, cr3, program>>

exec_failed(t) ==
    /\ ExecGoto(t, "rollback", "user")
    /\ cr3' = old_pd[t]
    /\ Returns(t)
    /\ UNCHANGED <<pdbr, image, program>>

ExecStep(t) ==
    \/ \E p \in Program : do_exec(t, p)
    \/ copy_args(t) \/ copy_args_no_vector(t) \/ copy_args_torn(t)
    \/ create_page_directory(t)
    \/ no_page_directory(t) \/ set_cur_pd(t) \/ set_pdbr(t)
    \/ setup_page_table(t) \/ load_program(t) \/ copy_user_args(t)
    \/ exec_done(t) \/ exec_failed(t)

(* A thread in user mode runs in its program; otherwise what it does is    *)
(* not known, and the model stops.                                         *)
Home(t) == image[cr3] = program[t]

ExecSound == \A t \in Task : at[t] # "undefined" /\ (curr = t /\ at[t] = "user" => Home(t))

ExecNext == ExecSound /\ (switch_to_thread \/ \E t \in Task : ExecStep(t))

ExecSpec == ExecInit /\ [][ExecNext]_execVars
-----------------------------------------------------------------------------
(* exec changes the address space of the caller alone, wherever in it the  *)
(* timer switches to another task, and whether it succeeds or not: what    *)
(* the page directory of another task maps stays as it is.                 *)
ExecKeepsOthers ==
    [][\A t \in Task \ {curr} : image'[pdbr[t]] = image[pdbr[t]]]_execVars

(* README.dox says of exec: "In case the program load is not successful    *)
(* (possibly because of low memory), then we rollback the page directory   *)
(* to the old page directory and return an error value".  After an exec    *)
(* that failed the caller goes on in the program it ran before.            *)
FailedExecRollsBack ==
    \A t \in Task :
        curr = t /\ at[t] = "user" /\ program[t] # loading[t] => Home(t)
=============================================================================
