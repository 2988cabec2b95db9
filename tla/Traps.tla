------------------------------- MODULE Traps -------------------------------
(***************************************************************************)
(* The way into the kernel and back: the registers of a program, the       *)
(* kernel stack that the wrappers of system calls and faults save them on, *)
(* the stack fork and thread_fork give a child, and swexn handlers.        *)
(*                                                                         *)
(* A kernel stack is the sequence of the words below k_stack_base, the     *)
(* highest one first; words below the saved registers are left out.  The   *)
(* gates of faults, fork and swexn are trap gates, so their handlers may   *)
(* be preempted between the steps.  A task is named by its first thread    *)
(* (task_struct.thr).                                                      *)
(***************************************************************************)
EXTENDS Integers, SequencesExt

CONSTANTS Tid, FirstTid, NoTid   \* threads

VARIABLES owner,     \* the task of a thread, or NoTid
          trap_pc,   \* where a thread is
          regs,      \* the registers of its program
          k_stack,   \* its kernel stack
          err_code,  \* the CPU pushed an error code for its fault
          result,    \* what the C handler of its system call returns
          handler,   \* task_struct.eip
          ureg,      \* what setup_swexn_stack left on the exception stack
          before,    \* history: the registers when the program trapped
          why,       \* history: how the thread came back to its program
          at_fault   \* history: the registers at the fault that ureg is about, if
                     \* the CPU pushed an error code for it

stacks == <<k_stack, err_code, result>>
swexnVars == <<handler, ureg, at_fault>>
trapVars == <<owner, trap_pc, regs, stacks, swexnVars, before, why>>

General == {"eax", "ecx", "edx", "ebx", "ebp", "esi", "edi"}
Reg == General \cup {"esp", "eip"}

(* A word: what the code of thread k keeps in a register (at first k is    *)
(* 0), or a word of the kernel.                                            *)
File(k) == [r \in Reg |-> <<r, k>>]
Val(w) == <<w, 0>>

Nil == Val("NULL")
NoUreg == [r \in Reg |-> Nil]

StackWords == 14

(* One task with one thread.                                               *)
TrapsInit ==
    /\ owner = [u \in Tid |-> IF u = FirstTid THEN u ELSE NoTid]
    /\ trap_pc = [u \in Tid |-> IF owner[u] = u THEN "user" ELSE "none"]
    /\ regs = [u \in Tid |-> File(0)]
    /\ k_stack = [u \in Tid |-> [i \in 1..StackWords |-> Nil]]
    /\ err_code = [u \in Tid |-> FALSE]
    /\ result = [u \in Tid |-> Nil]
    /\ handler = [a \in Tid |-> Nil]
    /\ ureg = [a \in Tid |-> NoUreg]
    /\ before = regs
    /\ why = [u \in Tid |-> "run"]
    /\ at_fault = [a \in Tid |-> NoUreg]
-----------------------------------------------------------------------------
(* Saving and restoring.                                                   *)

move(t, from, to) == trap_pc[t] = from /\ trap_pc' = [trap_pc EXCEPT ![t] = to]

(* What the CPU pushes on a trap from user mode.                           *)
iret_frame(t) ==
    <<Val("user_ds"), regs[t]["esp"], Val("eflags"), Val("user_cs"), regs[t]["eip"]>>

(* pusha and SAVE_REGS in the order of their pushes ("kesp" is the esp of  *)
(* the kernel), and RESTORE_REGS in the order of its pops: the saved eax   *)
(* goes to ecx, which the next pop overwrites.                             *)
pusha == <<"eax", "ecx", "edx", "ebx", "kesp", "ebp", "esi", "edi">>
popa == Reverse(pusha)

SAVE_REGS == <<"ecx", "eax", "edx", "ebx", "kesp", "ebp", "edi", "esi">>

RESTORE_REGS == <<"esi", "edi", "ebp", "kesp", "ebx", "edx", "ecx", "ecx">>

pushed(t, order) ==
    [k \in 1..Len(order) |-> IF order[k] = "kesp" THEN Val("kesp") ELSE regs[t][order[k]]]

(* The registers after pops in the given order from word top upwards.      *)
popped(s, order, top, old) ==
    [r \in Reg |->
        LET at == {k \in 1..Len(order) : order[k] = r}
        IN  IF at = {} THEN old[r] ELSE s[top - Max(at) + 1]]

(* The new words replace the old ones at the top of the stack.             *)
overwrite(s, new) == new \o SubSeq(s, Len(new) + 1, StackWords)

traps(t, new, how) ==
    /\ why[t] = "run"
    /\ k_stack' = [k_stack EXCEPT ![t] = overwrite(@, new)]
    /\ why' = [why EXCEPT ![t] = how]
    /\ before' = [before EXCEPT ![t] = regs[t]]

(* iret: back to the program with general registers g.                     *)
irets(t, g) ==
    /\ regs' = [regs EXCEPT ![t] = [g EXCEPT !["esp"] = k_stack[t][2], !["eip"] = k_stack[t][5]]]
    /\ err_code' = [err_code EXCEPT ![t] = FALSE]
    /\ result' = [result EXCEPT ![t] = Nil]

(* The program runs, and changes its registers.  What is in a register is  *)
(* only ever copied, so it changes all of them before the next trap, to    *)
(* values that no other thread has.                                        *)
program_runs(t) ==
    /\ trap_pc[t] = "user" /\ why[t] # "run"
    /\ regs' = [regs EXCEPT ![t] = File(t)]
    /\ before' = [before EXCEPT ![t] = File(t)]
    /\ why' = [why EXCEPT ![t] = "run"]
    /\ UNCHANGED <<owner, trap_pc, stacks, swexnVars>>
-----------------------------------------------------------------------------
(* System calls.  Most of them leave the stack and the handler alone.      *)

syscall(t, to) ==
    /\ move(t, "user", to)
    /\ traps(t, iret_frame(t) \o pushed(t, SAVE_REGS), "call")
    /\ result' = [result EXCEPT ![t] = Val("result")]
    /\ UNCHANGED <<owner, regs, err_code, swexnVars>>

syscall_returns(t) ==
    /\ move(t, "return", "user")
    /\ irets(t, [popped(k_stack[t], RESTORE_REGS, 13, regs[t]) EXCEPT !["eax"] = result[t]])
    /\ UNCHANGED <<owner, k_stack, swexnVars, before, why>>

(* The child starts on a copy of a kernel stack, and of its words the last *)
(* is the address of iret_fun.                                             *)
child_stack(c, s) == k_stack' = [k_stack EXCEPT ![c] = [s EXCEPT ![14] = Val("iret_fun")]]

(* do_fork copies the stack of the first thread of the task, whichever     *)
(* thread forks, the handler and the memory.  (When the first thread is    *)
(* gone its stack is freed memory; such a fork is left out.)               *)
fork_copies_stack(t, c) ==
    /\ trap_pc[t] = "fork" /\ trap_pc[c] = "none" /\ trap_pc[owner[t]] # "dead"
    /\ trap_pc' = [trap_pc EXCEPT ![t] = "return", ![c] = "child"]
    /\ owner' = [owner EXCEPT ![c] = c]
    /\ child_stack(c, k_stack[owner[t]])
    /\ handler' = [handler EXCEPT ![c] = handler[owner[t]]]
    /\ ureg' = [ureg EXCEPT ![c] = ureg[owner[t]]]
    /\ at_fault' = [at_fault EXCEPT ![c] = at_fault[owner[t]]]
    /\ before' = [before EXCEPT ![c] = before[t]]
    /\ why' = [why EXCEPT ![c] = IF owner[t] = t THEN "child" ELSE "other stack"]
    /\ UNCHANGED <<regs, err_code, result>>

thread_fork_copies_stack(t, c) ==
    /\ trap_pc[t] = "fork" /\ trap_pc[c] = "none"
    /\ trap_pc' = [trap_pc EXCEPT ![t] = "return", ![c] = "child"]
    /\ owner' = [owner EXCEPT ![c] = owner[t]]
    /\ child_stack(c, k_stack[t])
    /\ before' = [before EXCEPT ![c] = before[t]]
    /\ why' = [why EXCEPT ![c] = "child"]
    /\ UNCHANGED <<regs, err_code, result, swexnVars>>

(* iret_fun: popa on what SAVE_REGS pushed, then eax is 0.                 *)
iret_fun(t) ==
    /\ move(t, "child", "user")
    /\ irets(t, [popped(k_stack[t], popa, 13, regs[t]) EXCEPT !["eax"] = Val("0")])
    /\ UNCHANGED <<owner, k_stack, swexnVars, before, why>>
-----------------------------------------------------------------------------
(* Faults.                                                                 *)

(* has_code: the CPU pushes an error code (page fault) or none (divide     *)
(* error, breakpoint, ...).  The wrappers are all the same.                *)
fault(t, has_code) ==
    /\ move(t, "user", "fault")
    /\ traps(t, iret_frame(t) \o (IF has_code THEN <<Val("error")>> ELSE <<>>) \o pushed(t, pusha),
             "fault")
    /\ err_code' = [err_code EXCEPT ![t] = has_code]
    /\ UNCHANGED <<owner, regs, result, swexnVars>>

(* A page fault on a copy-on-write page: the program goes on.              *)
handled(t) ==
    /\ err_code[t]
    /\ move(t, "fault", "fault_return")
    /\ UNCHANGED <<owner, regs, stacks, swexnVars, before, why>>

(* The thread is killed: handle_fault finds no handler; or handle_cow has  *)
(* failed or the fault is one that never goes to a handler.                *)
kill_current_thread(t) ==
    /\ move(t, "fault", "dead")
    /\ UNCHANGED <<owner, regs, stacks, swexnVars, before, why>>

(* populate_ureg(ureg, ERR_CODE_AVAIL) and setup_swexn_stack.              *)
populate_ureg_shifted(t) ==   \* fault: the error code is not skipped
    [r \in Reg |->
        IF r = "esp" THEN k_stack[t][2] ELSE IF r = "eip" THEN k_stack[t][5]
        ELSE k_stack[t][5 + CHOOSE k \in 1..8 : pusha[k] = r]]

populate_ureg(t) ==
    [r \in Reg |->
        IF r = "esp" THEN k_stack[t][2] ELSE IF r = "eip" THEN k_stack[t][5]
        ELSE k_stack[t][6 + CHOOSE k \in 1..8 : pusha[k] = r]]

setup_swexn_stack(t) ==
    /\ move(t, "fault", "deliver")
    /\ handler[owner[t]] # Nil
    /\ ureg' = [ureg EXCEPT ![owner[t]] = populate_ureg(t)]
    /\ at_fault' = [at_fault EXCEPT ![owner[t]] = IF err_code[t] THEN before[t] ELSE populate_ureg(t)]
    /\ UNCHANGED <<owner, regs, stacks, handler, before, why>>

(* update_fault_stack, which reads the handler once more.                  *)
update_fault_stack(t) ==
    /\ move(t, "deliver", "deregister")
    /\ k_stack' = [k_stack EXCEPT ![t][2] = Val("swexn_esp"), ![t][5] = handler[owner[t]]]
    /\ why' = [why EXCEPT ![t] = "deliver"]
    /\ UNCHANGED <<owner, regs, err_code, result, swexnVars, before>>

deregister(t) ==
    /\ move(t, "deregister", "fault_return")
    /\ handler' = [handler EXCEPT ![owner[t]] = Nil]
    /\ UNCHANGED <<owner, regs, stacks, ureg, at_fault, before, why>>

(* popa, "Pop the error code" into ecx, iret.                              *)
fault_returns(t) ==
    /\ err_code[t]
    /\ move(t, "fault_return", "user")
    /\ irets(t, [popped(k_stack[t], popa, 14, regs[t]) EXCEPT !["ecx"] = k_stack[t][6]])
    /\ UNCHANGED <<owner, k_stack, swexnVars, before, why>>

(* No error code was pushed: ecx takes the eip, and iret takes the code    *)
(* segment for the eip and the flags for the code segment.                 *)
iret_fails(t) ==
    /\ ~err_code[t]
    /\ move(t, "fault_return", "dead")
    /\ UNCHANGED <<owner, regs, stacks, swexnVars, before, why>>
-----------------------------------------------------------------------------
(* swexn.                                                                  *)

swexn_off(t) ==
    /\ move(t, "swexn", "return")
    /\ handler' = [handler EXCEPT ![owner[t]] = Nil]
    /\ UNCHANGED <<owner, regs, stacks, ureg, at_fault, before, why>>

(* The handler is installed before newureg is looked at.                   *)
swexn_on(t, to) ==
    /\ move(t, "swexn", to)
    /\ handler' = [handler EXCEPT ![owner[t]] = Val("handler")]
    /\ UNCHANGED <<owner, regs, stacks, ureg, at_fault, before, why>>

(* setup_kernel_stack: newureg, here the ureg of the last fault, replaces  *)
(* what SAVE_REGS and the CPU pushed.                                      *)
setup_kernel_stack(t) ==
    LET u == ureg[owner[t]]
    IN  /\ move(t, "newureg", "return")
        /\ u # NoUreg
        /\ k_stack' = [k_stack EXCEPT ![t] = overwrite(@,
              <<Val("user_ds"), u["esp"], Val("eflags"), Val("user_cs"), u["eip"],
                u["ecx"], u["eax"], u["edx"], u["ebx"], k_stack[t][10], u["ebp"], u["edi"], u["esi"]>>)]
        /\ result' = [result EXCEPT ![t] = u["eax"]]
        /\ before' = [before EXCEPT ![t] = at_fault[owner[t]]]
        /\ why' = [why EXCEPT ![t] = "resume"]
        /\ UNCHANGED <<owner, regs, err_code, swexnVars>>

(* validate_uregs refuses the flags: the registers stay.                   *)
validate_uregs_fails(t) ==
    /\ move(t, "newureg", "return")
    /\ UNCHANGED <<owner, regs, stacks, swexnVars, before, why>>

TrapsNext ==
    \E t \in Tid :
        \/ program_runs(t)
        \/ syscall(t, "return") \/ syscall(t, "fork") \/ syscall(t, "swexn")
        \/ syscall_returns(t) \/ iret_fun(t)
        \/ \E c \in Tid : fork_copies_stack(t, c) \/ thread_fork_copies_stack(t, c)
        \/ \E b \in BOOLEAN : fault(t, b)
        \/ handled(t) \/ kill_current_thread(t)
        \/ setup_swexn_stack(t) \/ update_fault_stack(t) \/ deregister(t)
        \/ fault_returns(t) \/ iret_fails(t)
        \/ swexn_off(t) \/ swexn_on(t, "return") \/ swexn_on(t, "newureg")
        \/ setup_kernel_stack(t) \/ validate_uregs_fails(t)

TrapsSpec == TrapsInit /\ [][TrapsNext]_trapVars
-----------------------------------------------------------------------------
(* Properties.                                                             *)

Alone(t) == \A u \in Tid : owner[u] = owner[t] => u = t

(* The registers a program finds again.  The child of a fork gets its esi  *)
(* in edi, its edi in esi and its eax in ecx.                              *)
Kept(how) ==
    CASE how \in {"run", "resume"} -> Reg
      [] how = "call" -> Reg \ {"eax"}
      [] how = "fault" -> Reg \ {"ecx"}
      [] how = "child" -> Reg \ {"eax", "ecx", "esi", "edi"}
      [] OTHER -> {}

(* Whatever traps, forks, preemptions and handlers come in between, a      *)
(* program that the kernel returns to finds the registers it left (those   *)
(* that Kept names).  In a task with one thread, and for faults with an    *)
(* error code, a swexn handler is entered with a ureg that is exactly the  *)
(* registers at the fault, and swexn with that ureg resumes the program    *)
(* with all of them.                                                       *)
RegistersBack ==
    \A t \in Tid : trap_pc[t] = "user" =>
        /\ (why[t] = "resume" => Alone(t)) =>
              \A r \in Kept(why[t]) : regs[t][r] = before[t][r]
        /\ why[t] = "deliver" /\ Alone(t) =>
              ureg[owner[t]] = before[t] /\ regs[t]["eip"] = Val("handler")

(* page_fault_handler: "Save the general purpose registers", "Restore the  *)
(* registers".  A program whose page fault the kernel has handled goes on  *)
(* with the registers it had.                                              *)
FaultKeepsRegisters ==
    \A t \in Tid : trap_pc[t] = "user" /\ why[t] = "fault" => regs[t] = before[t]
=============================================================================
