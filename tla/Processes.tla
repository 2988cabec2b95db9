----------------------------- MODULE Processes -----------------------------
(***************************************************************************)
(* System calls: sleep and yield (Sleep) and exec (Exec), both over the    *)
(* scheduler, and the way into the kernel and back (Traps).  A behaviour   *)
(* is about one of them: sleep and exec share the scheduler alone, which   *)
(* neither depends on more than on any other thread that runs and is       *)
(* preempted, and what Traps does with a thread's kernel stack and         *)
(* registers no other part looks at.                                       *)
(***************************************************************************)
EXTENDS Sleep, Exec, Traps

VARIABLE call

sleepVars == <<pc, ticks, wake_time, sleepq, hidden, mutex>>
imageVars == <<at, pdbr, cr3, image, execLocals, program>>
processVars == <<schedVars, sleepVars, imageVars, trapVars, call>>

ProcessesInit ==
    /\ TrapsInit
    /\ \/ call = "exec" /\ SleepInit /\ ExecInit
       \/ /\ call \in {"sleep", "trap"}
          /\ Init /\ ImageInit /\ pdbr = CHOOSE f \in Injection(Task, Pd) : TRUE

ProcessesNext ==
    \/ call = "sleep" /\ Next /\ UNCHANGED <<imageVars, trapVars, call>>
    \/ call = "exec" /\ ExecNext /\ UNCHANGED <<sleepVars, trapVars, call>>
    \/ call = "trap" /\ TrapsNext /\ UNCHANGED <<schedVars, sleepVars, imageVars, call>>

ProcessesSpec ==
    /\ ProcessesInit /\ [][ProcessesNext]_processVars
    /\ WF_vars(call = "sleep" /\ Running /\ tick)
    /\ \A t \in Thread : SF_vars(call = "sleep" /\ Running /\ Sleeping(t))
=============================================================================
