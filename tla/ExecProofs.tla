---------------------------- MODULE ExecProofs -----------------------------
(***************************************************************************)
(* exec leaves the address spaces of other tasks alone, for any number of  *)
(* tasks, programs and page directories.                                   *)
(***************************************************************************)
EXTENDS Exec, SchedProofs, FiniteSetTheorems

ExecPc == {"user", "args", "create", "set_cr3", "set_pdbr", "map", "load", "arguments", "free",
           "rollback", "undefined"}

Dir == Pd \cup {KernelPd}

Image == Program \cup {"free", "empty", "mapped", "torn"}

ExecType ==
    /\ SchedType
    /\ at \in [Task -> ExecPc]
    /\ pdbr \in [Task -> Pd]
    /\ cr3 \in Dir
    /\ image \in [Dir -> Image]
    /\ old_pd \in [Task -> Dir] /\ new_pd \in [Task -> Dir]
    /\ loading \in [Task -> Program] /\ program \in [Task -> Program]

(* Only tasks run.                                                         *)
Places ==
    /\ NoRepeats(runq)
    /\ \A u \in Thread : status[u] = "RUNNING" <=> curr = u
    /\ \A u \in Thread : status[u] = "RUNNABLE" <=> InQueue(runq, u)
    /\ \A u \in Thread \ Task : status[u] \notin {"RUNNING", "RUNNABLE"}

(* The directories that exec of t may change.                              *)
Owns(t, d) == d # KernelPd /\ (d = pdbr[t] \/ d = old_pd[t] \/ d = new_pd[t])

Allocated == \A t \in Task, d \in Pd : Owns(t, d) => image[d] # "free"

Apart == \A t, u \in Task, d \in Pd : Owns(t, d) /\ Owns(u, d) => t = u

(* cr3 points to a directory of no other task than the one that runs; also *)
(* when it is neither the task's pdbr nor one of the locals, after an exec *)
(* that failed.                                                            *)
Cr3Own == \A t \in Task : Owns(t, cr3) => t = curr

Cr3Allocated == \A t \in Task : curr = t /\ at[t] # "user" => image[cr3] # "free"

Stages ==
    \A t \in Task :
        /\ at[t] \in {"set_cr3", "set_pdbr", "map", "load", "arguments", "free"}
               => new_pd[t] \in Pd /\ new_pd[t] # old_pd[t]
        /\ at[t] \in {"map", "load", "arguments", "free"} => pdbr[t] = new_pd[t]

ExecInv == ExecType /\ Places /\ Allocated /\ Apart /\ Cr3Own /\ Cr3Allocated /\ Stages

(* The facts about constants that the steps use.                           *)
LEMMA ExecConstants ==
    /\ Task \subseteq Thread /\ KernelPd \notin Pd /\ First \in Program
    /\ \A p \in Program : p \notin {"free", "empty", "mapped", "torn"}
    /\ Idle \notin Thread /\ NoThread \notin AllThreads
BY ExecAssumption, SchedAssumption DEF AllThreads

(* Each task in a directory of its own, and nobody inside exec.            *)
LEMMA ExecInitInv == ExecInit => ExecInv
<1> SUFFICES ASSUME ExecInit  PROVE ExecInv
  OBVIOUS
<1>1. PICK q \in Injection(1..Cardinality(Task), Task) : SchedQueued(q)
  BY DEF ExecInit
<1>2. ImageInit
  BY DEF ExecInit
<1>3. q \in Seq(Thread) /\ NoRepeats(q) /\ \A u : InQueue(q, u) => u \in Task
  <2>1. Cardinality(Task) \in Nat
    BY ExecAssumption, FS_CardinalityType
  <2>2. q \in [1..Cardinality(Task) -> Task] /\ IsInjective(q)
    BY DEF Injection
  <2>3. q \in Seq(Task) /\ Len(q) = Cardinality(Task)
    BY <2>1, <2>2
  <2>4. QED
    BY <2>1, <2>2, <2>3, ExecConstants DEF NoRepeats, InQueue, IsInjective
<1>4. ExecType
  <2>1. SchedType
    BY <1>1, <1>3 DEF SchedQueued, SchedType, AllThreads, Status
  <2>2. pdbr \in [Task -> Pd]
    BY <1>2 DEF ImageInit, Injection
  <2>3. QED
    BY <1>2, <2>1, <2>2, ExecConstants DEF ImageInit, ExecType, ExecPc, Dir, Image
<1>5. Places
  <2>1. \A u \in Thread : u # Idle /\ u \in AllThreads
    BY ExecConstants DEF AllThreads
  <2>2. \A u \in Thread : status[u] = IF InQueue(q, u) THEN "RUNNABLE" ELSE "NONE"
    BY <1>1, <2>1 DEF SchedQueued
  <2>3. QED
    BY <1>1, <1>3, <2>1, <2>2 DEF Places, SchedQueued
<1>6. /\ \A t \in Task, d \in Pd : Owns(t, d) <=> d = pdbr[t]
      /\ \A t \in Task : image[pdbr[t]] = First
      /\ \A t, u \in Task : pdbr[t] = pdbr[u] => t = u
  <2>1. pdbr \in [Task -> Pd] /\ IsInjective(pdbr)
    BY <1>2 DEF ImageInit, Injection
  <2>2. \A t \in Task : pdbr[t] \in Range(pdbr) /\ pdbr[t] \in Pd
    BY <2>1 DEF Range
  <2>3. \A t \in Task, d \in Pd : Owns(t, d) <=> d = pdbr[t]
    BY <1>2, <2>1, ExecConstants DEF ImageInit, Owns
  <2>4. \A t \in Task : image[pdbr[t]] = First
    BY <1>2, <2>2, ExecConstants DEF ImageInit
  <2>5. QED  BY <2>1, <2>3, <2>4 DEF IsInjective
<1>7. Allocated /\ Apart
  BY <1>6, ExecConstants DEF Allocated, Apart
<1>8. Cr3Own /\ Cr3Allocated /\ Stages
  BY <1>1, <1>2, ExecConstants DEF ImageInit, SchedQueued, Cr3Own, Cr3Allocated, Stages, Owns
<1>9. QED  BY <1>4, <1>5, <1>7, <1>8 DEF ExecInv

(* A context switch loads the directory of the thread that then runs.      *)
LEMMA SwitchInv ==
    ASSUME ExecInv, switch_to_thread
    PROVE  ExecInv'
<1>1. /\ SchedType' /\ NoRepeats(runq')
      /\ \A u \in Thread : status'[u] = "RUNNING" <=> curr' = u
      /\ \A u \in Thread : status'[u] = "RUNNABLE" <=> InQueue(runq', u)
      /\ \A u \in Thread : status[u] \notin {"RUNNING", "RUNNABLE"} => status'[u] = status[u]
  <2>1. /\ curr \in AllThreads \cup {NoThread} /\ status \in [AllThreads -> Status]
        /\ runq \in Seq(Thread) /\ NoRepeats(runq)
        /\ \A u \in Thread : status[u] = "RUNNABLE" <=> InQueue(runq, u)
        /\ \A u \in Thread : status[u] = "RUNNING" => u = curr
        /\ context_switch(curr, NoThread, status, runq)
    BY DEF ExecInv, ExecType, SchedType, Places, switch_to_thread
  <2>2. QED  BY ONLY <2>1, ContextSwitchPlaces
<1>2. /\ UNCHANGED <<at, pdbr, image, old_pd, new_pd, loading, program>>
      /\ cr3' = IF curr' = curr THEN cr3 ELSE IF curr' = Idle THEN KernelPd ELSE pdbr[curr']
  BY DEF switch_to_thread, execLocals
<1>3. Places'
  BY <1>1 DEF ExecInv, Places
<1>4. curr' = Idle \/ curr' \in Task
  BY <1>1, <1>3 DEF Places, SchedType, AllThreads
<1>5. ExecType'
  BY <1>1, <1>2, <1>4 DEF ExecInv, ExecType, Dir
<1>6. Allocated' /\ Apart' /\ Stages'
  BY <1>2 DEF ExecInv, Allocated, Apart, Stages, Owns
<1>7. Cr3Own'
  <2>1. CASE curr' = curr
    BY <1>2, <2>1 DEF ExecInv, Cr3Own, Owns
  <2>2. CASE curr' # curr /\ curr' = Idle
    BY <1>2, <2>2 DEF Cr3Own, Owns
  <2>3. CASE curr' # curr /\ curr' # Idle
    <3>1. curr' \in Task /\ pdbr[curr'] \in Pd /\ Owns(curr', pdbr[curr'])
      BY <1>4, <2>3, ExecConstants DEF ExecInv, ExecType, Owns
    <3>2. \A t \in Task : Owns(t, pdbr[curr']) => t = curr'
      BY <3>1 DEF ExecInv, Apart
    <3>3. QED  BY <1>2, <2>3, <3>2 DEF Cr3Own, Owns
  <2>4. QED  BY <2>1, <2>2, <2>3
<1>8. Cr3Allocated'
  <2>1. CASE curr' = curr
    BY <1>2, <2>1 DEF ExecInv, Cr3Allocated
  <2>2. CASE curr' # curr
    <3>1. ASSUME NEW t \in Task, curr' = t  PROVE image[cr3'] # "free"
      <4>1. cr3' = pdbr[t] /\ pdbr[t] \in Pd /\ Owns(t, pdbr[t])
        BY <1>2, <2>2, <3>1, ExecConstants DEF ExecInv, ExecType, Owns
      <4>2. QED  BY <4>1 DEF ExecInv, Allocated
    <3>2. QED  BY <1>2, <3>1 DEF Cr3Allocated
  <2>3. QED  BY <2>1, <2>2
<1>9. QED  BY <1>3, <1>5, <1>6, <1>7, <1>8 DEF ExecInv

(* Of the directories of other tasks none changes.                         *)
OthersKept == \A u \in Task \ {curr} : image'[pdbr[u]] = image[pdbr[u]]

(* What a step inside exec leaves alone.                                   *)
LEMMA GotoFrame ==
    ASSUME ExecInv, NEW t \in Task, NEW from, NEW to \in ExecPc, ExecGoto(t, from, to)
    PROVE  /\ curr = t /\ curr' = t /\ at[t] = from
           /\ SchedType' /\ Places'
           /\ at' \in [Task -> ExecPc] /\ at'[t] = to
           /\ \A u \in Task : u # t => at'[u] = at[u]
<1>1. UNCHANGED <<curr, status, runq, intr>> /\ curr = t
  BY DEF ExecGoto, schedVars
<1>2. SchedType' /\ Places'
  BY <1>1 DEF ExecInv, ExecType, SchedType, Places
<1>3. QED  BY <1>1, <1>2 DEF ExecInv, ExecType, ExecGoto

(* A step that only moves on, to a place before the directory is there or  *)
(* to the roll-back.                                                       *)
LEMMA MoveInv ==
    ASSUME ExecInv, NEW t \in Task, NEW from, NEW to \in {"create", "undefined", "rollback"},
           from # "user", ExecGoto(t, from, to),
           UNCHANGED <<pdbr, cr3, image, execLocals, program>>
    PROVE  ExecInv' /\ OthersKept
<1>1. to \in ExecPc
  BY DEF ExecPc
<1>2. /\ curr = t /\ curr' = t /\ at[t] = from
      /\ SchedType' /\ Places'
      /\ at' \in [Task -> ExecPc] /\ at'[t] = to
      /\ \A u \in Task : u # t => at'[u] = at[u]
  BY <1>1, GotoFrame
<1>3. UNCHANGED <<pdbr, cr3, image, old_pd, new_pd, loading, program>>
  BY DEF execLocals
<1>4. ExecType'
  BY <1>2, <1>3 DEF ExecInv, ExecType
<1>5. Allocated' /\ Apart' /\ Cr3Own'
  BY <1>2, <1>3 DEF ExecInv, Allocated, Apart, Cr3Own, Owns
<1>6. Cr3Allocated'
  BY <1>2, <1>3 DEF ExecInv, Cr3Allocated
<1>7. Stages'
  BY <1>2, <1>3 DEF ExecInv, Stages
<1>8. QED  BY <1>2, <1>3, <1>4, <1>5, <1>6, <1>7 DEF ExecInv, OthersKept

(* A step that stores v in the directory d, which is the new directory of  *)
(* the task or the one in cr3.                                             *)
LEMMA StoreInv ==
    ASSUME ExecInv, NEW t \in Task, NEW from, NEW to \in ExecPc \ {"user", "set_cr3", "set_pdbr"},
           from \in {"map", "load", "arguments"}, ExecGoto(t, from, to),
           NEW d \in {new_pd[t], cr3}, NEW v \in Image \ {"free"},
           image' = [image EXCEPT ![d] = v],
           program' \in [Task -> Program],
           UNCHANGED <<pdbr, cr3, execLocals>>
    PROVE  ExecInv' /\ OthersKept
<1>1. /\ curr = t /\ curr' = t /\ at[t] = from
      /\ SchedType' /\ Places'
      /\ at' \in [Task -> ExecPc] /\ at'[t] = to
      /\ \A u \in Task : u # t => at'[u] = at[u]
  BY GotoFrame
<1>2. UNCHANGED <<pdbr, cr3, old_pd, new_pd, loading>>
  BY DEF execLocals
<1>3. d \in Dir /\ image \in [Dir -> Image] /\ pdbr \in [Task -> Pd]
  BY DEF ExecInv, ExecType
<1>4. ExecType'
  BY <1>1, <1>2, <1>3 DEF ExecInv, ExecType
<1>5. /\ \A e \in Dir : image'[e] = "free" => image[e] = "free"
      /\ \A e \in Dir : e # d => image'[e] = image[e]
  BY <1>3
<1>6. \A u \in Task : Owns(u, d) => u = t
  <2>1. CASE d = cr3
    BY <1>1, <2>1 DEF ExecInv, Cr3Own
  <2>2. CASE d = new_pd[t]
    <3>1. d \in Pd /\ Owns(t, d)
      BY <1>1, <2>2, ExecConstants DEF ExecInv, Stages, Owns
    <3>2. QED  BY <3>1 DEF ExecInv, Apart
  <2>3. QED  BY <2>1, <2>2
<1>7. OthersKept
  <2>1. ASSUME NEW u \in Task, u # t  PROVE pdbr[u] # d /\ pdbr[u] \in Dir
    BY <1>3, <1>6, <2>1, ExecConstants DEF Owns, Dir
  <2>2. QED  BY <1>1, <1>5, <2>1 DEF OthersKept
<1>8. Allocated' /\ Apart' /\ Cr3Own'
  BY <1>1, <1>2, <1>5 DEF ExecInv, Allocated, Apart, Cr3Own, Owns, Dir
<1>9. Cr3Allocated'
  <2>1. cr3 \in Dir /\ image[cr3] # "free"
    BY <1>1 DEF ExecInv, ExecType, Cr3Allocated
  <2>2. QED  BY <1>2, <1>5, <2>1 DEF Cr3Allocated
<1>10. Stages'
  BY SMTT(30), <1>1, <1>2 DEF ExecInv, Stages
<1>11. QED  BY <1>1, <1>4, <1>7, <1>8, <1>9, <1>10 DEF ExecInv

(* do_exec saves cr3, which no other task owns.                            *)
LEMMA DoExecInv ==
    ASSUME ExecInv, ExecSound, NEW t \in Task, NEW p \in Program, do_exec(t, p)
    PROVE  ExecInv' /\ OthersKept
<1>1. /\ curr = t /\ curr' = t /\ at[t] = "user"
      /\ SchedType' /\ Places'
      /\ at' \in [Task -> ExecPc] /\ at'[t] = "args"
      /\ \A u \in Task : u # t => at'[u] = at[u]
  BY GotoFrame DEF do_exec, ExecPc
<1>2. /\ old_pd' = [old_pd EXCEPT ![t] = cr3]
      /\ loading' = [loading EXCEPT ![t] = p]
      /\ UNCHANGED <<pdbr, cr3, image, new_pd, program>>
  BY DEF do_exec
<1>3. image[cr3] # "free"
  <2>1. image[cr3] = program[t]
    BY <1>1 DEF ExecSound, Home
  <2>2. program[t] \in Program
    BY DEF ExecInv, ExecType
  <2>3. QED  BY <2>1, <2>2, ExecConstants
<1>4. ExecType'
  BY <1>1, <1>2 DEF ExecInv, ExecType
<1>5. \A u \in Task, d \in Pd : Owns(u, d)' => Owns(u, d) \/ (u = t /\ d = cr3)
  <2>1. ASSUME NEW u \in Task, NEW d \in Pd, Owns(u, d)'
        PROVE  Owns(u, d) \/ (u = t /\ d = cr3)
    <3>1. /\ u = t => old_pd'[u] = cr3
          /\ u # t => old_pd'[u] = old_pd[u]
      BY <1>2 DEF ExecInv, ExecType
    <3>2. pdbr' = pdbr /\ new_pd' = new_pd
      BY <1>2
    <3>3. QED  BY ONLY <2>1, <3>1, <3>2 DEF Owns
  <2>2. QED  BY <2>1
<1>6. Allocated' /\ Apart' /\ Cr3Own'
  <2>1. Allocated'
    BY <1>2, <1>3, <1>5 DEF ExecInv, Allocated
  <2>2. Apart'
    BY <1>1, <1>5 DEF ExecInv, Apart, Cr3Own
  <2>3. Cr3Own'
    BY <1>1, <1>2 DEF ExecInv, ExecType, Cr3Own, Owns
  <2>4. QED  BY <2>1, <2>2, <2>3
<1>7. Cr3Allocated'
  BY <1>2, <1>3 DEF Cr3Allocated
<1>8. Stages'
  BY <1>1, <1>2 DEF ExecInv, ExecType, Stages
<1>9. QED  BY <1>1, <1>2, <1>4, <1>6, <1>7, <1>8 DEF ExecInv, OthersKept

(* A block that was free belongs to no task, and cr3 does not point to it. *)
LEMMA CreateInv ==
    ASSUME ExecInv, NEW t \in Task, create_page_directory(t)
    PROVE  ExecInv' /\ OthersKept
<1>1. /\ curr = t /\ curr' = t /\ at[t] = "create"
      /\ SchedType' /\ Places'
      /\ at' \in [Task -> ExecPc] /\ at'[t] = "set_cr3"
      /\ \A u \in Task : u # t => at'[u] = at[u]
  BY GotoFrame DEF create_page_directory, ExecPc
<1>2. PICK d \in Pd : /\ image[d] = "free"
                     /\ new_pd' = [new_pd EXCEPT ![t] = d]
                     /\ image' = [image EXCEPT ![d] = "empty"]
  <2>1. (CHOOSE d \in Pd : image[d] = "free") \in Pd
    BY DEF create_page_directory
  <2>2. image[CHOOSE d \in Pd : image[d] = "free"] = "free"
    BY DEF create_page_directory
  <2>3. new_pd'[t] = CHOOSE d \in Pd : image[d] = "free"
    BY DEF create_page_directory, ExecInv, ExecType
  <2>4. image' = [image EXCEPT ![new_pd'[t]] = "empty"]
    BY DEF create_page_directory
  <2>5. new_pd' = [new_pd EXCEPT ![t] = CHOOSE d \in Pd : image[d] = "free"]
    BY DEF create_page_directory
  <2>6. QED  BY ONLY <2>1, <2>2, <2>3, <2>4, <2>5
<1>3. UNCHANGED <<pdbr, cr3, old_pd, loading, program>>
  BY DEF create_page_directory
<1>4. ExecType'
  BY <1>1, <1>2, <1>3 DEF ExecInv, ExecType, Dir, Image
<1>5. /\ \A u \in Task : ~Owns(u, d)
      /\ cr3 # d
  BY <1>1, <1>2 DEF ExecInv, Allocated, Cr3Allocated
<1>6. \A u \in Task, e \in Dir : Owns(u, e)' => Owns(u, e) \/ (u = t /\ e = d)
  <2>1. ASSUME NEW u \in Task, NEW e \in Dir, Owns(u, e)'
        PROVE  Owns(u, e) \/ (u = t /\ e = d)
    <3>1. /\ u = t => new_pd'[u] = d
          /\ u # t => new_pd'[u] = new_pd[u]
      BY <1>2 DEF ExecInv, ExecType
    <3>2. pdbr' = pdbr /\ old_pd' = old_pd
      BY <1>3
    <3>3. QED  BY ONLY <2>1, <3>1, <3>2 DEF Owns
  <2>2. QED  BY <2>1
<1>7. /\ \A e \in Dir : image'[e] = "free" => image[e] = "free"
      /\ \A e \in Dir : e # d => image'[e] = image[e]
  BY <1>2 DEF ExecInv, ExecType, Dir
<1>8. Allocated'
  BY <1>2, <1>6, <1>7 DEF ExecInv, ExecType, Allocated, Dir
<1>9. Apart'
  BY <1>5, <1>6 DEF ExecInv, Apart, Dir
<1>10. Cr3Own'
  BY <1>1, <1>3, <1>6 DEF ExecInv, ExecType, Cr3Own
<1>11. Cr3Allocated'
  <2>1. cr3 \in Dir /\ image[cr3] # "free"
    BY <1>1 DEF ExecInv, ExecType, Cr3Allocated
  <2>2. QED  BY <1>3, <1>7, <2>1 DEF Cr3Allocated
<1>12. Stages'
  <2>1. old_pd[t] # d
    BY SMTT(30), <1>2, <1>5, ExecConstants DEF Owns
  <2>2. QED  BY SMTT(30), <1>1, <1>2, <1>3, <2>1 DEF ExecInv, ExecType, Stages
<1>13. OthersKept
  <2>1. ASSUME NEW u \in Task  PROVE pdbr[u] # d /\ pdbr[u] \in Dir
    BY <1>5, ExecConstants DEF ExecInv, ExecType, Owns, Dir
  <2>2. QED  BY <1>7, <2>1 DEF OthersKept
<1>14. QED  BY <1>1, <1>4, <1>8, <1>9, <1>10, <1>11, <1>12, <1>13 DEF ExecInv

(* The new directory goes into cr3, then into the thread.                  *)
LEMMA SetCurPdInv ==
    ASSUME ExecInv, NEW t \in Task, set_cur_pd(t)
    PROVE  ExecInv' /\ OthersKept
<1>1. /\ curr = t /\ curr' = t /\ at[t] = "set_cr3"
      /\ SchedType' /\ Places'
      /\ at' \in [Task -> ExecPc] /\ at'[t] = "set_pdbr"
      /\ \A u \in Task : u # t => at'[u] = at[u]
  BY GotoFrame DEF set_cur_pd, ExecPc
<1>2. cr3' = new_pd[t] /\ UNCHANGED <<pdbr, image, old_pd, new_pd, loading, program>>
  BY DEF set_cur_pd, execLocals
<1>3. new_pd[t] \in Pd /\ Owns(t, new_pd[t])
  BY <1>1, ExecConstants DEF ExecInv, Stages, Owns
<1>4. ExecType'
  BY SMTT(30), <1>1, <1>2, <1>3 DEF ExecInv, ExecType
<1>5. Allocated' /\ Apart'
  BY SMTT(60), <1>2 DEF ExecInv, Allocated, Apart, Owns
<1>6. Cr3Own'
  <2>1. \A u \in Task : Owns(u, new_pd[t]) => u = t
    BY <1>3 DEF ExecInv, Apart
  <2>2. QED  BY <1>1, <1>2, <2>1 DEF Cr3Own, Owns
<1>7. Cr3Allocated'
  BY <1>2, <1>3 DEF ExecInv, Allocated, Cr3Allocated
<1>8. Stages'
  BY <1>1, <1>2 DEF ExecInv, Stages
<1>9. QED  BY <1>1, <1>2, <1>4, <1>5, <1>6, <1>7, <1>8 DEF ExecInv, OthersKept

LEMMA SetPdbrInv ==
    ASSUME ExecInv, NEW t \in Task, set_pdbr(t)
    PROVE  ExecInv' /\ OthersKept
<1>1. /\ curr = t /\ curr' = t /\ at[t] = "set_pdbr"
      /\ SchedType' /\ Places'
      /\ at' \in [Task -> ExecPc] /\ at'[t] = "map"
      /\ \A u \in Task : u # t => at'[u] = at[u]
  BY GotoFrame DEF set_pdbr, ExecPc
<1>2. /\ pdbr' = [pdbr EXCEPT ![t] = new_pd[t]]
      /\ UNCHANGED <<cr3, image, old_pd, new_pd, loading, program>>
  BY DEF set_pdbr, execLocals
<1>3. new_pd[t] \in Pd
  BY <1>1 DEF ExecInv, Stages
<1>4. ExecType'
  BY <1>1, <1>2, <1>3 DEF ExecInv, ExecType
<1>5. \A u \in Task, d \in Dir : Owns(u, d)' => Owns(u, d)
  <2>1. ASSUME NEW u \in Task, NEW d \in Dir, Owns(u, d)'  PROVE Owns(u, d)
    <3>1. /\ u = t => pdbr'[u] = new_pd[t]
          /\ u # t => pdbr'[u] = pdbr[u]
      BY <1>2 DEF ExecInv, ExecType
    <3>2. old_pd' = old_pd /\ new_pd' = new_pd
      BY <1>2
    <3>3. QED  BY ONLY <2>1, <3>1, <3>2 DEF Owns
  <2>2. QED  BY <2>1
<1>6. Allocated' /\ Apart' /\ Cr3Own'
  BY <1>1, <1>2, <1>5 DEF ExecInv, ExecType, Allocated, Apart, Cr3Own, Dir
<1>7. Cr3Allocated'
  BY <1>1, <1>2 DEF ExecInv, Cr3Allocated
<1>8. Stages'
  BY SMTT(30), <1>1, <1>2 DEF ExecInv, ExecType, Stages
<1>9. QED  BY SMTT(30), <1>1, <1>2, <1>4, <1>6, <1>7, <1>8 DEF ExecInv, OthersKept

(* A return forgets the locals: the task owns less than before.            *)
LEMMA ReturnInv ==
    ASSUME ExecInv, NEW t \in Task, NEW from, ExecGoto(t, from, "user"), Returns(t),
           UNCHANGED <<pdbr, program>>,
           \/ UNCHANGED <<cr3, image>>
           \/ cr3' = old_pd[t] /\ UNCHANGED image
           \/ /\ pdbr[t] # old_pd[t] /\ UNCHANGED cr3
              /\ image' = [image EXCEPT ![old_pd[t]] = "free"]
    PROVE  ExecInv' /\ OthersKept
<1>1. /\ curr = t /\ curr' = t
      /\ SchedType' /\ Places'
      /\ at' \in [Task -> ExecPc] /\ at'[t] = "user"
      /\ \A u \in Task : u # t => at'[u] = at[u]
  BY GotoFrame DEF ExecPc
<1>2. /\ old_pd' = [old_pd EXCEPT ![t] = KernelPd]
      /\ new_pd' = [new_pd EXCEPT ![t] = KernelPd]
      /\ UNCHANGED <<pdbr, program, loading>>
  BY DEF Returns
<1>3. ExecType'
  BY SMTT(60), <1>1, <1>2 DEF ExecInv, ExecType, Dir, Image
<1>4. /\ \A u \in Task, d \in Dir : Owns(u, d)' => Owns(u, d)
      /\ \A d \in Dir : Owns(t, d)' => d = pdbr[t]
  <2>1. ASSUME NEW u \in Task, NEW d \in Dir, Owns(u, d)'
        PROVE  Owns(u, d) /\ (u = t => d = pdbr[t])
    <3>1. /\ u = t => old_pd'[u] = KernelPd /\ new_pd'[u] = KernelPd
          /\ u # t => old_pd'[u] = old_pd[u] /\ new_pd'[u] = new_pd[u]
      BY <1>2 DEF ExecInv, ExecType
    <3>2. UNCHANGED pdbr
      BY <1>2
    <3>3. QED  BY ONLY <2>1, <3>1, <3>2 DEF Owns
  <2>2. QED  BY <2>1
<1>5. \A u \in Task : u # t => ~Owns(u, old_pd[t])
  <2>1. ASSUME NEW u \in Task, Owns(u, old_pd[t])  PROVE u = t
    <3>1. old_pd[t] \in Pd /\ Owns(t, old_pd[t])
      BY <2>1 DEF ExecInv, ExecType, Owns, Dir
    <3>2. QED  BY <2>1, <3>1 DEF ExecInv, Apart
  <2>2. QED  BY <2>1
<1>6. \A u \in Task, d \in Pd : Owns(u, d)' => image'[d] = image[d]
  <2>1. ASSUME NEW u \in Task, NEW d \in Pd, Owns(u, d)', pdbr[t] # old_pd[t]
        PROVE  d # old_pd[t] /\ d \in Dir
    BY SMTT(30), <1>4, <1>5, <2>1 DEF Dir
  <2>2. QED  BY <2>1 DEF ExecInv, ExecType
<1>7. Allocated' /\ Apart'
  BY <1>4, <1>6 DEF ExecInv, Allocated, Apart, Dir
<1>8. Cr3Own'
  <2>1. CASE cr3' = old_pd[t]
    BY <1>1, <1>4, <1>5, <2>1 DEF ExecInv, ExecType, Cr3Own
  <2>2. CASE UNCHANGED cr3
    BY <1>1, <1>4, <2>2 DEF ExecInv, ExecType, Cr3Own
  <2>3. QED  BY <2>1, <2>2
<1>9. Cr3Allocated'
  BY <1>1 DEF Cr3Allocated
<1>10. Stages'
  BY <1>1, <1>2 DEF ExecInv, ExecType, Stages
<1>11. OthersKept
  <2>1. ASSUME NEW u \in Task, u # t  PROVE pdbr[u] \in Pd /\ Owns(u, pdbr[u])'
    <3>1. pdbr[u] \in Pd
      BY DEF ExecInv, ExecType
    <3>2. pdbr[u] # KernelPd
      BY <3>1, ExecConstants
    <3>3. UNCHANGED pdbr
      BY <1>2
    <3>4. QED  BY ONLY <3>1, <3>2, <3>3 DEF Owns
  <2>2. QED  BY <1>1, <1>6, <2>1 DEF OthersKept
<1>12. QED  BY SMTT(30), <1>1, <1>3, <1>7, <1>8, <1>9, <1>10, <1>11 DEF ExecInv

(* Every step of exec.                                                     *)
LEMMA ExecStepInv ==
    ASSUME ExecInv, ExecSound, NEW t \in Task, ExecStep(t)
    PROVE  ExecInv' /\ OthersKept
<1>1. ASSUME NEW p \in Program, do_exec(t, p)  PROVE ExecInv' /\ OthersKept
  BY <1>1, DoExecInv
<1>2. CASE copy_args(t) \/ copy_args_torn(t) \/ no_page_directory(t)
  BY <1>2, MoveInv DEF copy_args, copy_args_torn, no_page_directory
<1>3. CASE copy_args_no_vector(t)
  BY <1>3, ReturnInv DEF copy_args_no_vector
<1>4. CASE create_page_directory(t)
  BY <1>4, CreateInv
<1>5. CASE set_cur_pd(t)
  BY <1>5, SetCurPdInv
<1>6. CASE set_pdbr(t)
  BY <1>6, SetPdbrInv
<1>7. CASE setup_page_table(t)
  <2>1. program' \in [Task -> Program] /\ UNCHANGED <<pdbr, cr3, execLocals>>
    BY <1>7 DEF setup_page_table, ExecInv, ExecType
  <2>2. \E to \in {"load", "rollback"}, v \in {"mapped", "torn"} :
            ExecGoto(t, "map", to) /\ image' = [image EXCEPT ![new_pd[t]] = v]
    BY <1>7 DEF setup_page_table
  <2>3. QED  BY <2>1, <2>2, StoreInv DEF ExecPc, Image
<1>8. CASE load_program(t)
  <2>1. program' \in [Task -> Program] /\ UNCHANGED <<pdbr, cr3, execLocals>>
    BY <1>8 DEF load_program, ExecInv, ExecType
  <2>2. \E to \in {"arguments", "rollback"}, v \in {loading[t], "torn"} :
            ExecGoto(t, "load", to) /\ image' = [image EXCEPT ![cr3] = v]
    BY <1>8 DEF load_program, ExecInv, ExecType
  <2>3. loading[t] \in Image \ {"free"}
    BY ExecConstants DEF ExecInv, ExecType, Image
  <2>4. QED  BY <2>1, <2>2, <2>3, StoreInv DEF ExecPc, Image
<1>9. CASE copy_user_args(t)
  <2>1. CASE ExecGoto(t, "arguments", "rollback") /\ UNCHANGED <<image, program>>
    BY <1>9, <2>1, MoveInv DEF copy_user_args
  <2>2. CASE /\ ExecGoto(t, "arguments", "free")
             /\ image' = [image EXCEPT ![cr3] = IF @ = loading[t] THEN @ ELSE "torn"]
             /\ program' = [program EXCEPT ![t] = loading[t]]
    <3>1. program' \in [Task -> Program] /\ UNCHANGED <<pdbr, cr3, execLocals>>
      BY <1>9, <2>2 DEF copy_user_args, ExecInv, ExecType
    <3>2. \E v \in {loading[t], "torn"} : image' = [image EXCEPT ![cr3] = v]
      BY <2>2 DEF ExecInv, ExecType
    <3>3. loading[t] \in Image \ {"free"}
      BY ExecConstants DEF ExecInv, ExecType, Image
    <3>4. QED  BY <2>2, <3>1, <3>2, <3>3, StoreInv DEF ExecPc, Image
  <2>3. QED  BY <1>9, <2>1, <2>2 DEF copy_user_args
<1>10. CASE exec_done(t)
  <2>1. pdbr[t] # old_pd[t]
    BY <1>10 DEF exec_done, ExecGoto, ExecInv, Stages
  <2>2. QED  BY <1>10, <2>1, ReturnInv DEF exec_done
<1>11. CASE exec_failed(t)
  BY <1>11, ReturnInv DEF exec_failed
<1>12. QED
  BY <1>1, <1>2, <1>3, <1>4, <1>5, <1>6, <1>7, <1>8, <1>9, <1>10, <1>11 DEF ExecStep

LEMMA ExecNextInv ==
    ASSUME ExecInv, [ExecNext]_execVars
    PROVE  ExecInv' /\ (execVars' # execVars => OthersKept)
<1>1. CASE switch_to_thread
  BY <1>1, SwitchInv DEF switch_to_thread, OthersKept
<1>2. ASSUME NEW t \in Task, ExecSound, ExecStep(t)  PROVE ExecInv' /\ OthersKept
  BY <1>2, ExecStepInv
<1>3. CASE UNCHANGED execVars
  <2>1. /\ UNCHANGED <<curr, status, runq, intr, at, pdbr, cr3, image>>
        /\ UNCHANGED <<old_pd, new_pd, loading, program>>
    BY <1>3 DEF execVars, schedVars, execLocals
  <2>2. ExecType'
    BY <2>1 DEF ExecInv, ExecType, SchedType
  <2>3. Places'
    BY <2>1 DEF ExecInv, Places
  <2>4. Allocated' /\ Apart'
    BY <2>1 DEF ExecInv, Allocated, Apart, Owns
  <2>5. Cr3Own' /\ Cr3Allocated' /\ Stages'
    BY <2>1 DEF ExecInv, Cr3Own, Cr3Allocated, Stages, Owns
  <2>6. QED  BY <1>3, <2>2, <2>3, <2>4, <2>5 DEF ExecInv
<1>4. QED  BY <1>1, <1>2, <1>3 DEF ExecNext

(* exec of one task never changes what the page directory of another task  *)
(* maps: not when it stores through cr3, not when it frees the old         *)
(* directory, and not when it fails, wherever the timer interrupts it.     *)
THEOREM ExecKeepsOthersTheorem == ExecSpec => ExecKeepsOthers
<1>1. ExecSpec => []ExecInv
  <2>1. ExecInit => ExecInv
    BY ExecInitInv
  <2>2. ExecInv /\ [ExecNext]_execVars => ExecInv'
    BY ExecNextInv
  <2>3. QED  BY <2>1, <2>2, PTL DEF ExecSpec
<1>2. ExecInv /\ [ExecNext]_execVars
          => [\A t \in Task \ {curr} : image'[pdbr[t]] = image[pdbr[t]]]_execVars
  BY ExecNextInv DEF OthersKept
<1>3. QED  BY <1>1, <1>2, PTL DEF ExecSpec, ExecKeepsOthers
=============================================================================
