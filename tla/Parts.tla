------------------------------- MODULE Parts -------------------------------
(***************************************************************************)
(* The parts that work alone, side by side: the frame allocator, the       *)
(* kernel heap, a program's heap, the lists, the threads of a task, the    *)
(* decoder of scan codes, the keyboard buffer with its reader, and the     *)
(* console.  No two of them share a variable; the decoder hands the buffer *)
(* one character at a time, and the buffer the console one byte, which     *)
(* each takes whatever it is and whenever it comes, and nothing comes      *)
(* back.  So what holds of each alone holds of every interleaving of them, *)
(* and a behaviour exercises one of them, part, from its initial state.    *)
(***************************************************************************)
EXTENDS FrameAlloc, Lmm, MmMalloc, ListUse, Threads, Scancode, Keyboard, Console

VARIABLE part

partVars == <<vars, lmmVars, mmVars, listVars, threadVars, scancodeVars, keyboardVars,
              consoleVars, part>>

PartsInit ==
    /\ part \in {"frames", "lmm", "mm", "lists", "threads", "scancode", "keyboard", "console"}
    /\ Init /\ LmmInit /\ MmInit /\ ListInit /\ ThreadsInit
    /\ ScancodeInit /\ KeyboardInit /\ ConsoleInit

(* Some parts may come to rest: a program whose mem_init finds no page, a  *)
(* task that has vanished, and a keyboard that is no longer Sound.         *)
Rest == part \in {"mm", "threads", "keyboard"} /\ UNCHANGED partVars

Only(p, v) == IF part = p THEN TRUE ELSE UNCHANGED v

PartsNext ==
    \/ /\ \/ part = "frames" /\ Next
          \/ part = "lmm" /\ LmmNext
          \/ part = "mm" /\ MmNext
          \/ part = "lists" /\ ListNext
          \/ part = "threads" /\ ThreadsNext
          \/ part = "scancode" /\ ScancodeNext
          \/ part = "keyboard" /\ KeyboardNext
          \/ part = "console" /\ ConsoleNext
       /\ Only("frames", vars) /\ Only("lmm", lmmVars) /\ Only("mm", mmVars)
       /\ Only("lists", listVars) /\ Only("threads", threadVars)
       /\ Only("scancode", scancodeVars) /\ Only("keyboard", keyboardVars)
       /\ Only("console", consoleVars)
       /\ UNCHANGED part
    \/ Rest

PartsSpec == PartsInit /\ [][PartsNext]_partVars
=============================================================================
