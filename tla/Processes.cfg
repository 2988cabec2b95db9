SPECIFICATION ProcessesSpec
CONSTANTS
  Thread = {t1, t2, t3}
  Idle = Idle
  NoThread = NoThread
  MaxInt = 7
  MaxTicks = 5
  Ticks = {0, 1, 2, 3, 7}
  Pd = {d1, d2, d3, d4}
  Task = {t1, t2}
  KernelPd = kernel
  Program = {"sh"}
  First = "sh"
  Tid = {p1, p2}
  FirstTid = p1
  NoTid = NoThread
INVARIANTS InOnePlace SleepqSorted RegistersBack
PROPERTIES SleeperWakes ExecKeepsOthers
CHECK_DEADLOCK FALSE
