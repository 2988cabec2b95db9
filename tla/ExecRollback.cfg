SPECIFICATION ExecSpec
CONSTANTS
  Thread = {t1, t2}
  Task = {t1, t2}
  Idle = Idle
  NoThread = NoThread
  Pd = {d1, d2, d3, d4}
  KernelPd = kernel
  Program = {"sh", "cat"}
  First = "sh"
INVARIANT FailedExecRollsBack
CHECK_DEADLOCK FALSE
