SPECIFICATION Spec
CONSTANTS
  Thread = {init, a1}
  Cond = {init, a1}
  InitTask = init
  NoThread = NoThread
INVARIANT SleepsOnlyWithoutDead
CHECK_DEADLOCK FALSE
