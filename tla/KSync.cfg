SPECIFICATION Spec
CONSTANTS
  Thread = {t1, t2, t3}
  Cond = {t1, t2, t3, sem}
  Semaphore = {sem}
  NoThread = NoThread
  Count = 1
  MaxCount = 2
INVARIANTS ScheduledOnce SuccessWakes
PROPERTIES WokenRuns SignalServes
CHECK_DEADLOCK FALSE
