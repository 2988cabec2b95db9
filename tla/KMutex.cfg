CONSTANTS
    Thread = {t1, t2, t3}
    Idle = idle
    NoThread = null
    NMutex = 2
SPECIFICATION FairSpec
INVARIANTS MutualExclusion OnePlace NoLostWakeup NoLockDeadlock
PROPERTIES ImplementsLock RunnableRuns
