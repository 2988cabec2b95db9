SPECIFICATION TasksSpec
CONSTANTS
  Thread = {t1, t2}
  Task = {a1, a2}
  Frame = {f1, f2, f3}
  NoThread = NoThread
  NoTask = NoTask
  NoFrame = NoFrame
  NPages = 3
  TextPages = {1}
  DataPages = {}
  MaxThreads = 1
  Value = {0, 1}
  Relative = {f1, f2, f3, init}
  InitTask = init
SYMMETRY Symmetry
CHECK_DEADLOCK FALSE
INVARIANTS RefCountsExact WritableIsPrivate MemoryIsKept NoFrameDeadlock RegionsWhole ReapedOnce NoChildLost
