SPECIFICATION ThreadsSpec
CONSTANTS
  Thread = {t1, t2, t3}
  Task = {a1, a2}
  Frame = {f1, f2, f3}
  NoThread = NoThread
  NoTask = NoTask
  NoFrame = NoFrame
  NPages = 1
  TextPages = {}
  DataPages = {1}
  MaxThreads = 2
  Value = {0, 1}
SYMMETRY Symmetry
CHECK_DEADLOCK FALSE
INVARIANT WritableIsPrivate
