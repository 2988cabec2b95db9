SPECIFICATION ProgramsSpec
CONSTANTS
  Thread = {w1, r1, r2, r3}
  Cond = {"sem", "readers", "writers", "group", r1, r2, r3}
  Count = 2
  Writer = {w1}
  Main = w1
  Worker = {r1, r2, r3}
  NoWorker = null
  HALF_BITS = 2
  SMALL = 4
  LARGE = 7
  Keys = {1, 2, 3}
  MaxLength = 8
INVARIANTS NoLostSignal HoldersExact ZombieQueue JoinGetsStatus QuotientExact SortExact
PROPERTIES WriterServed JoinReturns
