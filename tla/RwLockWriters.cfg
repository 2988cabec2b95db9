SPECIFICATION Spec
CONSTANTS
  Thread = {w1, w2}
  Cond = {"sem", "readers", "writers"}
  Count = 1
  Writer = {w1, w2}
INVARIANT OneWriter
