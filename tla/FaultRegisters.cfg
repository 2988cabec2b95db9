SPECIFICATION TrapsSpec
CONSTANTS
  Tid = {p1}
  FirstTid = p1
  NoTid = NoTid
INVARIANT FaultKeepsRegisters
CHECK_DEADLOCK FALSE
