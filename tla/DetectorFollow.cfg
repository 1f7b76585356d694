\* Both tasks, all commands, refused writes and a restart.
SPECIFICATION Spec
CONSTANTS
  a = a  b = b
  Addr = {a, b}
  Ops = {"add", "remove", "clear"}
  Faults = {"lock", "open"}
  MaxOps = 5
  MaxReboot = 1
  Absent = Absent  NoAddr = NoAddr
SYMMETRY AddrSymmetry
INVARIANTS FileFollowsMap ListKept NoGhost DiscoveryLogged ReasonBeforeErase
CHECK_DEADLOCK FALSE
