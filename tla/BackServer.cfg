SPECIFICATION Spec
CONSTANTS
  Conns = {c1, c2, c3, c4}
  backmaxconn = 3
  MaxErrors = 1
  Ports = {P1, P2}
  PORT1 = P1
  PORT2 = P2
  GoodPorts = {P1}
  Spurious = FALSE
  MaxSwitches = 1
SYMMETRY ConnSymmetry
CHECK_DEADLOCK FALSE
INVARIANTS
  TypeOK
  Balanced
  WindowBound
  IdleBound
  SleeperHasWaker
