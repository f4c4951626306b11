SPECIFICATION FairSpec
CONSTANTS
  Conns = {c1, c2}
  backmaxconn = 2
  MaxErrors = 1
  Ports = {P1, P2}
  PORT1 = P1
  PORT2 = P2
  GoodPorts = {P1}
  Spurious = TRUE
  MaxSwitches = 1
CHECK_DEADLOCK FALSE
PROPERTIES
  Resumes
  Reconnects
