SPECIFICATION Spec
CONSTANTS
  Threads = {t1, t2}
  MaxSessions = 2
  Fds = {1, 2}
  IdleLimit = 2
  NoOne = NoOne
  Free = Free
  Other = Other
  Leaked = Leaked
SYMMETRY TerminalSymmetry
INVARIANTS
  DescriptorsAccounted
PROPERTIES
  ReaperSpares
