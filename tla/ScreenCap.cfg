SPECIFICATION Spec
CONSTANTS
  Workers = {w1, w2}
  Pics = {A, B}
  Blank = Blank
  Rows = 1
  Screencap = TRUE
  MaxScans = 1
  Requests = {"shot", "wait", "diff", "stop"}
  NoOne = NoOne
  Watcher = Watcher
SYMMETRY ScreenSymmetry
INVARIANTS
  TypeOK
  NoOrphanLock
