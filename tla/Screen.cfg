SPECIFICATION Spec
CONSTANTS
  Workers = {w1, w2}
  Pics = {A, B}
  Blank = Blank
  Rows = 2
  Screencap = FALSE
  MaxScans = 0
  Requests = {"shot", "wait"}
  NoOne = NoOne
  Watcher = Watcher
SYMMETRY ScreenSymmetry
INVARIANTS
  FreshPicture
