SPECIFICATION Spec
CONSTANTS
  Names = {u1, u2}
  Hashes = {h1, h2}
  Perms = {All, some}
  All = All
  Keep = Keep
  NoPass = NoPass
  Editors = {e1, e2}
  Readers = {r1}
  Inodes = {1, 2, 3, 4, 5, 6, 7}
  NoFile = NoFile
  NoEntry = NoEntry
  NoOp = NoOp
  MaxLines = 1
  MaxEdits = 2
  MaxKills = 1
SYMMETRY UsersSymmetry
CHECK_DEADLOCK FALSE
INVARIANTS
  ListIsStable
  ListOnDisk
PROPERTIES
  ImplementsUserList
