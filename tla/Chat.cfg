SPECIFICATION FairSpec
CONSTANTS
  t1 = t1
  t2 = t2
  ann = ann
  bob = bob
  Tabs = {t1}
  Phones = {}
  Accounts = {ann}
  Owner <- MCOwner
  PhoneUser = phone
  Texts = {a, b}
  MaxMsgs = 2
  MaxIds = 4
  MaxWriters = 1
  EarlyRequests = FALSE
  Garbage = {}
INVARIANTS
  TypeOK
  TabShowsPrefix
  TabReadMeansShown
  FileIsCurrent
  ReadBound
  FileBound
PROPERTIES
  OnlyClearForgets
  ImplementsSharedLog
  Delivered
  StopFinishes
