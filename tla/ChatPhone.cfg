SPECIFICATION FairSpec
CONSTANTS
  t1 = t1
  t2 = t2
  ann = ann
  bob = bob
  Tabs = {t1}
  Phones = {p}
  Accounts = {ann}
  Owner <- MCOwner
  PhoneUser = phone
  Texts = {a}
  MaxMsgs = 1
  MaxIds = 3
  MaxWriters = 2
  EarlyRequests = FALSE
  Garbage = {}
INVARIANTS
  NoStaleWait
  CountIsVersion
PROPERTY
  UnreadIsAnnounced
