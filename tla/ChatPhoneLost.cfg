SPECIFICATION Spec
CONSTANTS
  t1 = t1
  t2 = t2
  ann = ann
  bob = bob
  Tabs = {}
  Phones = {p}
  Accounts = {ann}
  Owner <- MCOwner
  PhoneUser = phone
  Texts = {a}
  MaxMsgs = 2
  MaxIds = 3
  MaxWriters = 1
  EarlyRequests = FALSE
  Garbage = {}
INVARIANT
  PhoneReadMeansShown
