SPECIFICATION FairSpec
CONSTANTS
  Threads = {t1, t2}
  Main = Main
  Plain = {"smsxml"}
  Sources <- MCSources
  Mime = "mimetypes"
  Contacts = "contactsxml"
  End = "END_OF_POPEN"
  NoOne = NoOne
  NoQuery = NoQuery
  MimeRows = 2
  MaxRows = 1
  PipeSize = 1
INVARIANTS
  TypeOK
  OwnAnswer
  NamesReady
  AlarmIsCurrent
PROPERTIES
  MainComesBack
