SPECIFICATION RecordsSpec
CONSTANTS
  a1 = a1  a2 = a2  m1 = m1  m2 = m2  m3 = m3  m4 = m4  j1 = j1  p1 = p1  p2 = p2
  x1 = x1  x2 = x2  x3 = x3  b1 = b1  b2 = b2
  Account = {a1, a2}
  Mail = {m1, m2, m3, m4}
  Job = {j1}
  Process = {p1, p2}
  FetchLimit = 2
  MaxDocs = 2
  MaxReminders = 1
  MaxCalls = 2
  MailAccount <- MCMailAccount
  MailUid <- MCMailUid
  Header <- MCHeader
  NoHeader = NoHeader
  MailEvent <- MCMailEvent
  Names <- MCNames
  NoJob = NoJob
  BoardJob = {j1}
  BoardRequest = {p1, p2}
  Patchable = {"interview"}
  MoveColumns = {"fetched", "queued", "interview"}
  WrittenStatus = {"applied", "applying"}
  BoardApp = {b1, b2}
  NoBoardApp = NoBoardApp
  MaxSaves = 2
  Posting = {x1, x2, x3}
  Intake = {p1, p2}
  Url <- MCUrl
  Hash <- MCHash
  ExtId <- MCExtId
  NoUrl = NoUrl
  MaxStored = 2
  MaxFound = 2
  MaxIntakes = 2
INVARIANTS
  RecordTypes
   StoredOncePerRequest PendingIsHeld UserSettingWins
  ListShowsMoves
  StoredOnce StoredIsPublished
PROPERTIES OlderMailYields TakenBackIsCancelled
SYMMETRY MCSymmetry
CHECK_DEADLOCK FALSE
