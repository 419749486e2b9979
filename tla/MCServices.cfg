SPECIFICATION ServicesSpec
CONSTANTS
  s1 = s1  s2 = s2  n1 = n1  n2 = n2
  Email = {e1}
  SessionRequest = {s1, s2}
  AccessLife = 2
  RefreshLife = 2
  MaxPairs = 2
  MaxTime = 2
  GuardedRequest = {s1, s2}
  IdemKey = {k1}
  NoKey = NoKey
  RateLimit = 2
  RateWindow = 3
  MaxLag = 1
  MaxTicks = 4
  Caller = {s1, s2}
  Threshold = 2
  Recovery = 2
  MaxFailures = 3
  MaxBeats = 4
  Socket = {s1, s2}
  Notice = {n1, n2}
  Attempts = 3
  WizardSteps = 2
  MaxPages = 3
  LoginAttempts = 3
  Tenant = {t1, t2}
  Run = {s1, s2}
  RunAttempts = 2
  MaxAge = 3
  MaxChanges = 1
INVARIANTS
  ServiceTypes
  SpentOnce LoggedOutStaysOut
  ExecutedOnce WindowHolds
  OwedIsOnItsWay
  AskedBeforeSent OneSendPerAttempt SeenIsNotSentAgain
  PasswordSentOnce
PROPERTIES NoCallTooSoon OthersKept
SYMMETRY MCSymmetry
CHECK_DEADLOCK FALSE
