\* A portal deleted while it is fetched.
SPECIFICATION Spec
CONSTANTS
  AutoPauseThreshold = 5
  DecayOnFail = 12
  GainOnSuccess = 5
  PauseScore = 20
  ResumeScore = 40
  ReauthScore = 60
  MaxScore = 100
  NoPortal = NoPortal
  MaxHandleAttempts = 2
  Portals = {p1}
  Workers = {w1}
  Appliers = {}
  Clients = {c1}
  InitialHealth <- Ailing
  Kinds = {"fetch","delete"}
  Delivery = "kafka"
  Faults = {}
  MaxRequests = 2
  MaxApplies = 0
CHECK_DEADLOCK FALSE
PROPERTY DeletedForGood
