\* Two portals fetched by one worker, two requests, every fault.
SPECIFICATION Spec
CONSTANTS
  AutoPauseThreshold = 2
  DecayOnFail = 0
  GainOnSuccess = 0
  PauseScore = 20
  ResumeScore = 40
  ReauthScore = 60
  MaxScore = 100
  NoPortal = NoPortal
  MaxHandleAttempts = 2
  Portals = {p1, p2}
  Workers = {w1}
  Appliers = {}
  Clients = {c1, c2}
  InitialHealth <- Healthy
  Kinds = {"sync","update","reauth","fetch","delete"}
  Delivery = "kafka"
  Faults = {"raise","crash","outage"}
  MaxRequests = 2
  MaxApplies = 0
SYMMETRY Symmetry
CHECK_DEADLOCK FALSE
INVARIANT TypeOK
PROPERTY NoStuckMarker
PROPERTY FetchRetriesAreBounded
