\* One portal, two fetches and an application at a time in the API process.
SPECIFICATION Spec
CONSTANTS
  AutoPauseThreshold = 5
  DecayOnFail = 12
  GainOnSuccess = 5
  PauseScore = 20
  ResumeScore = 40
  ReauthScore = 60
  MaxScore = 100
  NoPortal = NoPortal
  MaxHandleAttempts = 2
  Portals = {p1}
  Workers = {w1, w2}
  Appliers = {x1}
  Clients = {c1, c2}
  InitialHealth <- Mixed
  Kinds = {"sync","update","reauth","fetch","delete"}
  Delivery = "inline"
  Faults = {"raise","crash","outage"}
  MaxRequests = 2
  MaxApplies = 1
SYMMETRY Symmetry
CHECK_DEADLOCK FALSE
INVARIANT PausedExactly
PROPERTY PauseEndsByReauth
PROPERTY NoStuckMarker
