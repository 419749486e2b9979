\* One match worker on the topic, requests one after the other, crashes and outages.
SPECIFICATION Spec
CONSTANTS
  Jobs = {j1, j2}
  Approvals = {a1, a2}
  Workers = {w1}
  Clients = {c1}
  NoJob = NoJob
  NoApproval = NoApproval
  Modes = {"gate"}
  Deliveries = {"kafka"}
  Faults = {"crash", "outage"}
  MaxHandleAttempts = 2
  DailyCap = 1
  MaxRequests = 3
SYMMETRY Symmetry
CHECK_DEADLOCK FALSE
INVARIANT TypeOK
INVARIANT AskedOnce
INVARIANT ActedOnOnce
PROPERTY MatchRetriesAreBounded
