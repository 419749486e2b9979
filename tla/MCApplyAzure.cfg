\* Container jobs: two run at a time, and two requests.
SPECIFICATION Spec
CONSTANTS
  Jobs = {j1}
  Apps = {a1, a2, a3}
  Workers = {w1, w2}
  Clients = {c1, c2}
  NoJob = NoJob
  NoApp = NoApp
  DailyCap = 1
  MaxHandleAttempts = 2
  Delivery = "azure"
  Faults = {"crash","outage"}
  MaxRequests = 2
  MaxCodes = 0
  MaxDays = 0
SYMMETRY Symmetry
CHECK_DEADLOCK FALSE
INVARIANT DailyCapOvershoot
PROPERTY NoSilentOrphan
