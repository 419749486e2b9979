\* One approval and nothing else.
SPECIFICATION FairSpec
CONSTANTS
  Jobs = {j1}
  Apps = {a1}
  Workers = {w1}
  Clients = {c1}
  NoJob = NoJob
  NoApp = NoApp
  DailyCap = 1
  MaxHandleAttempts = 2
  Delivery = "kafka"
  Faults = {}
  MaxRequests = 1
  MaxCodes = 0
  MaxDays = 0
CHECK_DEADLOCK FALSE
PROPERTY ApprovedIsStarted
