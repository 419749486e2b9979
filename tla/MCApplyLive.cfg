\* Liveness of the queue, handlers may raise.
SPECIFICATION FairSpec
CONSTANTS
  Jobs = {j1}
  Apps = {a1, a2, a3}
  Workers = {w1}
  Clients = {c1}
  NoJob = NoJob
  NoApp = NoApp
  DailyCap = 1
  MaxHandleAttempts = 2
  Delivery = "kafka"
  Faults = {"raise"}
  MaxRequests = 2
  MaxCodes = 0
  MaxDays = 0
CHECK_DEADLOCK FALSE
PROPERTY QueuedIsPickedUp
