\* Kafka: one worker for the partition of the user, two requests at a time, every fault.
SPECIFICATION Spec
CONSTANTS
  Jobs = {j1}
  Apps = {a1, a2}
  Workers = {w1}
  Clients = {c1, c2}
  NoJob = NoJob
  NoApp = NoApp
  DailyCap = 1
  MaxHandleAttempts = 2
  Delivery = "kafka"
  Faults = {"raise","crash","outage"}
  MaxRequests = 2
  MaxCodes = 1
  MaxDays = 1
SYMMETRY Symmetry
CHECK_DEADLOCK FALSE
INVARIANT TypeOK
INVARIANT DailyCapOvershoot
PROPERTY NoSilentOrphan
PROPERTY RetriesAreBounded
