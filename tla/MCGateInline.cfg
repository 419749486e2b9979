\* The broker comes and goes: what is published is sent or run in a task at once.
SPECIFICATION Spec
CONSTANTS
  Jobs = {j1}
  Approvals = {a1, a2}
  Workers = {w1, w2}
  Clients = {c1, c2}
  NoJob = NoJob
  NoApproval = NoApproval
  Modes = {"gate", "auto"}
  Deliveries = {"kafka", "inline"}
  Faults = {"raise", "outage"}
  MaxHandleAttempts = 2
  DailyCap = 1
  MaxRequests = 2
SYMMETRY Symmetry
CHECK_DEADLOCK FALSE
PROPERTY NoForgottenJob
