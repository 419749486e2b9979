SPECIFICATION VaultSpec
CONSTANTS
  Tenant = {t1, t2}
  Run = {r1, r2}
  RunAttempts = 2
  MaxAge = 3
  MaxChanges = 1
PROPERTY RefreshedIsSaved
CHECK_DEADLOCK FALSE
