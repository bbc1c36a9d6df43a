SPECIFICATION FairSpec
CONSTANTS
  None = None
  Accounts = {a1}
  Devices = {d1}
  Workers = {w1, w2}
  MaxEvents = 1
  BatchSize = 2
  MaxAttempts = 2
PROPERTIES EveryJobSettles
CHECK_DEADLOCK FALSE
