SPECIFICATION Spec
CONSTANTS
  None = None
  Accounts = {a1}
  Devices = {d1}
  Workers = {w1, w2}
  MaxEvents = 2
  BatchSize = 2
  MaxAttempts = 1
INVARIANTS TypeOK DeliveredOnceUnlessExcused
CHECK_DEADLOCK FALSE
