SPECIFICATION SyncSpec
CONSTANTS
  NULL = NULL
  Accounts = {me, you}
  p1 = p1
  Pairs = {p1}
  Sessions = {s1, s2}
  Keys = {k1, k2}
  PairOf <- MCPairOf
  Devices = {}
  DeviceOwner <- MCDeviceOwner
  Instants = {}
  Duration = 1
  PauseTTL = 1
  ImportSpan = 1
  ImportLead = 1
  KeyTTL = 9
  CheerCooldown = 1
  Skew = 0
  MaxClock = 0
  MaxEvents = 3
  Me = me
  MySessions = {s1}
  Offers = {"session.start"}
  PageLimit = 2
  RetryDelay = 1
  HubCapacity = 1
  Realtime = TRUE
  MaxOpen = 1
  Faults = {"offline"}
SYMMETRY KeySymmetry
INVARIANTS NothingSkipped ReadModelBehindOnlyByRace
CHECK_DEADLOCK FALSE
