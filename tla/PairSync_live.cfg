SPECIFICATION FairSyncSpec
CONSTANTS
  NULL = NULL
  Accounts = {me, you}
  p1 = p1
  Pairs = {p1}
  Sessions = {s1}
  Keys = {k1}
  PairOf <- MCPairOf
  Devices = {}
  DeviceOwner <- MCDeviceOwner
  Instants = {}
  Duration = 1
  PauseTTL = 1
  ImportSpan = 1
  ImportLead = 1
  KeyTTL = 9
  CheerCooldown = 1
  Skew = 0
  MaxClock = 1
  MaxEvents = 2
  Me = me
  MySessions = {}
  Offers = {"session.join", "session.cheer"}
  PageLimit = 2
  RetryDelay = 1
  HubCapacity = 1
  Realtime = TRUE
  MaxOpen = 0
  Faults = {"conflict", "socket", "listener", "http"}
PROPERTIES CallsReturn ReconnectRecovers
CHECK_DEADLOCK FALSE
