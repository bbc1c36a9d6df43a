SPECIFICATION Spec
CONSTANTS
  NULL = NULL
  Accounts = {a1, a2}
  Pairs = {p1}
  Sessions = {s1, s2}
  Keys = {k1, k2}
  PairOf <- MCPairOf
  Devices <- MCDevices
  DeviceOwner <- MCDeviceOwner
  Instants <- MCInstants
  Duration = 2
  PauseTTL = 2
  ImportSpan = 1
  ImportLead = 1
  KeyTTL = 2
  CheerCooldown = 2
  Skew = 0
  MaxClock = 3
  MaxEvents = 5
SYMMETRY Symmetry
INVARIANTS TypeOK OneLiveSession LogReplaysToRows VersionsNameOneRow
  NoLostUpdate OneEffectPerKey JobsMatchLog
PROPERTIES EndedForever
CHECK_DEADLOCK FALSE
