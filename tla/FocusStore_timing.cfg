SPECIFICATION Spec
CONSTANTS
  NULL = NULL
  Sessions = {s1}
  Keys = {k1, k2, k3}
  a1 = a1
  a2 = a2
  b1 = b1
  single = single
  pairA = pairA
  pairB = pairB
  Accounts = {a1, a2, b1, single}
  Pairs = {pairA, pairB}
  PairOf <- MCPairOf
  Devices = {a1, a2, b1}
  DeviceOwner <- MCDeviceOwner
  Instants = {}
  Duration = 2
  PauseTTL = 2
  ImportSpan = 1
  ImportLead = 1
  KeyTTL = 2
  CheerCooldown = 2
  Skew = 1
  MaxClock = 3
  MaxEvents = 5
SYMMETRY Symmetry
INVARIANTS PairsIsolated CompanyMatchesState CheersSpaced
PROPERTIES ImplementsRoom
CHECK_DEADLOCK FALSE
