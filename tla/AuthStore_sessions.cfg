SPECIFICATION Spec
CONSTANTS
  None = None
  Accounts = {a1}
  Installs = {i1}
  Passkeys = {k1, k2}
  Challenges = {h1, h2, h3}
  AuthSessions = {s1, s2, s3}
  Tokens = {t1, t2, t3}
  Positions = {0}
  Requests = {r1, r2}
  RefreshTTL = 1
  ChallengeTTL = 1
  MaxClock = 1
  MaxKits = 2
SYMMETRY Symmetry
INVARIANTS TypeOK OneLiveToken RotatableIsValid ReuseEndsFamily
  OneSessionPerProof
PROPERTIES NeverValidAgain
CHECK_DEADLOCK FALSE
