SPECIFICATION AppSpec
CONSTANTS
  None = None
  Phone = i1
  Accounts = {a1}
  Installs = {i1}
  Passkeys = {k1}
  Challenges = {h1}
  AuthSessions = {s1, s2}
  Tokens = {t1, t2, t3}
  Positions = {0}
  Requests = {r1}
  RefreshTTL = 1
  ChallengeTTL = 1
  MaxClock = 1
  MaxKits = 1
  MaxCoordinators = 2
INVARIANTS AppTypeOK HonestPhoneNeverReuses StoredTokenUnused
CHECK_DEADLOCK FALSE
