SPECIFICATION FairSpec
CONSTANTS
  None = None
  Accounts = {a1, a2, a3}
  Phones = {a1}
  Invites = {i1, i2}
  Pairs = {p1, p2}
  Calls = {c1, c2}
INVARIANTS TypeOK OnePairEach OneOpenInvite LinkWorks PollStopsInformed
PROPERTIES PartnerNoticed

