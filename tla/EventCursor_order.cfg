SPECIFICATION Spec
CONSTANTS
  w1 = w1
  w2 = w2
  w3 = w3
  w4 = w4
  s1 = s1
  s2 = s2
  Writers = {w1, w2, w3, w4}
  SessionOf <- TwoSessions
  Shared = {w2, w3}
  MaxCursor = 5
INVARIANTS OvertakenOnlyByStrangers SkippedOnlyPastStrangers
CHECK_DEADLOCK FALSE
