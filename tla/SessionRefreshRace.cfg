SPECIFICATION Spec
CONSTANTS
  s1 = s1
  s2 = s2
  q1 = q1
  q2 = q2
  None = None
  IdleTTL = 2
  AbsTTL = 3
  AccessTTL = 2
  Skew = 1
  Grace = 0
  Sids = {s1}
  Reqs = {q1, q2}
  MaxTime = 4
  Faults = {}
INVARIANTS NoSpuriousRevocation
CHECK_DEADLOCK FALSE
