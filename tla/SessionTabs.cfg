SPECIFICATION Spec
CONSTANTS
  s1 = s1
  s2 = s2
  q1 = q1
  q2 = q2
  None = None
  IdleTTL = 2
  AbsTTL = 3
  AccessTTL = 2
  Skew = 1
  Grace = 0
  Sids = {s1}
  Reqs = {q1, q2}
  MaxTime = 4
  Faults = {"crash", "lost_response", "body_error", "kc_expiry", "kc_down", "key_dropped"}
SYMMETRY Symmetric
INVARIANTS TypeOK IdleWithinAbsolute RotationPersisted 
PROPERTIES ImplementsLifecycle
CHECK_DEADLOCK FALSE
