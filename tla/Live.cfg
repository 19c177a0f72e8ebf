SPECIFICATION LiveSpec
CONSTANTS
  s1 = s1
  q1 = q1
  q2 = q2
  c1 = c1
  h1 = h1
  w1 = w1
  w2 = w2
  None = None
  IdleTTL = 2
  AbsTTL = 3
  AccessTTL = 2
  Skew = 1
  Grace = 0
  Sids = {s1}
  Reqs = {q1, q2}
  MaxTime = 2
  Faults = {"body_error"}
  Conns = {c1}
  Hashes = {h1}
  Workers = {w1, w2}
  Gens = {1, 2}
  Mode <- AllUrl
  SourceKey <- OneKey
  Requests = {"request", "delete"}
  Overlap = TRUE
PROPERTIES RevokedDiesAtKeycloak RequestsEnd PendingSettles IndexingEnds
CHECK_DEADLOCK FALSE
