SPECIFICATION Spec
CONSTANTS
  c1 = c1
  c2 = c2
  c3 = c3
  h1 = h1
  h2 = h2
  w1 = w1
  w2 = w2
  url = url
  None = None
  Conns = {c1, c2, c3}
  Hashes = {h1, h2}
  Workers = {w1}
  Gens = {1, 2}
  Mode <- UrlsAndBare
  SourceKey <- OneKey
  Requests = {"request", "upload"}
  Overlap = FALSE
SYMMETRY SymmetricUrls
INVARIANTS NoOrphan
PROPERTIES GcSparesOthers
CHECK_DEADLOCK FALSE
