SPECIFICATION Spec
CONSTANTS
  c1 = c1
  c2 = c2
  c3 = c3
  h1 = h1
  h2 = h2
  w1 = w1
  w2 = w2
  url = url
  None = None
  Conns = {c1}
  Hashes = {h1}
  Workers = {w1}
  Gens = {1, 2}
  Mode <- AllUrl
  SourceKey <- OneKey
  Requests = {"request"}
  Overlap = FALSE
PROPERTIES ReuseKeepsRow
CHECK_DEADLOCK FALSE
