SPECIFICATION Spec
CONSTANTS
  c1 = c1
  c2 = c2
  c3 = c3
  h1 = h1
  h2 = h2
  w1 = w1
  w2 = w2
  url = url
  None = None
  Conns = {c1, c2}
  Hashes = {h1, h2}
  Workers = {w1, w2}
  Gens = {1, 2, 3}
  Mode <- AllUrl
  SourceKey <- OneKey
  Requests = {"delete", "upload"}
  Overlap = FALSE
SYMMETRY Symmetric
INVARIANTS TypeOK EmbedOnce NoDanglingSpec 
PROPERTIES ImplementsCatalog
CHECK_DEADLOCK FALSE
