SPECIFICATION Spec
CONSTANTS
  r1 = r1
  r2 = r2
  x = x
  y = y
  v1 = v1
  v2 = v2
  k1 = k1
  k2 = k2
  s1 = s1
  s2 = s2
  s3 = s3
  w1 = w1
  n1 = n1
  n2 = n2
  n3 = n3
  u = u
  acme = acme
  dev = dev
  p1 = p1
  p2 = p2
  o1 = o1
  o2 = o2
  o3 = o3
  c1 = c1
  c2 = c2
  c3 = c3
  Nil = Nil
  NoKeys = NoKeys
  NoUser = NoUser
  NoFilter = NoFilter
  None = None
  Callers = {r1, r2}
  VConns = {x, y}
  MaxLogins = 3
  MaxExpiries = 1
  VaultFaults = {"crash", "login_fails", "lost_answer", "commit_fails"}
  Verifiers = {v1, v2}
  Kids = {k1, k2}
  TTL = 2
  MaxClock = 2
  Signups = {s1, s2, s3}
  Workers = {w1}
  Window = 3
  MaxPosts = 2
  Delay = 1
  EndOfTime = 5
  MaxFlips = 1
  MaxStarts = 1
  Creators = {n1, n2, n3}
  Users = {u}
  Bases = {acme, dev}
  DevSlug = dev
  SlugSuffixes = {1, 2}
  SlugRetries = 1
  TenantFaults = {"crash", "commit_fails", "no_location"}
  Starters = {p1, p2}
  Versions = {1, 2, 3}
  Connectors = {"github", "slack"}
  SkillsOf <- Folders
  Text <- Overviews
  Production = TRUE
  MaxRuns = 4
  StartFaults = {"db_down", "embedding_fails", "crash"}
  Chunks = {o1, o2, o3}
  Linked = {c1, c2, c3}
  SpecOf <- SpecOfChunk
  Link <- Bindings
  Created <- CreatedInOrder
  RrfK = 60
  ChannelLimit = 2
  TopN = 2
  MaxTexts = 7
  BatchSize = 3
  MaxAttempts = 3
  Documents <- SomeDocuments
  Reissues <- SomeReissues
  Settings <- SomeSettings
  CallParams <- SomeParams
  Words <- AlnumRuns
SYMMETRY Symmetric
INVARIANTS RowHasCredentials PublishedKeyAccepted RetiredKeyAgesOut SignupsBounded OwnedFromBirth   FusionRespectsAgreement VectorsAligned 
CHECK_DEADLOCK FALSE
