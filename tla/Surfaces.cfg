SPECIFICATION Spec
CONSTANTS
  q1 = q1
  q2 = q2
  k1 = k1
  k2 = k2
  a = a
  b = b
  c = c
  t1 = t1
  t2 = t2
  u1 = u1
  u2 = u2
  l1 = l1
  l2 = l2
  a1 = a1
  a2 = a2
  w1 = w1
  w2 = w2
  r1 = r1
  r2 = r2
  f1 = f1
  All = All
  NoCaller = NoCaller
  None = None
  Nothing = Nothing
  Requests = {q1, q2}
  Keys = {k1, k2}
  MConns = {a, b, c}
  Existing = {b, c}
  Scopes <- AllOrOne
  Tenant <- OneTenant
  NameRank <- InOrder
  Limit = 1
  SummaryTTL = 0
  CacheMax = 1
  MaxNow = 1
  MaxChanges = 1
  Days = {1}
  Tabs = {u1, u2}
  Tokens = {l1, l2}
  Attempts = {a1, a2}
  Workspaces = {w1, w2}
  Member = {w1}
  Jobs = {r1, r2}
  SkillOf <- SameSkill
  FileNames = {f1}
  Sizes = {1, 2}
  MaxBytes = 1
  UrlTtl = 1
  MaxClock = 2
  Originals <- SomeOriginals
  Author = "Claude"
  NewText = "new"
  MaxEdits = 3
  Packages <- SomePackages
  PartNames <- SomeParts
  MaxComments = 4
  MaxSessions = 2
  NoParent = 0
  Templates <- SomeTemplates
  MaxSequence = 4
  Texts <- SomeTexts
  ShapeKeys <- SomeKeys
SYMMETRY Symmetric
INVARIANTS  ActsInOwnSession  TrackedEditsValidate CommentsHangTogether RearrangedInOrder AcceptedNeverWorse
PROPERTIES SummaryAgesOut
CHECK_DEADLOCK FALSE
