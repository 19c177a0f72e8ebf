SPECIFICATION Spec
CONSTANTS
  k1 = k1
  k2 = k2
  a = a
  b = b
  None = None
  Calls = {k1, k2}
  Conns = {a, b}
  Surfaces = {"mcp", "rest"}
  Modes = {"structured", "code", "skill"}
  Faults = {"crash", "vault_down", "sandbox_down", "storage_down", "commit_fails"}
SYMMETRY Symmetric
INVARIANTS TypeOK LoggedIsCounted OutcomeIsLogged LogNamesLive
CHECK_DEADLOCK FALSE
