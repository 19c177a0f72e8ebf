SPECIFICATION Spec
CONSTANTS
  k1 = k1
  k2 = k2
  a = a
  b = b
  None = None
  Calls = {k1}
  Conns = {a}
  Surfaces = {"mcp"}
  Modes = {"code"}
  Faults = {"sandbox_down"}
INVARIANTS SentIsLogged
CHECK_DEADLOCK FALSE
