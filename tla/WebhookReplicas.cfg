SPECIFICATION Spec
CONSTANTS
  r1 = r1  r2 = r2  h1 = h1  h2 = h2
  Replicas = {r1, r2}
  Host = FALSE
  Hooks = {h1}
  NoHooks = NoHooks
  Absent = Absent
  MaxDisturbances = 1
SYMMETRY Symmetry
INVARIANTS SettledTrusted IInv
PROPERTIES KeepsCA
CHECK_DEADLOCK FALSE
