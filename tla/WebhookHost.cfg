SPECIFICATION FairSpec
CONSTANTS
  r1 = r1  r2 = r2  h1 = h1  h2 = h2
  Replicas = {r1}
  Host = TRUE
  Hooks = {h1, h2}
  NoHooks = NoHooks
  Absent = Absent
  MaxDisturbances = 3
INVARIANTS SettledTrusted
PROPERTIES EventuallyTrusted
CHECK_DEADLOCK FALSE
