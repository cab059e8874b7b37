SPECIFICATION Spec
CONSTANTS
  Callers = {c1, c2}
  AccountIds = {a1, a2}
  Secrets = {s1}
  Overlap = TRUE
  ReadsMayFail = TRUE
  MaxVersion = 2
  MaxReloads = 1
INVARIANTS TypeOK UniqueIds CacheCurrent
PROPERTY LosesOnlyOverlapped
