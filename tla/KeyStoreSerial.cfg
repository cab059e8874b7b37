SPECIFICATION FairSpec
CONSTANTS
  Callers = {c1, c2}
  AccountIds = {a1, a2}
  Secrets = {s1, s2}
  Overlap = FALSE
  ReadsMayFail = FALSE
  MaxVersion = 2
  MaxReloads = 0
PROPERTIES ImplementsStore RequestsAnswered
