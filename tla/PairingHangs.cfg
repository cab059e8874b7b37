SPECIFICATION FairSpec
CONSTANTS
  Handlers = {h1}
  Clusters = {c1, c2}
  Requested = {"pair", "unpair"}
  CallsMayFail = FALSE
  DpClusterMayFail = TRUE
PROPERTY RequestsEnd
CHECK_DEADLOCK FALSE
