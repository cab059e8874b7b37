SPECIFICATION Spec
CONSTANTS
  Handlers = {h1, h2}
  Clusters = {c1, c2}
  Requested = {"pair", "unpair", "define"}
  CallsMayFail = TRUE
  DpClusterMayFail = TRUE
INVARIANTS TypeOK DefinedBeforePairing PairErrorsHaveReason UnpairCleansUp
\* a request whose promise is never completed stays where it is
CHECK_DEADLOCK FALSE
