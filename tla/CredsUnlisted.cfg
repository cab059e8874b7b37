SPECIFICATION Spec
CONSTANTS
  Handlers = {h1}
  Names = {n1, n2}
  Beacons = {b1, b2}
  Secrets = {s1, s2}
  Requested = {"add", "update", "sync", "delete", "unregister", "provision"}
  StatusMayFail = FALSE
  ListsMayFail = TRUE
  MaxVersion = 2
INVARIANT SyncedWhenClean
PROPERTY LeftoversReported
