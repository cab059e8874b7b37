SPECIFICATION Spec
CONSTANTS
  Handlers = {h1}
  Names = {n1, n2}
  Beacons = {b1}
  Secrets = {s1}
  Requested = {"add", "update", "sync", "delete", "unregister", "provision"}
  StatusMayFail = FALSE
  ListsMayFail = FALSE
  MaxVersion = 2
PROPERTY OnlyNamedDeleted
