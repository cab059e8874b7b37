SPECIFICATION FairSpec
CONSTANTS
  Handlers = {h1, h2}
  Names = {n1}
  Beacons = {b1}
  Secrets = {s1, s2}
  Requested = {"add", "update", "sync", "unregister", "provision"}
  StatusMayFail = TRUE
  ListsMayFail = TRUE
  MaxVersion = 2
INVARIANT VersionsTellSecrets
PROPERTY RequestsEnd
