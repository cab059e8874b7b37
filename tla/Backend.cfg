SPECIFICATION Spec
CONSTANTS
  Handlers = {h1, h2}
  Beacons = {"b1", "b2"}
  Creds = {"k", "w"}
  Aws = {"k"}
  MaxRequests = 3
  NumResults = 1
  BeaconsCount = 2
  Accounts = {"k", "m"}
  Cloud = 0
  LookupClusters = {c1, c2}
  NoNamenode = {c2}
  NoPort = {}
  Lost = Lost
  MaxChanges = 1
  StoreAccounts = {"a", "b"}
  MaxKeys = 3
  MaxReplaced = 1
  Statuses = {404, 409, 503}
INVARIANTS TypeOK RequestsFit AnswersFit
PROPERTY AllAnswered
CHECK_DEADLOCK FALSE
