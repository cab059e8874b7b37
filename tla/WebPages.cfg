SPECIFICATION Spec
CONSTANTS
  Clusters = {c1, c2}
  NoCluster = NoCluster
  Initially = {{c1, c2}}
  Is10 = {}
  Params = {c1}
  MaxOthers = 1
  MaxCreates = 2
  AccessKeys = {"k", "l"}
  Names = {"a", "n"}
  Accounts = {"a"}
  MaxShows = 2
  MaxActs = 3
  MaxEdits = 4
  ListClusters = {1, 2, 3}
  MaxTurns = 2
  MaxStack = 2
  MaxToasts = 3
  MaxRequests = 3
  Types = {load, delete, event}
  Merged = {event}
  Deletions = {delete}
INVARIANTS TypeOK SubmitsFit BusyForCall OutcomesFit ShownFits
PROPERTY AllEnd
CHECK_DEADLOCK FALSE
