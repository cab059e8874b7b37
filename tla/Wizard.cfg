SPECIFICATION Spec
CONSTANTS
  Clusters = {c1, c2}
  Pairings = {{c1, c2}}
  Is10 = {c1}
  CloudFs = {c2}
  Tde = {c2}
  HiveOnS3 = {c2}
  Datasets = {d}
  Preselections = {"", c1}
  MaxMoves = 2
  Today = 3
  Dates = {3, 5, 7}
  EndDates = {5}
  Frequencies = {1}
  Units = {"DAYS", "WEEKS"}
  Days = {0, 1, 4}
  LastDate = 11
  Sources = {"east", "west", "far"}
  Paired = {"east", "west"}
  SuperUsers = {"east"}
  MaxPicks = 3
  Limits = {1, 2}
  FirstLimit = 1
  MaxFilterings = 2
  QueueClusters = {c1, c2}
  MaxSaves = 5
INVARIANTS TypeOK OneStepActive SubmitsSaved EndsFit ChosenDay ShowsStore
PROPERTY EditsVoidValidation
\* a wizard that was closed is not opened for ever
CHECK_DEADLOCK FALSE
