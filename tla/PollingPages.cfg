SPECIFICATION Spec
CONSTANTS
  Ids = {"a", "b"}
  Initially = {"a"}
  Jobless = {"a"}
  MaxChanges = 1
  MaxLogs = 1
  MaxActions = 1
  Hive = {"b"}
  FromS3 = {}
  Filters = {"", "f"}
  Pages = {0, 1}
  MaxLog = 2
  MaxShows = 3
  BeaconsCount = 1
  EventsBefore = 2
  MaxEvents = 3
  PageSize = 1
  MaxPolls = 3
  MapClusters = {1, 2}
  LowCapacity = {2}
  MaxHappenings = 2
  Watched = {"p"}
  Window = 2
  MaxJobs = 3
INVARIANTS TypeOK DeletedStaysAway LoopsRun JobsSettle ShowsOwn ListedFits
PROPERTY CatchUp
CHECK_DEADLOCK FALSE
