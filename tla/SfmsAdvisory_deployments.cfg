SPECIFICATION MCSpec
CONSTANTS
  evening = evening
  nextDay = nextDay
  NRuns = 3
  Keys = {evening, nextDay}
  UploadKey <- UploadedUnder
  StatsKey <- LookedForUnder
  Consumers = {c1, c2}
  MaxUploads = 3
  MaxSharedUploads = 2
  MaxFailures = 2
CHECK_DEADLOCK FALSE
INVARIANTS
  TypeOK
  StagesInOrder
  FuelStatsAreWrittenOnce
  RasterStatsAreNotStale
  AloneRowsAreOwnAndOnce
PROPERTIES
  ResumedMessagesAreFinished
