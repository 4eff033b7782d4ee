SPECIFICATION MCSpec
CONSTANTS
  evening = nextDay
  nextDay = nextDay
  NRuns = 1
  Keys = {nextDay}
  UploadKey <- UploadedUnder
  StatsKey <- LookedForUnder
  Consumers = {c1, c2}
  MaxUploads = 2
  MaxSharedUploads = 2
  MaxFailures = 1
CHECK_DEADLOCK FALSE
PROPERTIES
  FailedMessagesComeBack
