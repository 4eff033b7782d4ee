SPECIFICATION StoresSpec
CONSTANTS
  Backfill = 2
  LastDay = 7
  MaxKills = 2
  None = None
  Environments = {prod, dev}
  RunHours <- GdpsRunHours
  Predictions = 2
  FirstHour = 228
  LastHour = 240
  Step = 12
  MaxFaults = 1
  Readers = {r1, r2}
  MaxEdits = 3
CHECK_DEADLOCK FALSE
INVARIANTS
  StoreTypesOK
  RecordedDatesAreStored
  UnrecordedRastersAreRedone
  PredictionsHaveNoGaps
PROPERTIES
  AvailableDatesAreRecorded
  LastRunsAreStored
  StaleListsExpire
