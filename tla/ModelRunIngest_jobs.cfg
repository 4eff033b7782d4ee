SPECIFICATION FairSpec
CONSTANTS
  HoursPerDay = 2
  RunHours <- MCRunHours
  NFiles = 2
  Stations = {s1, s2}
  Retention = 1
  ViewWindow = 1
  FirstHour = 2
  LastHour = 4
  MaxKills = 1
INVARIANTS
  TypeOK
  CompleteRunsAreStored
  InterpolatedRunsArePredicted
  ViewShowsWholeRuns
PROPERTIES
  RefreshCatchesUp
  KeepsPromise
  CompleteRunsGetInterpolated
