SPECIFICATION ServicesSpec
CONSTANTS
  None = None
  Returned = Returned
  CffdrsError = CffdrsError
  InputError = InputError
  OtherError = OtherError
  ServerError = ServerError
  JobFails = JobFails
  Absent = Absent
  Afternoon <- MCAfternoon
  Morning <- MCMorning
  Users = {u1, u2}
  Workers = {w1, w2}
  Areas = {a1, a2}
  Values = {default, set}
  Default = default
  MaxSets = 2
  MaxToggles = 2
  MaxAdmins = 1
  MaxFailures = 1
  PlanningAreas = {"north", "south"}
  Initial <- StationsAtFirst
  Offered <- StationsToAdd
  MaxRemoved = 2
  MaxAdded = 1
  MaxRequests = 2
  Readers = {r1}
  MaxSubmissions = 2
  MaxReads = 1
  EasternOffset = 4
  NFiles = 2
  Delay = 4
  Period = 4
  NoaaHours = 40
  Age = 5
  MaxKills = 2
  Half = 2
  Retain = 4
  RdpsStarts = 4
  RdpsEnds = 9
  MaxFaults = 1
  MaxClock = 4
  MaxReports = 2
  MaxVersions = 2
  Stations = {s1, s2}
  NoReading = NoReading
  NoPage = NoPage
  NoId = NoId
SYMMETRY Symmetry
CHECK_DEADLOCK FALSE
INVARIANTS
  TypesOK
  NothingIsLost
  ClearedAreasAreNotReady
  OrdersAreConsecutive
  CachedDailiesAreCurrent
  DatabaseAgreesWithWf1
  BehaviourIsWhole
  HoursAreCritical
  PrepResultIsWhole
  DeterminatesAgree
  ChartIsWhole
  AdvisoriesAgree
  PredictionViewsAgree
  LearnedOnce
  CompletedRunsAreMarked
  PrecipitationAddsUp
  ComputedCoversOneDay
  RowsNameTheirObjects
  ReadingsAreKept
PROPERTY RemovalsAreExact
