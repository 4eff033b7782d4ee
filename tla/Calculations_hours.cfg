INIT NothingAsked
NEXT Ask
CONSTANTS
  None = None
  Returned = Returned
  CffdrsError = CffdrsError
  InputError = InputError
  OtherError = OtherError
  ServerError = ServerError
  JobFails = JobFails
  Absent = Absent
  Afternoon <- MCAfternoon
  Morning <- MCMorning
CHECK_DEADLOCK FALSE
INVARIANT HoursAreOfTheZone
