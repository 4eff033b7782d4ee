SPECIFICATION Spec
CONSTANTS
  None = None
  Jobs = {prod}
  RunHours <- RegionalRunHours
  Predictions = 1
  FirstHour = 78
  LastHour = 84
  Step = 6
  MaxFaults = 0
CHECK_DEADLOCK FALSE
INVARIANT NewestRunIsServed
