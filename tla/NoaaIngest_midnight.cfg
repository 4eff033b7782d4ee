SPECIFICATION Spec
CONSTANTS
  EasternOffset = 4
  RunHours <- MCRunHours
  NFiles = 2
  Delay = 4
  Period = 4
  FirstHour = 0
  LastHour = 40
CHECK_DEADLOCK FALSE
INVARIANTS
  NoRunIsLeftBehind
