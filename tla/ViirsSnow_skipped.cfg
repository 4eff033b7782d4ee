SPECIFICATION Spec
CONSTANTS
  Backfill = 2
  LastDay = 5
  MaxKills = 0
CHECK_DEADLOCK FALSE
INVARIANTS
  NoDateIsSkipped
