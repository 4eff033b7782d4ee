SPECIFICATION Spec
CONSTANTS
  Admins = {u1}
  Areas = {"north", "south"}
  Initial <- SharedStations
  Offered <- NoneOffered
  Workers = 1
  MaxRemoved = 2
  MaxAdded = 0
  MaxRequests = 1
CHECK_DEADLOCK FALSE
PROPERTY OnlyRequestedStationsAreRemoved
