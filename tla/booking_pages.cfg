SPECIFICATION Spec
CONSTANTS
  d1 = d1
  d2 = d2
  d3 = d3
  r1 = r1
  o1 = o1
  f1 = f1
  other = other
  Desks = {d1, d2, d3}
  OtherFloor = {d3}
  OutOfService = {d2}
  Rooms = {r1}
  Office = o1
  Floor = f1
  Gone = other
  Dates = {0, 1, 2}
  Horizon = 1
  Clocks = {5, 6}
  Day = 6
  Offset = 2
  Here = 0
  DayStart = 1
  DayEnd = 3
  MaxDuration = 2
  Arrivals <- MCArrivals
  LastPairs <- MCLastPairs
  OtherTimes <- MCOtherTimes
  MaxActs = 2
  MaxCalls = 2
  MaxOthers = 1
  Nothing = Nothing
INVARIANTS TypeOK ShownFollowsOwn OffersMatchServer TimerOwnsMessage BusyWhileInFlight
CHECK_DEADLOCK FALSE
