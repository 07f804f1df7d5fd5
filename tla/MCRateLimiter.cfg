CONSTANTS
  Senders = {x, y}
  Sizes = {2, 3}
  Levels = {250, 1000}
  maxRequests = 2
  windowMs = 2
  maxMessageSize = 2
  maxDailyStorage = 5
  DayLength = 2
  MaxTime = 3
  MaxAccepted = 3
  globalMaxRequests = 2
SPECIFICATION SharedSpec
SYMMETRY Interchangeable
INVARIANTS RateBound DailyBound GlobalBound
CHECK_DEADLOCK FALSE
