SPECIFICATION HistorySpec
CONSTANTS
  Items = {i1}
  Workers = {w1}
  MaxErrRetries = 3
  MaxTimes = {3}
  MaxRequeueTimes = 3
  MaxHistory = 5
  NoItem = NoItem
CHECK_DEADLOCK FALSE
INVARIANT RequeueLimited
