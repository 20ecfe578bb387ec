SPECIFICATION BoardSpec
CONSTANTS
  Orders = {o1, o2}
  Tracked = o1
  Audiences = {{"board"}, {"track"}, {"wait"}}
  o1 = o1
  o2 = o2
  Fetches = {f1, f2}
  f1 = f1
  f2 = f2
  Polls = {p1, p2}
  p1 = p1
  p2 = p2
  Limit = 2
  MaxFailures = 2
  MaxAttempts = 4
  MaxChanges = 2
  MaxFaults = 1
INVARIANTS BoardAgrees
PROPERTIES NoBlindAdvance BoardCatchesUp CustomerIsTold 
CHECK_DEADLOCK FALSE
