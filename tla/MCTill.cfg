CONSTANTS
  Orders = {o1, o2}
  Shifts = {s1, s2}
  Workers = {w1, w2}
  Lead = 1
  Notice = 2
  Grid = 3
  Window = 2
  Grace = 1
  DayLength = 8
  DaysAhead = 1
  Schedules <- Calendar
  MaxTime = 4
  MaxEvents = 4
SPECIFICATION Spec
INVARIANTS
  PickupBeforeExpiry
  NumbersNeverClash
  ShiftsAgree
PROPERTIES
  OfferIsHonoured
SYMMETRY Interchangeable
CHECK_DEADLOCK FALSE
