CONSTANTS
  Cart = {c1}
  KioskCart = {}
  Attempt = {a1}
  Payment = {p1}
  Worker = {w1, w2}
  MaxCash = 1
SPECIFICATION Spec
INVARIANTS
  OneOrderPerCart
CHECK_DEADLOCK FALSE
