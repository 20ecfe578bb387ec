CONSTANTS
  Cart = {c1, k1}
  KioskCart = {k1}
  Attempt = {a1, a2}
  Payment = {p1}
  Worker = {w1, w2}
  MaxCash = 1
SPECIFICATION Spec
INVARIANTS
  CheckoutAgrees
PROPERTIES
  ApprovedLeftByStaleReader
SYMMETRY Interchangeable
CHECK_DEADLOCK FALSE
