CONSTANTS
  Cart = {c1}
  KioskCart = {}
  Attempt = {a1}
  Payment = {p1, p2}
  Worker = {w1}
  MaxCash = 1
SPECIFICATION FairSpec
PROPERTIES
  ApprovedPaymentConverts
CHECK_DEADLOCK FALSE
