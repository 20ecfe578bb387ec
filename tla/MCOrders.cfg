CONSTANTS
  Order = {o1}
  Worker = {w1, w2, c1}
  Cron = {c1}
  BatchSize = 1
  PrintingEnabled = TRUE
  OwnerAlertEnabled = TRUE
SPECIFICATION FairSpec
INVARIANTS
  TypeOK
  SnapshotsFresh
  DrawerMatchesOrder
  CounterSafe
PROPERTIES
  PaidPrevails
  CancelledIsFinal
  ImplementsLedger
  ExpiredOrdersSettle
CHECK_DEADLOCK FALSE
