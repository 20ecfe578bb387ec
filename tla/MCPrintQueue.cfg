CONSTANTS
  Job = {j1}
  Agent = {a1, a2}
  Revocable = {a2}
  MaxAttempts = 3
  NoAgent = NoAgent
SPECIFICATION FairSpec
INVARIANTS
  TicketsAgree
  ReprintNeedsLapse
PROPERTIES
  EnqueuedIsPrinted
