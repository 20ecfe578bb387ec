CONSTANTS
  Cart = {c1, c2}
  Key = {k1, k2}
  Body = {b1, b2}
  Worker = {w1, w2}
  Line <- SmallLines
  MaxLines = 4
  MaxCalls = 3
  Response = {1, 2, 3}
  Nothing = Nothing
SPECIFICATION Spec
INVARIANTS
  AnswersAgree
  QuoteWithinCents
PROPERTIES
  AnswerIsFinal
SYMMETRY Interchangeable
CHECK_DEADLOCK FALSE
