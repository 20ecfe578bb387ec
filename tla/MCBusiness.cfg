SPECIFICATION Spec
CONSTANTS
  u1 = u1
  u2 = u2
  s1 = s1
  s2 = s2
  Users = {u1, u2}
  Elsewhere = {u1}
  Slots = {s1, s2}
  MaxBegins = 3
SYMMETRY SlotSymmetry
INVARIANTS MembersAgree OldPasswordNeedsRace ListedIsOpen
PROPERTIES LinkSpentOnce
CHECK_DEADLOCK FALSE
