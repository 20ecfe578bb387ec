SPECIFICATION Spec
CONSTANTS
  a = a
  b = b
  Editors = {a, b}
  Slots = {s1, s2}
  s1 = s1
  s2 = s2
  Cats = {"c1", "c2"}
  Items = {"item"}
  Combos = {"combo"}
  Groups = {"group"}
  Coupons = {"coupon"}
  MaxClicks = 3
  MaxEvents = 1
SYMMETRY Symmetry
INVARIANTS OnlyLiveCategoriesSell SearchFollowsMenu StockAgrees
PROPERTY NoLostEdit
CHECK_DEADLOCK FALSE
