SPECIFICATION Spec
CONSTANTS
  MemoireIds = {1, 2}
  Notes = {n1}
  n1 = n1
  Null = Null
  PageSize = 1
  Filters = {"Tous", "Delivre"}
  Loads = {l1, l2}
  Patches = {p1, p2}
  l1 = l1
  l2 = l2
  p1 = p1
  p2 = p2
SYMMETRY SlotSymmetry
INVARIANTS
  TypeOK
  OneReview
  TableFaithful
  NothingOutOfReach
