SPECIFICATION Spec
CONSTANTS
  Ids = {ana}
  ana = ana
  Names = {1}
  Roles = {User, Admin}
  User = User
  Admin = Admin
  None = None
  PageSize = 1
  Loads = {l1, l2}
  Saves = {s1, s2}
  Calls = {c1}
  l1 = l1
  l2 = l2
  s1 = s1
  s2 = s2
  c1 = c1
SYMMETRY SlotSymmetry
INVARIANTS
  OneSave
  TableFaithful
