SPECIFICATION Spec
CONSTANTS
  Ids = {ana, ben}
  ana = ana
  ben = ben
  Names = {1, 2}
  Roles = {User, Admin}
  User = User
  Admin = Admin
  None = None
  PageSize = 1
  Loads = {l1}
  Saves = {}
  Calls = {}
  l1 = l1
SYMMETRY SlotSymmetry
INVARIANTS
  TypeOK
  
