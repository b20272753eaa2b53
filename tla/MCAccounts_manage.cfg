SPECIFICATION Spec
CONSTANTS
  i1 = i1
  i2 = i2
  e1 = e1
  e2 = e2
  r1 = r1
  r2 = r2
  Ids = {i1, i2}
  Emails = {e1, e2}
  Roles = {"User", "Admin"}
  RealmRoles = {"User", "Admin", "offline_access"}
  Requested = {"User", "Admin", "offline_access", "Chef"}
  Requests = {r1, r2}
  Managers = {r1}
  Deleters = {r2}
  Null = Null
SYMMETRY Symmetry
INVARIANTS
  TypeOK
  AtMostOneRole
  
PROPERTIES
  ProfileGoesLast
  CreatedAsAsked
  ToggleFlips
  ImplementsDirectory
