SPECIFICATION Spec
CONSTANTS
  i1 = i1
  e1 = e1
  r1 = r1
  Ids = {i1}
  Emails = {e1}
  Roles = {"User"}
  RealmRoles = {"User"}
  Requested = {"User"}
  Requests = {r1}
  Managers = {r1}
  Deleters = {r1}
  Null = Null
SYMMETRY Symmetry
INVARIANT
  NoProfileWithoutAccount
