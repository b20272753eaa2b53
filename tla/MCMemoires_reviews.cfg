SPECIFICATION Spec
CONSTANTS
  Users = {admin}
  admin = admin
  Admins = {admin}
  MemoireIds = {m1}
  m1 = m1
  Keys = {}
  Notes = {n1, n2}
  n1 = n1
  n2 = n2
  Requests = {r1, r2, r3}
  r1 = r1
  r2 = r2
  r3 = r3
  Reviewers = {r1, r2, r3}
  Null = Null
SYMMETRY SlotSymmetry
INVARIANTS
  TypeOK
  ReviewConsistent
PROPERTIES
  NeverResurrected
  DecisionsIndivisible
  ImplementsColumns
