SPECIFICATION Spec
CONSTANTS
  Users = {u1, u2}
  u1 = u1
  u2 = u2
  Admins = {u2}
  MemoireIds = {m1, m2}
  m1 = m1
  m2 = m2
  Keys = {k1, k2}
  k1 = k1
  k2 = k2
  Notes = {n1}
  n1 = n1
  Requests = {r1, r2}
  r1 = r1
  r2 = r2
  Reviewers = {r1}
  Null = Null
INVARIANTS
  OwnerPresent
  FileFaithful
PROPERTIES
  ImplementsBoard
  NoFileForgotten
