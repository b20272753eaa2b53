SPECIFICATION Spec
CONSTANTS
  Users = {admin}
  admin = admin
  Admins = {admin}
  MemoireIds = {m1}
  m1 = m1
  Keys = {}
  Notes = {n1}
  n1 = n1
  Requests = {r1, r2}
  r1 = r1
  r2 = r2
  Reviewers = {r1, r2}
  Null = Null
INVARIANT
  RejectionHasReason
