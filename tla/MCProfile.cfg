SPECIFICATION LongSession
CONSTANTS
  Fields = {phone}
  Values = {v1, v2}
  Requests = {q1, q2}
  None = None
  Blank = v1
  Required = {}
  phone = phone
  v1 = v1
  v2 = v2
  q1 = q1
  q2 = q2
INVARIANTS
  HeaderFaithful
  FormFaithful
PROPERTY
  ProfileShown
