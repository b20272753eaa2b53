SPECIFICATION FairSpec
CONSTANTS
  Fields = {phone}
  Values = {v1}
  Requests = {q1, q2}
  None = None
  Blank = v1
  Required = {}
  phone = phone
  v1 = v1
  q1 = q1
  q2 = q2
PROPERTY
  ProfileShown
