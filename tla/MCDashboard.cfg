SPECIFICATION Spec
CONSTANTS
  Ids = {ana, ben}
  ana = ana
  ben = ben
  Statuses = {user}
  user = user
  LastName <- OneName
  Active = {user}
  Admins = {}
  Terms = {{ana, ben}, {ben}}
  PageSize = 1
  RecentSize = 1
  MaxPage = 2
  MaxRequests = 2
  None = None
INVARIANTS
  TypeOK
  ShowsTheServer
  NothingLeftOut
