SPECIFICATION Spec
CONSTANTS
  u = u
  x = x
  h = h
  au = au
  au2 = au2
  bad = bad
  put = put
  get = get
  del = del
  create = create
  delh = delh
  Nodes = {u, x, h}
  NoId = NoId
  Calls = {au, au2, bad, put, get, del, create, delh}
  NoCall = NoCall
  Method <- MCMethod
  Shape <- MCShape
  TokenOf <- MCTokenOf
  GoodPwd <- MCGoodPwd
  ById <- MCById
  Key <- MCKey
  DbErrors = TRUE
  MaxCrash = 1
CHECK_DEADLOCK FALSE
INVARIANTS
  GatewayTypeOK
  RunningIsAuthorised
  PutIsKept
  CreatedIsListed
  ListedIsMade
