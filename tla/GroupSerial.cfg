SPECIFICATION SerialSpec
CONSTANTS
  ann = ann
  ben = ben
  cat = cat
  dan = dan
  eve = eve
  team = team
  up1 = up1
  up2 = up2
  ub = ub
  bad = bad
  add1 = add1
  sub = sub
  add2 = add2
  from = from
  to = to
  odd = odd
  Nodes = {ann, ben, cat, dan, eve}
  NoId = NoId
  Gids = {team}
  NoGid = NoGid
  None = None
  Reqs = {up1, up2, ub, bad, add1, add2, sub, from, to, odd}
  Kind <- MCKind
  Action <- MCAction
  ReqGid <- MCReqGid
  Caller <- MCCaller
  Members <- MCMembers
  StartId <- MCStartId
  Malformed <- MCMalformed
  Decode <- CallDecode
  Failing = {}
  MaxCrash = 0
CHECK_DEADLOCK FALSE
PROPERTY ImplementsMemberList
