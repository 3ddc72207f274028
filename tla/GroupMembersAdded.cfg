SPECIFICATION Spec
CONSTANTS
  ann = ann
  ben = ben
  cat = cat
  dan = dan
  eve = eve
  team = team
  up1 = up1
  up2 = up2
  ub = ub
  bad = bad
  add1 = add1
  sub = sub
  add2 = add2
  from = from
  to = to
  odd = odd
  Nodes = {ann, ben, cat, dan}
  NoId = NoId
  Gids = {team}
  NoGid = NoGid
  None = None
  Reqs = {up1, add1}
  Kind <- MCKind
  Action <- MCAction
  ReqGid <- MCReqGid
  Caller <- MCCaller
  Members <- MCMembers
  StartId <- MCStartId
  Malformed <- MCMalformed
  Decode <- WireDecode
  Failing = {}
  MaxCrash = 0
CHECK_DEADLOCK FALSE
INVARIANT MembersAdded
