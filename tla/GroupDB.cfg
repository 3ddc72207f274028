SPECIFICATION Spec
CONSTANTS
  ann = ann
  ben = ben
  cat = cat
  dan = dan
  eve = eve
  team = team
  up1 = up1
  up2 = up2
  ub = ub
  bad = bad
  add1 = add1
  sub = sub
  add2 = add2
  from = from
  to = to
  odd = odd
  Nodes = {ann, dan, eve}
  NoId = NoId
  Gids = {team}
  NoGid = NoGid
  None = None
  Reqs = {up1, up2, ub, add2}
  Kind <- MCKind
  Action <- MCAction
  ReqGid <- MCReqGid
  Caller <- MCCaller
  Members <- MCMembers
  StartId <- MCStartId
  Malformed <- MCMalformed
  Decode <- WireDecode
  Failing <- MCFailing
  MaxCrash = 1
CHECK_DEADLOCK FALSE
INVARIANTS
  GroupTypeOK
  ChainsUnbroken
  LogsUnbroken
  UpdateLeavesMember
  NoWayRound
