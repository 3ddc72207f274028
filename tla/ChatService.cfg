SPECIFICATION ChatFairSpec
CONSTANTS
  b = b
  Nodes = {b}
  NoId = NoId
  Mail <- MCMail
  big = big
  Msgs = {m1, m2, big}
  From <- MCFrom
  To <- MCTo
  Gid <- MCGid
  Type <- MCType
  SentAt <- MCSentAt
  OverPkg <- MCOverPkg
  Sessions = {f1, f2}
  NoMsg = NoMsg
  Cap = 1
INVARIANTS
  ChatTypeOK
  QueuedOnce
  DispatchComplete
  AtMostOneCall
PROPERTIES
  HandlerReturns
  QueueDrains
