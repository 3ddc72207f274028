SPECIFICATION FairSpec
CONSTANTS
  a = a
  b = b
  x = x
  b1 = b1
  b2 = b2
  big = big
  bare = bare
  grp = grp
  sys = sys
  t1 = t1
  t2 = t2
  Nodes = {a, b, x}
  NoId = NoId
  Mail <- MCMail
  Msgs = {b1}
  From <- MCFrom
  To <- MCTo
  Gid <- MCGid
  Type <- MCType
  SentAt <- MCSentAt
  OverPkg <- MCOverPkg
  Sessions = {t1}
  NoMsg = NoMsg
  Cap = 1
  DbErrors = FALSE
  Home <- MCHome
  MaxCrash = 0
  Consoles = {}
CHECK_DEADLOCK FALSE
PROPERTY OpenStreamGetsAll
