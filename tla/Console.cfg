SPECIFICATION Spec
CONSTANTS
  ann = ann
  tiny = tiny
  openAnn = openAnn
  openTiny = openTiny
  openNone = openNone
  exit1 = exit1
  conns = conns
  hi = hi
  ho = ho
  Lines = {openAnn, openTiny, openNone, exit1, conns, hi, ho}
  NoLine = NoLine
  Kind <- MCKind
  Arg <- MCArg
  Peers = {ann, tiny}
  NoId = NoId
  Short = {tiny}
  NoReq = NoReq
  MaxRestart = 1
CHECK_DEADLOCK FALSE
INVARIANTS
  ConsoleTypeOK
  TargetWasCurrent
PROPERTY LineSettles
