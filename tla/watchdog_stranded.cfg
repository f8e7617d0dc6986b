SPECIFICATION FreeSpec
CONSTANTS
  main1 = main1
  io1 = io1
  io2 = io2
  w1 = w1
  w2 = w2
  c1 = c1
  c2 = c2
  NoCode = NoCode
  Main = main1
  Io = {io1}
  Write = {w1, w2}
  Code = {c1, c2}
  ZeroCode = c2
  Answer <- GrantingAnswer
  QueueBound = 2
  WireBound = 1
  ReplyBound = 1
  TimerBound = 1
CHECK_DEADLOCK FALSE
INVARIANT NothingStranded
