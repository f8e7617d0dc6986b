SPECIFICATION FairSpec
CONSTANTS
  main1 = main1
  io1 = io1
  w1 = w1
  c1 = c1
  t1 = t1
  t2 = t2
  a = a
  type1 = type1
  Main = main1
  Io = {io1}
  Write = {w1}
  Code = {c1}
  ZeroCode = c1
  NoCode = NoCode
  Answer <- Granted
  QueueBound = 1
  WireBound = 1
  ReplyBound = 1
  TimerBound = 1
  Worker = {t1, t2}
  Module = {a}
  Type = {type1}
  SuffixOf <- SameName
  Registration <- OneHandler
  Datagram <- Datagrams
  None = None
  SubscriberBound = 1
  ConfigurationFile <- Files
CHECK_DEADLOCK FALSE
INVARIANTS TypeOK TaskIsWatched NothingOutlivesBase
PROPERTIES PingGoesOut ListeningGoesOn ShutdownCompletes
