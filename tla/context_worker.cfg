SPECIFICATION FairSpec
CONSTANTS
  t1 = t1
  t2 = t2
  a = a
  b = b
  short = short
  long = long
  Worker = {t1, t2}
  Module = {a, b}
  Type = {short, long}
  SuffixOf <- OneSuffix
  Registration <- FourHandlers
  Datagram <- Datagrams
  None = None
  SubscriberBound = 1
CHECK_DEADLOCK FALSE
INVARIANTS TypeOK SenderMatches IdentifiersDiffer
PROPERTIES ImplementsPublishSubscribe ListeningGoesOn ShutdownCompletes
