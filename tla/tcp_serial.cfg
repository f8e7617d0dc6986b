SPECIFICATION FairSerialSpec
CONSTANTS
  t1 = t1
  t2 = t2
  m1 = m1
  m2 = m2
  w1 = w1
  w2 = w2
  Thread = {t1, t2}
  Message = {m1, m2}
  EmptyBody = {m2}
  Write = {w1, w2}
  QueueBound = 3
  WireBound = 2
CHECK_DEADLOCK FALSE
INVARIANTS TypeOK SingleWrite
PROPERTIES ImplementsChannel NextCallUnstrands
