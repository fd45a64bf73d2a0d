SPECIFICATION Spec
CONSTANTS
  q1 = q1  q2 = q2  c1 = c1  c2 = c2  t1 = t1  t2 = t2  t3 = t3  A = A
  NoConsumer = NoConsumer
  Channels = {c1, c2}
  Queues = {q1}
  SacQueues = {}
  ConnOf <- OneConnection
  Number <- OwnNumber
  Tags = {t1, t2}
  ConsumeOptions <- PlainOption
  PrefetchCounts = {}
  Perishable = {}
  ClientOps = {"get", "nack", "multiple", "all", "recover", "repeat", "close"}
  MaxMessages = 2
  MaxRequeues = 1
CHECK_DEADLOCK FALSE
SYMMETRY Symmetry
INVARIANTS
  TypeOK
  AtMostOnce
  NothingLost
  RedeliveredIffDelivered
  FreshInOrder
  AnswersNameTheirMessage
PROPERTY
  KeepsContract
