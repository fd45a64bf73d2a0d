SPECIFICATION Spec
CONSTANTS
  q1 = q1  q2 = q2  c1 = c1  c2 = c2  t1 = t1  t2 = t2  t3 = t3  A = A
  NoConsumer = NoConsumer
  Channels = {c1, c2}
  Queues = {q1}
  SacQueues = {}
  ConnOf <- OneConnection
  Number <- OwnNumber
  Tags = {t1}
  ConsumeOptions <- PlainOption
  PrefetchCounts = {1}
  Perishable = {}
  ClientOps = {"all", "prefetch"}
  MaxMessages = 2
  MaxRequeues = 0
CHECK_DEADLOCK FALSE
INVARIANT NothingHeldBack
