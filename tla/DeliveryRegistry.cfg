SPECIFICATION Spec
CONSTANTS
  q1 = q1  q2 = q2  c1 = c1  c2 = c2  t1 = t1  t2 = t2  t3 = t3  A = A
  NoConsumer = NoConsumer
  Channels = {c1, c2}
  Queues = {q1, q2}
  SacQueues = {q2}
  ConnOf <- OneConnection
  Number <- OwnNumber
  Tags = {t1, t2, t3}
  ConsumeOptions <- RegistryOptions
  PrefetchCounts = {}
  Perishable = {1}
  ClientOps = {"cancel", "reuseTag", "close", "closeConnection"}
  MaxMessages = 1
  MaxRequeues = 0
CHECK_DEADLOCK FALSE
SYMMETRY Symmetry
INVARIANTS
  RegistryConsistent
  ClosedChannelHoldsNothing
PROPERTY
  SingleActive
