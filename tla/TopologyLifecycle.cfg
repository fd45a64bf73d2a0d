SPECIFICATION Spec
CONSTANTS
  e1 = e1  e2 = e2  q1 = q1  q2 = q2  k = k  t1 = t1  t2 = t2
  cA = cA  cB = cB  c1 = c1  c2 = c2  c3 = c3
  Exchanges = {e1, e2}
  Predeclared = {}
  ExchangeOptions = {TRUE}
  Queues = {q1}
  QueueOptions <- LifecycleOptions
  Keys = {k}
  Tags = {t1, t2}
  Connections = {cA, cB}
  Channels = {c1, c2, c3}
  Callers = {c1, c2}
  ConnOf <- ConnectionEach
  IdOf <- OwnId
  Number <- OwnNumber
  ClientOps = {"delete", "listen"}
CHECK_DEADLOCK FALSE
SYMMETRY Symmetry
INVARIANTS
  TypeOK
  NoDanglingBindings
  ExchangesAutoDeleted
  QueuesAutoDeleted
  ConsumersCounted
  TimersMatchQueues
  ExclusiveQueuesOwned
