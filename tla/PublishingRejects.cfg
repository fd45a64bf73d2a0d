SPECIFICATION Spec
CONSTANTS
  ex = ex  alt = alt  none = none  a = a  b = b  c = c  k = k  j = j
  Exchanges = {none}
  Default = none
  Internal = {}
  Alternate <- PlainExchanges
  Queues = {c}
  Keys = {c, k}
  QueueBindings = {}
  ExchangeBindings = {}
  MaxLength <- LengthOne
  MaxLengthBytes <- NoBytes
  Overflow <- PlainOverflow
  DeadLetterExchange <- PlainExchanges
  DeadLetterRoutingKey <- PlainKeys
  MessageTtl = {}
  MaxPriority <- NoPriorities
  Publications <- PlainPublications
  ClientOps = {"ack"}
  Gettable = {}
  Consumable = {c}
  Deletable = {}
  MaxPublished = 3
  MaxDeaths = 1
CHECK_DEADLOCK FALSE
INVARIANT
  AckedMeansAccepted
