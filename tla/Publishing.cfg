SPECIFICATION Spec
CONSTANTS
  ex = ex  alt = alt  none = none  a = a  b = b  c = c  k = k  j = j
  Exchanges = {ex, alt, none}
  Default = none
  Internal = {alt}
  Alternate <- EachAlternate
  Queues = {a, b, c}
  Keys = {a, b, c, k, j}
  QueueBindings <- AllBindings
  ExchangeBindings = {}
  MaxLength <- LengthOne
  MaxLengthBytes <- BytesTwo
  Overflow <- RingOverflow
  DeadLetterExchange <- RingExchanges
  DeadLetterRoutingKey <- RingKeys
  MessageTtl = {b, c}
  MaxPriority <- TwoPriorities
  Publications <- RingPublications
  ClientOps = {"reject", "multiple", "ack", "requeue"}
  Gettable = {a}
  Consumable = {b}
  Deletable = {alt}
  MaxPublished = 2
  MaxDeaths = 2
CHECK_DEADLOCK FALSE
INVARIANTS
  TypeOK
  AutomaticDeathsOnce
  XDeathTruthful
  ConsumersServed
  DeadLetteredIsGone
  ConfirmsComplete
PROPERTY
  LimitsHold
