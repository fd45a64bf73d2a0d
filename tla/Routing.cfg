SPECIFICATION Spec
CONSTANTS
  plain = plain  ext = ext  one = one  two = two  Void = Void
  Types = {"direct", "fanout", "topic", "headers"}
  RoutingKeys <- SomeKeys
  Patterns <- SomePatterns
  HeaderTables <- MoreTables
  ArgumentTables <- SomeTables
  Extensions = {ext}
  MaxBindings <- FewBindings
INVARIANTS
  TypeOK
  TopicsDealt
  ModesOrdered
PROPERTY
  HeadersMonotone
