SPECIFICATION FairSpec
CONSTANTS
  Producers = {p1, p2}
  Consumers = {c1, c2}
  MaxSize = 2
  PushLimit = 2
INVARIANTS
  TypeOK
  ProducersWoken
  ConsumersWoken
PROPERTIES
  ShutdownReleases
  ItemsArePopped
  ImplementsFifo
