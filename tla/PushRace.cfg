SPECIFICATION Spec
CONSTANTS
  Pushers = {"p1", "p2"}
  Idents = {"web1"}
  SendsFor <- AllIdents
  Backends = {b1, b2}
  QueueMaxSize = 1
  QueuePopSize = 2
  WriteConcurrency = 2
  Expiry = 1
  MaxTime = 2
  MaxSamples = 3
  MaxQueues = 2
INVARIANTS TypeOK OverrunBounded NeverTwice AllBackendsServed
CHECK_DEADLOCK FALSE
