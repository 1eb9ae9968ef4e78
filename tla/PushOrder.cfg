SPECIFICATION FairSpec
CONSTANTS
  Pushers = {"p1"}
  Idents = {"web1", "web2"}
  SendsFor <- AllIdents
  Backends = {b1}
  QueueMaxSize = 2
  QueuePopSize = 1
  WriteConcurrency = 1
  Expiry = 1
  MaxTime = 2
  MaxSamples = 3
  MaxQueues = 3
  
PROPERTIES QueuesDrain
CHECK_DEADLOCK FALSE
