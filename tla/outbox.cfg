SPECIFICATION FairSpec
CONSTANTS
  Events = {1, 2}
  Workers = {w1, w2}
  BatchLimit = 2
  BrokerRestarts = TRUE
  MaxFaults = 3
  None = None
INVARIANTS
  TypeOK
  BatchIsOwn
  OnlyUnsentLost
PROPERTY ImplementsDelivery
