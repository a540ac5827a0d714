SPECIFICATION FairSpec
CONSTANTS
  Ids = {good, bad}
  Poison = {bad}
  Copies = {k1, k2, k3}
  Consumers = {c1, c2}
  Prefetch = 2
  MaxRetries = 1
  MaxFaults = 2
  None = None
INVARIANTS
  TypeOK
  EffectOnce
  NeverLost
  RetriesBounded
PROPERTY EveryMessageSettles
