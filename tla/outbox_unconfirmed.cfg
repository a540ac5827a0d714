SPECIFICATION Spec
CONSTANTS
  Events = {1, 2}
  Workers = {w1, w2}
  BatchLimit = 2
  BrokerRestarts = FALSE
  MaxFaults = 1
  None = None
SYMMETRY Symmetric
INVARIANT EventNeverLost
