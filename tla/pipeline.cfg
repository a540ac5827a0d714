SPECIFICATION FairSpec
CONSTANTS
  alice = alice
  vnd = vnd
  r1 = r1
  r2 = r2
  Accounts = {1, 2}
  Ids = {1, 2}
  RowOf <- OneSpelling
  Users = {alice}
  Admins = {}
  Keys = {k1}
  Currencies = {vnd}
  Amounts = {1}
  Requests = {r1}
  Opening <- OneFunded
  Nobody = Nobody
  NoTransfer = NoTransfer
  Number <- InOrder
  Workers = {w1, w2}
  BatchLimit = 1
  BrokerRestarts = TRUE
  RelayFaults = 1
  Copies = {copy1, copy2}
  Consumers = {c1}
  Prefetch = 1
  MaxRetries = 1
  ConsumerFaults = 2
  None = None
INVARIANTS
  EffectsAreTransfers
  TransferNeverLost
PROPERTY ImplementsSettlement
