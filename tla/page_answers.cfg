SPECIFICATION Spec
CONSTANTS
  alice = alice
  bob = bob
  vnd = vnd
  Accounts = {1, 2}
  Ids = {1, 2}
  RowOf <- OneSpelling
  Users = {alice, bob}
  Admins = {}
  Keys = {r1, r2, r3}
  Currencies = {vnd}
  Amounts = {1, 2}
  Requests = {r1, r2, r3}
  Opening <- MCOpening
  Nobody = Nobody
  NoTransfer = NoTransfer
  Forms = {f1, f2}
  Payer <- MCPayer
  Cautious = {f1}
  None = None
SYMMETRY Symmetric
CHECK_DEADLOCK FALSE
INVARIANTS
  TypeOK
  UserIsToldTheTruth
  PaidOnce
