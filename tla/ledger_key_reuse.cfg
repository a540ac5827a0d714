SPECIFICATION Spec
CONSTANTS
  Accounts = {1, 2, 3}
  Ids = {0, 1, 2, 3}
  RowOf <- MCRowOf
  alice = alice
  bob = bob
  root = root
  k1 = k1
  k2 = k2
  vnd = vnd
  usd = usd
  Users = {alice, bob, root}
  Admins = {root}
  Keys = {k1, k2}
  Currencies = {vnd, usd}
  Amounts = {1, 2, 4}
  Requests = {r1, r2}
  Opening <- MCOpening
  Commands <- Reuse
  Nobody = Nobody
  NoTransfer = NoTransfer
  NoRow = NoRow
  PoolMax = 10
  ForeignKeys = TRUE
INVARIANT KeyReuseRefused
