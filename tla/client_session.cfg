SPECIFICATION Spec
CONSTANTS
  a0 = a0
  a1 = a1
  b1 = b1
  ann = ann
  ben = ben
  Tokens = {a0, a1, b1}
  Owner <- MCOwner
  Legacy = a0
  MaxRequests = 2
  None = None
INVARIANTS
  TypeOK
  SnapshotMatchesToken
  SessionIsLatest
  ActsAsShown
  OwnDataOnly
