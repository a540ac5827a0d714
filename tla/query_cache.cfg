SPECIFICATION FairSpec
CONSTANTS
  first = first
  second = second
  Accounts = {first, second}
  Writes = {m1}
  Kinds <- MCKinds
  Pages <- MCPages
  MaxVisits = 3
  MaxFaults = 1
CHECK_DEADLOCK FALSE
INVARIANTS
  TypeOK
  FreshDataIsCurrent
PROPERTY SuccessIsShown
