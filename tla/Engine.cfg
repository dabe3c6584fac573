SPECIFICATION EngineSpec
CONSTANTS
  MaxRequests = 2
  Holder = alice
  Stock <- MCStock
  Owners = {alice, bob}
  alice = alice
  d1 = d1
  d2 = d2
  DepositOwner <- MCDepositOwner
  Deposits = {d1}
  Amounts = {1, 3}
  DepositAmount <- MCDepositAmount
  MaxPolls = 2
  MaxFaults = 2
INVARIANTS
  EngineTypeOK
  SignedIsLocked
  ListsNameNotes
  LaterRequestRefused
  BookBacked
  NothingLost
CHECK_DEADLOCK FALSE
