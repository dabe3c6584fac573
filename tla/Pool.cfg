SPECIFICATION Spec
CONSTANTS
  Keys = {k1, k2}
  Tokens = {usdc, weth}
  Amounts = {5, 10}
  Salts = {s1}
  MaxU64 = 15
  Accounts = {alice}
  Pool = pool
  Zero = zero
  Capacity = 3
  Listed = {usdc, weth}
  FeeChoices = {0, 1000, 1001}
  Operators = {ops}
  Pausers = {ops}
  Admins = {ops}
  Holding = 15
  MaxEvents = 2
INVARIANTS
  TypeOK
  InsertedByOneCall
  LogRebuildsTree
  EscrowAccounted
  WholeNoteCanExit
PROPERTY ImplementsLedger
CONSTRAINT PoolBound
SYMMETRY PoolSymmetry
CHECK_DEADLOCK FALSE
