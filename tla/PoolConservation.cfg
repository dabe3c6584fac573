SPECIFICATION Spec
CONSTANTS
  Keys = {k1}
  Tokens = {usdc}
  Amounts = {5, 10}
  Salts = {s1}
  MaxU64 = 15
  Accounts = {alice}
  Pool = pool
  Zero = zero
  Capacity = 3
  Listed = {usdc}
  FeeChoices = {0}
  Operators = {}
  Pausers = {}
  Admins = {}
  Holding = 15
  MaxEvents = 2
PROPERTY SpendConserves
CONSTRAINT LogBound
CHECK_DEADLOCK FALSE
