SPECIFICATION ClientSpec
CONSTANTS
  Keys = {me, other}
  Tokens = {usdc}
  Amounts = {1, 2}
  Salts = {s1}
  MaxU64 = 4
  Accounts = {acct}
  Pool = pool
  Zero = zero
  Capacity = 4
  Listed = {usdc}
  FeeChoices = {0}
  Operators = {}
  Pausers = {}
  Admins = {}
  Holding = 6
  Me = me
  MyAccount = acct
  Slots = {o1}
  MaxEvents = 2
INVARIANTS
  TreeKeptUpToDate
CONSTRAINT LogBound
SYMMETRY ClientSymmetry
CHECK_DEADLOCK FALSE
