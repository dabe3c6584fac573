SPECIFICATION ClientSpec
CONSTANTS
  Keys = {me, other}
  Tokens = {usdc}
  Amounts = {1, 2}
  Salts = {s1}
  MaxU64 = 3
  Accounts = {acct}
  Pool = pool
  Zero = zero
  Capacity = 4
  Listed = {usdc}
  FeeChoices = {0}
  Operators = {}
  Pausers = {}
  Admins = {}
  Holding = 6
  Me = me
  MyAccount = acct
  Slots = {o1, o2}
  MaxEvents = 3
INVARIANTS
  ClientTypeOK
  TrackedWhereInserted
  SpentFlagIsRight
  SubmittedProvable
  NotesPaidFor
CONSTRAINT CallsBound
SYMMETRY ClientSymmetry
CHECK_DEADLOCK FALSE
