SPECIFICATION BackendSpec
CONSTANTS
  Keys = {org, emp}
  Tokens = {usdc}
  Amounts = {1, 2}
  Salts = {s1}
  MaxU64 = 3
  Accounts = {acct}
  Pool = pool
  Zero = zero
  Capacity = 4
  Listed = {usdc}
  FeeChoices = {0}
  Operators = {}
  Pausers = {}
  Admins = {}
  Holding = 6
  Org = org
  Employees = {emp}
  Callers = {emp}
  Wallet = acct
  Requests = {r1, r2}
  MaxEvents = 3
  MaxWork = 3
INVARIANTS
  BackendTypeOK
  AnswerIsProved
  BalanceIsLive
  FoundByNextSession
  PaymentsWereMade
CONSTRAINT BackendBound

SYMMETRY BackendSymmetry
CHECK_DEADLOCK FALSE
