SPECIFICATION ProverSpec
CONSTANTS
  MaxCalls = 2
  MaxAttempts = 3
  MaxFaults = 3
INVARIANTS
  ProverTypeOK
  ProofIsOwn
  HintIsOwn
  NothingLeftBehind
PROPERTY EveryCallAnswered
CHECK_DEADLOCK FALSE
