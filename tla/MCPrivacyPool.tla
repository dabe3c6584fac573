--------------------------- MODULE MCPrivacyPool ---------------------------
(***************************************************************************)
(* PrivacyPool on small instances.                                         *)
(***************************************************************************)
EXTENDS PoolProperties, TLC

CONSTANTS MaxEvents    \* bound on the length of the log

LogBound == Len(events) <= MaxEvents

\* How many of the settings differ from the usual ones.
Changes ==
  Len(SelectSeq(<<protocolFeeBps = 0, feeRecipient = Pool,
                  whitelistedTokens # Listed, paused>>, LAMBDA b : b))

\* The log is bounded, and the administrators change one setting at a time.
PoolBound ==
  /\ LogBound
  /\ whitelistedTokens # {}
  /\ Changes <= 1

PoolSymmetry == Permutations(Salts) \cup Permutations(Keys) \cup Permutations(Tokens)
=============================================================================
