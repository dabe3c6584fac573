---------------------------- MODULE MCPoolClient ----------------------------
(***************************************************************************)
(* PoolClient on small instances.                                          *)
(***************************************************************************)
EXTENDS ClientProperties

CONSTANTS MaxEvents    \* bound on the length of the log

LogBound == Len(events) <= MaxEvents

\* While two calls are in flight, no session disconnects or leaves them behind.
CallsBound ==
  /\ LogBound
  /\ Cardinality(InFlight) > 1 =>
       /\ session # "deaf"
       /\ \A s \in InFlight : ops[s].pc # "orphaned"

ClientSymmetry == Permutations(Salts) \cup Permutations(Slots)
=============================================================================
