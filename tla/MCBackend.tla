----------------------------- MODULE MCBackend -----------------------------
(***************************************************************************)
(* Backend on small instances.                                             *)
(***************************************************************************)
EXTENDS BackendProperties

CONSTANTS MaxEvents,   \* bound on the length of the log
          MaxWork      \* bound on the requests answered, those in flight and
                       \* the hints lost, together

\* While two requests are in flight, the database is there and nothing is lost.
BackendBound ==
  /\ Len(events) <= MaxEvents
  /\ Cardinality(answers) + Cardinality(InFlight) + Cardinality(dropped) <= MaxWork
  /\ Cardinality(InFlight) > 1 => connected /\ dropped = {}

BackendSymmetry == Permutations(Salts) \cup Permutations(Requests)
=============================================================================
