--------------------------- MODULE MCCorrelation ---------------------------
(***************************************************************************)
(* Instances of Correlation for TLC.                                       *)
(***************************************************************************)
EXTENDS CorrelationProofs, TLC

CONSTANTS c1, c2, c3

\* Three calls by id: two of a method that tolerates a timeout, and one whose
\* answer comes in chunks of ticks.
ByIdMethod ==
  c1 :> "executions" @@ c2 :> "executions" @@ c3 :> "historical_ticks"
ByIdItems == c1 :> 1 @@ c2 :> 1 @@ c3 :> 2

\* Two calls by id for the contract: the method that settles for a part of its
\* answer when it times out, and a subscription answered by its first callback,
\* which is cancelled.
ContractMethod == c1 :> "executions" @@ c2 :> "pnl"
ContractItems == c1 :> 2 @@ c2 :> 0

\* Two calls without an id that compete for the same key, and one answered
\* from a cache.
SharedMethod == c1 :> "positions" @@ c2 :> "positions" @@ c3 :> "managed_accounts"
SharedItems == c1 :> 1 @@ c2 :> 1 @@ c3 :> 0
Alike == Permutations({c1, c2})

\* Two callers of the same id-0 method.
CompletedMethod == c1 :> "completed_orders" @@ c2 :> "completed_orders"
TwoItems == c1 :> 1 @@ c2 :> 1
=============================================================================
