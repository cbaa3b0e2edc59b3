---------------------------- MODULE MCRewardPool ----------------------------
(***************************************************************************)
(* Reward pools for TLC, and the refinement of StakingPromise.             *)
(***************************************************************************)
EXTENDS RewardPool

\* Values of InitialLP.
OneFirst == [u \in Users |-> IF u = 1 THEN 1 ELSE 0]
ByUserNumber == [u \in Users |-> u]
FourAndTwo == [u \in Users |-> IF u = 1 THEN 4 ELSE 2]

StakeOf == [u \in Users |-> account[u].staked]

Funds == Budget(held[RewardToken])

\* The promise, read off the pool: what is not stake is funds.
Promise == INSTANCE StakingPromise WITH
  Owners <- Users,
  OneToken <- SingleSided,
  Places <- Successors \cup Predecessors,
  purse <- wallet,
  stake <- StakeOf,
  funds <- Funds,
  away <- abroad,
  given <- paid,
  sealed <- IsClosed

\* The pool keeps the promise: whatever the timing of deposits, epochs, claims,
\* closing, migration and draining, stakes return to their owners in full and
\* rewards are paid out of what RPT vested.
PromiseKept == Promise!PromiseSpec

=============================================================================
