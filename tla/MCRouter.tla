------------------------------- MODULE MCRouter -------------------------------
(***************************************************************************)
(* Two pools in a row, a-b and b-scrt, and the router, for TLC.            *)
(***************************************************************************)
EXTENDS Router

CONSTANTS ab, bs          \* the pools
CONSTANTS a, b, scrt      \* the tokens
CONSTANTS provider, trader

First == [x \in {ab, bs} |-> IF x = ab THEN a ELSE b]
Second == [x \in {ab, bs} |-> IF x = ab THEN b ELSE scrt]

NoFee == [nom |-> 0, denom |-> 1]
Half == [nom |-> 1, denom |-> 2]
KeptOrBurned == {[swap_fee |-> Half, sienna_fee |-> Half, burned |-> FALSE],
                 [swap_fee |-> NoFee, sienna_fee |-> Half, burned |-> TRUE]}

Hop(t, x) == [token |-> t, pool |-> x]

\* Across both pools in each direction; there and back; through scrt; into a last
\* hop from scrt; into a pool that does not trade the token, first or last.
Paths ==
  {<<Hop(a, ab), Hop(b, bs)>>, <<Hop(scrt, bs), Hop(b, ab)>>,
   <<Hop(a, ab), Hop(b, ab)>>, <<Hop(a, ab), Hop(b, bs), Hop(scrt, bs)>>,
   <<Hop(a, ab), Hop(scrt, bs)>>, <<Hop(a, bs), Hop(b, ab)>>,
   <<Hop(a, ab), Hop(b, ab), Hop(a, bs)>>}

Purses ==
  [u \in Users |-> [t \in Tokens |->
     IF u = provider THEN (IF t = b THEN 3 ELSE 1) ELSE (IF t = b THEN 0 ELSE 1)]]

OneOrTwo == {<<1, 1>>, <<2, 2>>, <<1, 2>>}
ToThePool == {[token |-> a, to |-> ab, amount |-> 1]}
OneThenBoth == {{a}, {a, b}}
Tolerances == {NoSlippage, 2}

\* router/src/contract.rs: a user's "first msg" is to be routed, and "uscrt can
\* only be the input or output token": a route that the first pool could serve is
\* started, whichever token it starts from.
ServableRoutesStart ==
  [][/\ message.kind = "start" /\ CanRoute(message)
     /\ LET hop == message.hops[1]
            there == Moved(balance, hop.token, Router, hop.pool, message.amount)
        IN CanSwap(there, hop.pool, hop.token, message.amount)
     => message' # None]_vars
=============================================================================
