------------------------------- MODULE MCLend -------------------------------
(***************************************************************************)
(* Sienna Lend for TLC: a market whose suppliers borrow from it, and two   *)
(* markets, where user 1 has atoms to pledge and user 2 has scrt to lend.  *)
(***************************************************************************)
EXTENDS Lend

CONSTANTS atom, scrt   \* the markets


PerMarket(a, s) == [m \in Markets |-> IF m = atom THEN a ELSE s]

Purses == PerMarket([u \in Users |-> IF u = 1 THEN 10 ELSE 0],
                    [u \in Users |-> IF u = 1 THEN 0 ELSE 8])
OnePurse == PerMarket([u \in Users |-> 0], [u \in Users |-> IF u = 1 THEN 8 ELSE 4])
Payments == PerMarket({10}, {4})
OnePayments == PerMarket({}, {4})
Quotes == PerMarket({4}, {4, 8})
Ratios == PerMarket({2, 3}, {0})
OneRatio == PerMarket({}, {2})
OneQuote == PerMarket({}, {4})

\* Both supply, borrow and repay; user 2 liquidates.
Anything == [u \in Users |->
               UserMessages \ IF u = 1 THEN {"liquidate", "accrue"} ELSE {"transfer"}]

\* User 1 pledges atoms and borrows scrt; user 2 lends scrt and liquidates.
Parts == [u \in Users |->
            IF u = 1 THEN UserMessages \ {"liquidate", "transfer", "accrue"}
            ELSE {"deposit", "liquidate"}]

\* accrue_interest caps the borrow rate rather than fail, "because that would
\* freeze all operations on the contract, locking any funds inside it forever":
\* whatever users do, some rate must be defined.
MarketsStayOpen ==
  \A m \in Markets :
    RateDefined(cash[m], market[m].borrows, market[m].reserves)
=============================================================================
