------------------------------- MODULE MCIdo -------------------------------
(***************************************************************************)
(* The launchpad with two tokens and one sale, for TLC: two users, one of  *)
(* whom can lock more in several deposits than a Decimal holds.            *)
(***************************************************************************)
EXTENDS Ido

CONSTANTS u1, u2, a, b

AB == <<[token |-> a, segment |-> 2, bonding |-> 1], [token |-> b, segment |-> 1, bonding |-> 0]>>
NewA == {[token |-> a, segment |-> 1, bonding |-> 0]}

\* Users with much to lock and nothing to buy with, the other way round, and a user
\* who locks one segment, is drawn, and buys.
Lockers == (u1 :> (a :> 5 @@ b :> 0)) @@ (u2 :> (a :> 0 @@ b :> 1))
Nothing == [u \in Users |-> [t \in LockTokens |-> 0]]
OneLocker == (u1 :> (a :> 0 @@ b :> 0)) @@ (u2 :> (a :> 0 @@ b :> 1))
SomeWallets == {Lockers, OneLocker, Nothing}
SomeMeans ==
  {[wallets |-> Lockers, pays |-> [u \in Users |-> 0], sells |-> 0],
   [wallets |-> Nothing, pays |-> [u \in Users |-> 3], sells |-> 6],
   [wallets |-> OneLocker, pays |-> (u1 :> 0) @@ (u2 :> 2), sells |-> 6]}

SaleTo(whitelist, type, input) ==
  [whitelist |-> whitelist, asked |-> <<b, a>>, max_seats |-> 2, max_allocation |-> 3,
   min_allocation |-> 1, rate |-> 3, sale_type |-> type, input |-> input]

SomeSales ==
  {SaleTo(<<>>, "PreLockAndSwap", "custom"), SaleTo(<<u1>>, "PreLockOnly", "native")}

OneOrOther == {<<u1>>, <<u2>>}
=============================================================================
