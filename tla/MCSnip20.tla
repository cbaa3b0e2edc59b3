------------------------------ MODULE MCSnip20 ------------------------------
(***************************************************************************)
(* The token for TLC: the admin, an owner and a spender.                   *)
(***************************************************************************)
EXTENDS Snip20

\* The owner is listed twice: 1 is added to the supply and to no balance.
ListedTwice == <<[address |-> 2, amount |-> 1], [address |-> 2, amount |-> 1]>>

OwnerAndSpender == {<<2, 3>>}
=============================================================================
