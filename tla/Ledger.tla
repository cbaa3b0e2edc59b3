------------------------------- MODULE Ledger -------------------------------
(***************************************************************************)
(* The ledger of the SIENNA token (contracts/tge/snip20-sienna): who holds *)
(* what, how much there is, and who may change either.  Snip20 adds        *)
(* allowances, history and keys; Tge puts the vesting contracts on top.    *)
(*                                                                         *)
(* A handler runs to completion in one transaction, and one that returns   *)
(* an error changes nothing: an action is enabled where its handler        *)
(* succeeds.  Addresses are 1..N.                                          *)
(***************************************************************************)
EXTENDS Sums, Sequences, SequencesExt

CONSTANTS
  N,               \* number of addresses
  MaxUint,         \* u128::MAX, scaled down
  InitialBalances, \* msg.initial_balances
  FirstAdmin       \* msg.admin, or whoever instantiates the token

Holders == 1..N

ASSUME LedgerAssumption ==
  /\ N \in Nat \ {0}
  /\ MaxUint \in Nat
  /\ InitialBalances \in Seq([address: Holders, amount: 0..MaxUint])
  /\ FirstAdmin \in Holders

VARIABLES
  balances,     \* 0 where nothing is stored
  total_supply,
  minters,      \* a Vec in the source, used as a set
  token_admin,  \* Constants.admin
  stopped       \* the status is StopAll

ledgerVars == <<balances, total_supply, minters, token_admin, stopped>>

LedgerTypeOK ==
  /\ balances \in [Holders -> Nat]
  /\ total_supply \in 0..MaxUint
  /\ minters \subseteq Holders
  /\ token_admin \in Holders
  /\ stopped \in BOOLEAN

-----------------------------------------------------------------------------
(* init                                                                    *)

Places(list, h) == {i \in DOMAIN list : list[i].address = h}

\* Each entry of the list sets a balance, replacing what an earlier one set ...
BalancesFrom(list) ==
  [h \in Holders |-> IF Places(list, h) = {} THEN 0 ELSE list[Max(Places(list, h))].amount]

\* ... and all of them are added to the supply.
AddedUp(list, places) == SumOver([i \in DOMAIN list |-> list[i].amount], places)
SupplyFrom(list) == AddedUp(list, DOMAIN list)

\* What the entries that a later one for the same address replaced had added to
\* the supply.
Replaced(list) == {i \in DOMAIN list : \E j \in DOMAIN list : i < j /\ list[i].address = list[j].address}
Overwritten == AddedUp(InitialBalances, Replaced(InitialBalances))

LedgerInit ==
  /\ SupplyFrom(InitialBalances) <= MaxUint
  /\ balances = BalancesFrom(InitialBalances)
  /\ total_supply = SupplyFrom(InitialBalances)
  /\ minters = {FirstAdmin}
  /\ token_admin = FirstAdmin
  /\ stopped = FALSE

-----------------------------------------------------------------------------
(* The handlers' effects on the ledger, for a message from `sender`.  In   *)
(* StopAll every message fails but SetContractStatus.                      *)

\* perform_transfer: the sender's balance is stored before the recipient's is
\* read, which may be the same.
CanTransfer(from, to, n) ==
  LET left == [balances EXCEPT ![from] = @ - n]
  IN n <= balances[from] /\ left[to] + n <= MaxUint

\* Mutant of Transferred: both balances are read before either is stored.
TransferredStale(from, to, n) ==
  [balances EXCEPT ![from] = balances[from] - n, ![to] = balances[to] + n]

Transferred(from, to, n) ==
  LET left == [balances EXCEPT ![from] = @ - n]
  IN [left EXCEPT ![to] = @ + n]

MoveTokens(from, to, n) ==
  /\ ~stopped
  /\ CanTransfer(from, to, n)
  /\ balances' = Transferred(from, to, n)
  /\ UNCHANGED <<total_supply, minters, token_admin, stopped>>

CanMint(sender, to, n) ==
  /\ sender \in minters
  /\ total_supply + n <= MaxUint
  /\ balances[to] + n <= MaxUint

\* try_mint
MintTokens(sender, to, n) ==
  /\ ~stopped
  /\ CanMint(sender, to, n)
  /\ total_supply' = total_supply + n
  /\ balances' = [balances EXCEPT ![to] = @ + n]
  /\ UNCHANGED <<minters, token_admin, stopped>>

\* What try_burn and try_burn_from have in common.
BurnTokens(owner, n) ==
  /\ ~stopped
  /\ n <= balances[owner]
  /\ n <= total_supply
  /\ balances' = [balances EXCEPT ![owner] = @ - n]
  /\ total_supply' = total_supply - n
  /\ UNCHANGED <<minters, token_admin, stopped>>

\* check_if_admin
IsTokenAdmin(sender) == sender = token_admin

\* set_minters, add_minters and remove_minters
SetMinters(sender, new) ==
  /\ ~stopped
  /\ IsTokenAdmin(sender)
  /\ minters' = new
  /\ UNCHANGED <<balances, total_supply, token_admin, stopped>>

AddMinters(sender, new) == SetMinters(sender, minters \cup new)

RemoveMinters(sender, old) == SetMinters(sender, minters \ old)

\* change_admin: the minters stay who they are.
ChangeTokenAdmin(sender, new) ==
  /\ ~stopped
  /\ IsTokenAdmin(sender)
  /\ token_admin' = new
  /\ UNCHANGED <<balances, total_supply, minters, stopped>>

\* set_contract_status
SetContractStatus(sender, stop) ==
  /\ IsTokenAdmin(sender)
  /\ stopped' = stop
  /\ UNCHANGED <<balances, total_supply, minters, token_admin>>

-----------------------------------------------------------------------------
\* What the accounts hold adds up to the supply, less what duplicates in the
\* initial list added to it: transfers to oneself, mints and burns of every kind
\* keep the two together, and a balance never overflows before the supply does, as
\* try_mint's comment has it (contract.rs:328).
SupplyIsAccounted ==
  /\ LedgerTypeOK
  /\ Overwritten <= total_supply
  /\ SumsTo(balances, N, total_supply - Overwritten)
=============================================================================
