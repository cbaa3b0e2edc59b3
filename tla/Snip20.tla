------------------------------- MODULE Snip20 -------------------------------
(***************************************************************************)
(* The SIENNA token: the ledger with its allowances, which expire, the     *)
(* history of transfers each party can page through, and the receivers     *)
(* that Send calls back.                                                   *)
(*                                                                         *)
(* A callback that the receiver refuses reverts the whole Send: only those *)
(* it accepts are steps.  What a receiver does with the tokens is its own  *)
(* affair (RewardPool, Router and Ido).                                    *)
(***************************************************************************)
EXTENDS Ledger

CONSTANTS
  Amounts,      \* amounts of transfers, mints, burns and allowances
  Expirations,  \* expirations given to allowances
  MinterLists,  \* lists of minters its admin sets, adds or removes
  Admins,       \* whom an admin makes admin
  Contracts,    \* the accounts that register for callbacks
  Approvals,    \* the owners and spenders examined, as pairs
  MaxTx,        \* bound on the transfers made
  MaxTime       \* bound on env.block.time

NoExpiration == -1

ASSUME Snip20Assumption ==
  /\ Amounts \subseteq Nat
  /\ Expirations \subseteq Nat
  /\ MinterLists \subseteq SUBSET Holders /\ Admins \subseteq Holders
  /\ Approvals \subseteq Holders \X Holders
  /\ Contracts \subseteq Holders
  /\ MaxTx \in Nat /\ MaxTime \in Nat

VARIABLES
  allowances,   \* by owner and spender
  transfers,    \* the AppendStore of each account
  tx_count,
  receivers,    \* accounts with a registered code hash
  told,         \* what each receiver was told it received, by callbacks
  now,          \* env.block.time
  issued        \* what was minted to an account less what was burned of it,
                \* its initial balance included

snipVars == <<allowances, transfers, tx_count, receivers, told, now, issued>>
vars == <<ledgerVars, snipVars>>

Tx == [id: 1..MaxTx, from: Holders, sender: Holders, receiver: Holders, amount: Nat]
Allowance == [amount: 0..MaxUint, expiration: Nat \cup {NoExpiration}]

TypeOK ==
  /\ LedgerTypeOK
  /\ allowances \in [Holders \X Holders -> Allowance]
  /\ transfers \in [Holders -> Seq(Tx)]
  /\ tx_count \in 0..MaxTx
  /\ receivers \subseteq Holders
  /\ told \in [Holders -> Nat]
  /\ now \in 0..MaxTime
  /\ issued \in [Holders -> Int]

Init ==
  /\ LedgerInit
  /\ allowances = [p \in Holders \X Holders |-> [amount |-> 0, expiration |-> NoExpiration]]
  /\ transfers = [h \in Holders |-> <<>>]
  /\ tx_count = 0
  /\ receivers = {}
  /\ told = [h \in Holders |-> 0]
  /\ now = 0
  /\ issued = balances

-----------------------------------------------------------------------------
(* History                                                                 *)

\* append_tx
Appended(store, tx, h) == [store EXCEPT ![h] = Append(@, tx)]

\* Mutant of Stored: a transfer by a spender is not in the owner's history.
StoredForTheSender(tx) == Appended(Appended(transfers, tx, tx.sender), tx, tx.receiver)

\* The owner's history, when somebody else made the transfer, the sender's, and the
\* receiver's, even if that is the sender again.
Stored(tx) ==
  LET first == IF tx.from # tx.sender THEN Appended(transfers, tx, tx.from) ELSE transfers
  IN Appended(Appended(first, tx, tx.sender), tx, tx.receiver)

\* store_transfer
StoreTransfer(owner, sender, receiver, n) ==
  /\ tx_count < MaxTx
  /\ tx_count' = tx_count + 1
  /\ transfers' = Stored([id |-> tx_count + 1, from |-> owner, sender |-> sender,
                          receiver |-> receiver, amount |-> n])

\* get_transfers: the given page of an account's history, newest first.
GetTransfers(h, page, page_size) ==
  LET newest == Reverse(transfers[h])
      first == page * page_size + 1
  IN SubSeq(newest, first, LeastOf(first + page_size - 1, Len(newest)))

-----------------------------------------------------------------------------
(* Allowances                                                              *)

IsExpired(a) == a.expiration # NoExpiration /\ a.expiration < now

\* What try_transfer_from_impl and try_burn_from do to the allowance.  The amount
\* of an expired one is set to 0 in a call that then fails: it stays stored.
UseAllowance(owner, spender, n) ==
  LET a == allowances[<<owner, spender>>]
  IN /\ ~IsExpired(a)
     /\ n <= a.amount
     /\ allowances' = [allowances EXCEPT ![<<owner, spender>>].amount = @ - n]

\* An expiration is only changed when one is given.
Renewed(a, expiration) ==
  IF expiration = NoExpiration THEN a ELSE [a EXCEPT !.expiration = expiration]

-----------------------------------------------------------------------------
(* Handlers                                                                *)

\* What try_transfer_impl and try_transfer_from_impl do once the sender may.
Move(owner, sender, recipient, n) ==
  /\ MoveTokens(owner, recipient, n)
  /\ StoreTransfer(owner, sender, recipient, n)
  /\ UNCHANGED <<receivers, now, issued>>

\* try_add_receiver_api_callback: a registered recipient hears of it, and accepts.
Tell(recipient, n) ==
  told' = IF recipient \in receivers THEN [told EXCEPT ![recipient] = @ + n] ELSE told

\* try_transfer
Transfer(sender, recipient, n) ==
  /\ Move(sender, sender, recipient, n)
  /\ UNCHANGED <<allowances, told>>

\* try_send
Send(sender, recipient, n) ==
  /\ Move(sender, sender, recipient, n)
  /\ Tell(recipient, n)
  /\ UNCHANGED allowances

\* try_transfer_from
TransferFrom(spender, owner, recipient, n) ==
  /\ UseAllowance(owner, spender, n)
  /\ Move(owner, spender, recipient, n)
  /\ UNCHANGED told

\* try_send_from
SendFrom(spender, owner, recipient, n) ==
  /\ UseAllowance(owner, spender, n)
  /\ Move(owner, spender, recipient, n)
  /\ Tell(recipient, n)

\* try_burn_from
BurnFrom(spender, owner, n) ==
  /\ UseAllowance(owner, spender, n)
  /\ BurnTokens(owner, n)
  /\ issued' = [issued EXCEPT ![owner] = @ - n]
  /\ UNCHANGED <<transfers, tx_count, receivers, told, now>>

\* try_burn
Burn(sender, n) ==
  /\ BurnTokens(sender, n)
  /\ issued' = [issued EXCEPT ![sender] = @ - n]
  /\ UNCHANGED <<allowances, transfers, tx_count, receivers, told, now>>

\* try_mint
Mint(sender, recipient, n) ==
  /\ MintTokens(sender, recipient, n)
  /\ issued' = [issued EXCEPT ![recipient] = @ + n]
  /\ UNCHANGED <<allowances, transfers, tx_count, receivers, told, now>>

\* try_increase_allowance: saturates.
IncreaseAllowance(owner, spender, n, expiration) ==
  LET a == allowances[<<owner, spender>>]
      more == [a EXCEPT !.amount = LeastOf(@ + n, MaxUint)]
  IN /\ ~stopped
     /\ allowances' = [allowances EXCEPT ![<<owner, spender>>] = Renewed(more, expiration)]
     /\ UNCHANGED <<ledgerVars, transfers, tx_count, receivers, told, now, issued>>

\* try_decrease_allowance: saturates.
DecreaseAllowance(owner, spender, n, expiration) ==
  LET a == allowances[<<owner, spender>>]
      less == [a EXCEPT !.amount = MinusOrZero(@, n)]
  IN /\ ~stopped
     /\ allowances' = [allowances EXCEPT ![<<owner, spender>>] = Renewed(less, expiration)]
     /\ UNCHANGED <<ledgerVars, transfers, tx_count, receivers, told, now, issued>>

\* try_register_receive
RegisterReceive(sender) ==
  /\ ~stopped
  /\ receivers' = receivers \cup {sender}
  /\ UNCHANGED <<ledgerVars, allowances, transfers, tx_count, told, now, issued>>

\* set_minters, add_minters, remove_minters, change_admin, set_contract_status
Administer(sender) ==
  /\ \/ \E some \in MinterLists :
          \/ SetMinters(sender, some)
          \/ AddMinters(sender, some)
          \/ RemoveMinters(sender, some)
     \/ \E h \in Admins : ChangeTokenAdmin(sender, h)
     \/ \E stop \in BOOLEAN : SetContractStatus(sender, stop)
  /\ UNCHANGED snipVars

Tick ==
  /\ now < MaxTime
  /\ now' = now + 1
  /\ UNCHANGED <<ledgerVars, allowances, transfers, tx_count, receivers, told, issued>>

Next ==
  \/ \E sender \in Holders :
       \/ \E h \in Holders, n \in Amounts :
            Transfer(sender, h, n) \/ Send(sender, h, n) \/ Mint(sender, h, n)
       \/ \E n \in Amounts : Burn(sender, n)
       \/ Administer(sender)
  \/ \E sender \in Contracts : RegisterReceive(sender)
  \/ \E p \in Approvals, n \in Amounts :
       \/ \E h \in Holders : TransferFrom(p[2], p[1], h, n) \/ SendFrom(p[2], p[1], h, n)
       \/ BurnFrom(p[2], p[1], n)
       \/ \E e \in Expirations \cup {NoExpiration} :
            IncreaseAllowance(p[1], p[2], n, e) \/ DecreaseAllowance(p[1], p[2], n, e)
  \/ Tick

Spec == Init /\ [][Next]_vars

-----------------------------------------------------------------------------
(* Properties                                                              *)

\* All an account sees by asking for page after page of its history.
Seen(h, page_size) ==
  UNION {ToSet(GetTransfers(h, page, page_size)) : page \in 0..Len(transfers[h])}

\* What was transferred to an account, or from it, in the given transfers.
TotalOf(txs) == SumOver([tx \in txs |-> tx.amount], txs)
Received(h, txs) == TotalOf({tx \in txs : tx.receiver = h})
Given(h, txs) == TotalOf({tx \in txs : tx.from = h})

\* What an account can read of its own history explains its balance: it misses no
\* transfer of its tokens, by itself or a spender, none it received, and the
\* pages neither skip nor invent any; what is left was minted to it or burned.
\* What a receiver was told by callbacks is in its history as received.
HistoryExplainsBalances ==
  /\ TypeOK
  /\ \A h \in Holders, page_size \in 1..2 :
       LET seen == Seen(h, page_size)
       IN /\ balances[h] = issued[h] + Received(h, seen) - Given(h, seen)
          /\ told[h] <= Received(h, seen)
=============================================================================
