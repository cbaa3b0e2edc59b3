------------------------------- MODULE Factory -------------------------------
(***************************************************************************)
(* The exchange factories of Sienna Swap (contracts/amm/factory): users    *)
(* create exchanges, one per pair of tokens, and the admin hands a         *)
(* factory's exchanges over to the next version in batches, newest first.  *)
(*                                                                         *)
(* A transaction runs the handler and the messages it returns, and is      *)
(* reverted when any of them fails, so an action is a whole transaction:   *)
(* CreateExchange includes the instantiation of the exchange and of its LP *)
(* token and RegisterExchange, TransferExchanges includes ChangeFactory of *)
(* every exchange sent and ReceiveExchanges of the new factory.            *)
(***************************************************************************)
EXTENDS Lists, FiniteSets

CONSTANTS
  Factories,      \* factory contracts of one admin
  Nobody,
  Pairs,          \* pairs of different tokens, in either order
  TransferLimit,  \* TRANSFER_LIMIT, the size of a batch: 30 in the code
  MaxExchanges    \* bound on the exchanges ever created

ASSUME FactoryAssumption ==
  /\ Nobody \notin Factories
  /\ TransferLimit \in Nat \ {0}
  /\ MaxExchanges \in Nat

VARIABLES
  exchange,   \* the exchange contracts created: their pair and factory_info
  listed,     \* exchanges_store of each factory
  address,    \* NS_EXCHANGES by pair key: the exchange of a pair, or NoExchange
  status,     \* ContractStatusLevel of each factory
  migration,  \* MIGRATION_KEY: the factory each one receives exchanges from
  skipped     \* history: exchanges the admin left out of a transfer

vars == <<exchange, listed, address, status, migration, skipped>>

NoExchange == 0
Levels == {"Operational", "Paused", "Migrating"}
Exchanges == 1..Len(exchange)
Operational(f) == status[f] = "Operational"

SeqOf(s) == {s[i] : i \in 1..Len(s)}

TypeOK ==
  /\ exchange \in Seq([pair: Pairs, factory: Factories])
  /\ listed \in [Factories -> Seq(Nat \ {0})]
  /\ address \in [Factories -> [Pairs -> Nat]]
  /\ status \in [Factories -> Levels]
  /\ migration \in [Factories -> Factories \cup {Nobody}]
  /\ skipped \subseteq Exchanges

Init ==
  /\ exchange = <<>>
  /\ listed = [f \in Factories |-> <<>>]
  /\ address = [f \in Factories |-> [p \in Pairs |-> NoExchange]]
  /\ status = [f \in Factories |-> "Operational"]
  /\ migration = [f \in Factories |-> Nobody]
  /\ skipped = {}

-----------------------------------------------------------------------------
\* store_exchanges, for exchanges of these pairs in this order: it fails when a
\* pair is taken, by an earlier one of the same call too.
CanStore(f, pairs) ==
  /\ \A i \in 1..Len(pairs) : address[f][pairs[i]] = NoExchange
  /\ \A i, j \in 1..Len(pairs) : pairs[i] = pairs[j] => i = j

Stored(f, pairs, xs) ==
  [p \in Pairs |->
     IF p \in SeqOf(pairs) THEN xs[CHOOSE i \in 1..Len(pairs) : pairs[i] = p]
                           ELSE address[f][p]]

\* create_exchange, the exchange's init and register_exchange.  The signature
\* the exchange must show was stored by this transaction and is removed by it.
CreateExchange(f, p) ==
  LET x == Len(exchange) + 1
  IN /\ x <= MaxExchanges
     /\ Operational(f)
     /\ CanStore(f, <<p>>)
     /\ exchange' = Append(exchange, [pair |-> p, factory |-> f])
     /\ listed' = [listed EXCEPT ![f] = Append(@, x)]
     /\ address' = [address EXCEPT ![f] = Stored(f, <<p>>, <<x>>)]
     /\ UNCHANGED <<status, migration, skipped>>

SetMigrationAddress(f, from) ==
  /\ Operational(f)
  /\ migration' = [migration EXCEPT ![f] = from]
  /\ UNCHANGED <<exchange, listed, address, status, skipped>>

\* Mutant of CanSetStatus: a migration can be reverted.
CanSetAnyStatus(old, new) == TRUE

\* can_set_status
CanSetStatus(old, new) == old = "Migrating" => new = "Migrating"

SetStatus(f, level) ==
  /\ CanSetStatus(status[f], level)
  /\ status' = [status EXCEPT ![f] = level]
  /\ UNCHANGED <<exchange, listed, address, migration, skipped>>

\* Mutant of Batch: the list is walked from its start.
OldestFirst(f) ==
  SubSeq(listed[f], 1,
         IF Len(listed[f]) < TransferLimit THEN Len(listed[f]) ELSE TransferLimit)

\* The exchanges a transfer pops off the list, newest first.
Batch(f) ==
  LET n == Len(listed[f])
  IN SubSeq([i \in 1..n |-> listed[f][n + 1 - i]], 1,
            IF n < TransferLimit THEN n ELSE TransferLimit)

\* Mutant of Remaining: exchanges the batch left out are not popped, and as many
\* of those sent stay instead.
RemainingUnlessSkipped(f, skip) ==
  SubSeq(listed[f], 1,
         Len(listed[f]) - Len(Batch(f)) + Cardinality(skip \cap SeqOf(Batch(f))))

Remaining(f, skip) == SubSeq(listed[f], 1, Len(listed[f]) - Len(Batch(f)))

\* Mutant of FactoryChanged: the exchanges keep asking the old factory.
FactoryUnchanged(xs, g) == exchange

\* ChangeFactory of every exchange sent.
FactoryChanged(xs, g) ==
  [x \in Exchanges |->
     IF x \in xs THEN [exchange[x] EXCEPT !.factory = g] ELSE exchange[x]]

\* transfer_exchanges of f to g, followed by change_factory of the exchanges and
\* by receive_exchanges of g.  The pairs stay taken in f.
TransferExchanges(f, g, skip) ==
  LET sent == Without(Batch(f), skip)
      pairs == [i \in 1..Len(sent) |-> exchange[sent[i]].pair]
      left == Remaining(f, skip)
  IN /\ Cardinality(skip) <= Len(Batch(f))   \* else a capacity overflows
     /\ \A x \in SeqOf(sent) : exchange[x].factory = f
     /\ f # g /\ Operational(g)
     /\ migration[g] = f
     /\ CanStore(g, pairs)
     /\ status' = [status EXCEPT ![f] = "Migrating"]
     /\ exchange' = FactoryChanged(SeqOf(sent), g)
     /\ listed' = [listed EXCEPT ![f] = left, ![g] = @ \o sent]
     /\ address' = [address EXCEPT ![g] = Stored(g, pairs, sent)]
     /\ migration' = [migration EXCEPT ![g] = IF left = <<>> THEN Nobody ELSE @]
     /\ skipped' = skipped \cup (SeqOf(Batch(f)) \cap skip)

Next ==
  \/ \E f \in Factories, p \in Pairs : CreateExchange(f, p)
  \/ \E f, from \in Factories : SetMigrationAddress(f, from)
  \/ \E f \in Factories, level \in Levels : SetStatus(f, level)
  \/ \E f, g \in Factories, skip \in SUBSET Exchanges : TransferExchanges(f, g, skip)

Spec == Init /\ [][Next]_vars

-----------------------------------------------------------------------------
(* Safety.                                                                 *)

\* Every exchange a factory lists takes its fees from that factory, and will
\* accept ChangeFactory from it: a hand-over moves the list entry and the
\* exchange's factory_info together, batch by batch and version by version.
ListedObeyTheirFactory ==
  \A f \in Factories : \A x \in SeqOf(listed[f]) : exchange[x].factory = f

\* An exchange is listed once, by one factory, which has no other for its pair: it
\* answers for the pair with that exchange.
ListedOnce ==
  /\ TypeOK
  /\ \A f, g \in Factories :
       \A i \in 1..Len(listed[f]), j \in 1..Len(listed[g]) :
         listed[f][i] = listed[g][j] => f = g /\ i = j
  /\ \A f \in Factories : \A x \in SeqOf(listed[f]) : address[f][exchange[x].pair] = x

\* An exchange disappears from every list only when the admin skips it.
ListedUnlessSkipped ==
  \A x \in Exchanges : x \in skipped \/ \E f \in Factories : x \in SeqOf(listed[f])

\* Once the migration of a factory has begun it never lists an exchange it did
\* not have: its list only shrinks, whatever the admin and users do.
MigrationOnlyEmpties ==
  [][\A f \in Factories :
       status[f] = "Migrating" =>
         /\ status'[f] = "Migrating"
         /\ SeqOf(listed'[f]) \subseteq SeqOf(listed[f])]_vars
=============================================================================
