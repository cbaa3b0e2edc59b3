------------------------------- MODULE Router -------------------------------
(***************************************************************************)
(* The swap router (contracts/amm/router) over the exchanges: a user sends *)
(* tokens with a route, and the router forwards them from pool to pool.    *)
(*                                                                         *)
(* A route is one transaction of several messages: the router's state is   *)
(* stored by one call and read by the next ones, which the tokens' Send    *)
(* callbacks make.  Messages are delivered depth first, so FinalizeRoute,  *)
(* returned last by the first hop, comes when nothing else is left.  Each  *)
(* action delivers one message; a message that fails reverts all of them.  *)
(* No other transaction runs in between.                                   *)
(*                                                                         *)
(* In the source the router's Receive has no field for the sender that     *)
(* SNIP-20 tokens name, and refuses unknown fields: no token can call it.  *)
(* StrictParsing is TRUE for the router as it is, and FALSE for one that   *)
(* ignores the field, to examine the routes themselves.                    *)
(***************************************************************************)
EXTENDS Exchange, Sequences

CONSTANTS
  StrictParsing,        \* the router refuses messages with fields it lacks
  Routes,               \* the routes users send
  Providers, Traders,   \* the users that provide liquidity, and those that swap
  Deposits,             \* amounts providers deposit
  Gifts,                \* plain transfers users may make
  TokenLists            \* lists of tokens the router's owner registers

Hops == [token: Tokens, pool: Pools]

ASSUME RouterAssumption ==
  /\ StrictParsing \in BOOLEAN
  /\ \A hops \in Routes : hops \in Seq(Hops) /\ hops # <<>>
  /\ Providers \subseteq Users /\ Traders \subseteq Users
  /\ Deposits \subseteq Nat \X Nat
  /\ Gifts \subseteq [token: Tokens, to: Pools \cup {Router}, amount: Nat]
  /\ TokenLists \subseteq SUBSET (Tokens \ {Native})

VARIABLES
  registered, \* tokens that call the router back: TOKENS
  route,      \* RouteState, or NoRoute
  message,    \* the message to deliver next, or None
  sent        \* what the user sent, and the balances before: None between routes

vars == <<exchangeVars, registered, route, message, sent>>

NoRoute == [hops |-> <<>>]
None == [kind |-> "none"]
NoHop == <<>>
Busy == message # None

SwapMessages == [kind: {"swap"}, pool: Pools, token: Tokens, amount: Nat,
                 expected_return: Nat, to: Users \cup {Router}]
StartMessages == [kind: {"start"}, token: Tokens, amount: Nat, hops: Routes,
                  expected_return: Nat, to: Users]
ReceiveMessages == [kind: {"receive"}, token: Tokens, from: Pools, amount: Nat]

TypeOK ==
  /\ ExchangeTypeOK
  /\ registered \subseteq Tokens \ {Native}
  /\ \/ route = NoRoute
     \/ route \in [is_done: BOOLEAN, current_hop: Hops \cup {NoHop},
                   hops: Seq(Hops), expected_return: Nat, to: Users]
  /\ message \in StartMessages \cup SwapMessages \cup ReceiveMessages
                   \cup {None, [kind |-> "finalize"]}

Init ==
  /\ ExchangeInit
  /\ registered = {}
  /\ route = NoRoute
  /\ message = None
  /\ sent = None

-----------------------------------------------------------------------------
(* Messages of the router and their delivery.                              *)

\* The router has n of the hop's token and sends them to the hop's pool with a
\* swap message.  A token the pool does not trade does not call it back.
SendToPool(b, hop, n, expected_return, to) ==
  /\ balance' = Moved(b, hop.token, Router, hop.pool, n)
  /\ message' = IF hop.token \in PairOf(hop.pool)
                THEN [kind |-> "swap", pool |-> hop.pool, token |-> hop.token,
                      amount |-> n, expected_return |-> expected_return, to |-> to]
                ELSE [kind |-> "finalize"]

\* The messages of a failed transaction leave no trace.
Revert ==
  /\ balance' = sent.balance
  /\ route' = NoRoute
  /\ message' = None
  /\ sent' = None

\* A user sends n of token t to the router with a route: a native token in a
\* message to the router, any other by its Send, which calls the router if it
\* has registered and only leaves the tokens there if not.
SendRoute(u, t, n, hops, expected_return, to) ==
  /\ ~Busy
  /\ n <= balance[u][t]
  /\ balance' = Moved(balance, t, u, Router, n)
  /\ \/ /\ t \in registered \cup {Native}
        /\ message' = [kind |-> "start", token |-> t, amount |-> n, hops |-> hops,
                       expected_return |-> expected_return, to |-> to]
        /\ sent' = [balance |-> balance, from |-> u, token |-> t, amount |-> n,
                    expected_return |-> expected_return, to |-> to,
                    last |-> hops[Len(hops)]]
     \/ /\ t \notin registered \cup {Native}
        /\ UNCHANGED <<message, sent>>
  /\ UNCHANGED <<share, supply, settings, gifted, registered, route>>

\* The message can be parsed by the contract it is for: a token's Receive by the
\* router, and a swap by an exchange.  NativeSwap names its amount offer_asset,
\* the exchange's Swap has a field offer instead.
Understood(m) ==
  CASE m.kind \in {"start", "receive"} -> m.token = Native \/ ~StrictParsing
    [] m.kind = "swap" -> m.token # Native

\* The route of a start message is accepted.  Only the hops between the first
\* and the last are looked at for uscrt.
CanRoute(m) ==
  /\ Len(m.hops) >= 2
  /\ \A i \in 2..(Len(m.hops) - 1) : m.hops[i].token # Native
  /\ m.hops[1].token = m.token

\* handle_first_hop
HandleFirstHop ==
  LET m == message
      accepted == Understood(m) /\ CanRoute(m)
  IN /\ m.kind = "start"
     /\ \/ /\ accepted
           /\ route' = [is_done |-> FALSE, current_hop |-> m.hops[1], hops |-> Tail(m.hops),
                        expected_return |-> m.expected_return, to |-> m.to]
           /\ SendToPool(balance, m.hops[1], m.amount, 0, Router)
           /\ UNCHANGED sent
        \/ ~accepted /\ Revert
     /\ UNCHANGED <<share, supply, settings, gifted, registered>>

Delivered(m) ==
  /\ CanSwap(balance, m.pool, m.token, m.amount)
  /\ ReturnAmount(balance, m.pool, m.token, m.amount) >= m.expected_return

\* The pool swaps.  Its output calls the router back when it is sent there in a
\* token that the router registered with.
PoolSwaps ==
  LET m == message
      out == Other(m.pool, m.token)
  IN /\ m.kind = "swap"
     /\ \/ /\ Understood(m) /\ Delivered(m)
           /\ balance' = Swapped(balance, m.pool, m.token, m.amount, m.to)
           /\ message' =
                IF m.to = Router /\ out \in registered
                THEN [kind |-> "receive", token |-> out, from |-> m.pool,
                      amount |-> ReturnAmount(balance, m.pool, m.token, m.amount)]
                ELSE [kind |-> "finalize"]
           /\ UNCHANGED <<route, sent>>
        \/ ~(Understood(m) /\ Delivered(m)) /\ Revert
     /\ UNCHANGED <<share, supply, settings, gifted, registered>>

\* Mutant of LastExpected: the last swap accepts any amount.
LastExpectedForgotten(rest) == 0

\* What the swap of the next hop must return, when `rest` hops follow it.
LastExpected(rest) == IF rest = <<>> THEN route.expected_return ELSE 0

\* handle_hop
HandleHop ==
  LET m == message
      next == Head(route.hops)
      rest == Tail(route.hops)
      last == rest = <<>>
      accepted == /\ Understood(m)
                  /\ route.hops # <<>>
                  /\ next.token # Native
                  /\ next.token = m.token
                  /\ route.current_hop # NoHop /\ route.current_hop.pool = m.from
  IN /\ m.kind = "receive"
     /\ \/ /\ accepted
           /\ SendToPool(balance, next, m.amount, LastExpected(rest),
                         IF last THEN route.to ELSE Router)
           /\ route' = [route EXCEPT !.is_done = last,
                                     !.current_hop = IF last THEN NoHop ELSE next,
                                     !.hops = rest]
           /\ UNCHANGED sent
        \/ ~accepted /\ Revert
     /\ UNCHANGED <<share, supply, settings, gifted, registered>>

MayFinalize ==
  route.is_done /\ route.hops = <<>> /\ route.current_hop = NoHop

\* finalize_route
FinalizeRoute ==
  /\ message.kind = "finalize"
  /\ \/ /\ MayFinalize
        /\ route' = NoRoute
        /\ message' = None
        /\ sent' = None
        /\ UNCHANGED balance
     \/ ~MayFinalize /\ Revert
  /\ UNCHANGED <<share, supply, settings, gifted, registered>>

-----------------------------------------------------------------------------
(* Everything else: transactions of one step, between routes.              *)

\* Tokens an exchange sends to the router outside of a route fail when they call
\* it back.
Accepts(to, t) == to \in Users \/ t \notin registered

UserSwaps ==
  \E u \in Traders, x \in Pools, n, e \in Amounts, to \in Traders \cup {Router} :
    \E t \in PairOf(x) :
      /\ Accepts(to, Other(x, t))
      /\ Swap(u, x, t, n, e, to)

UserAddsLiquidity ==
  \E u \in Providers, x \in Pools, d \in Deposits, s \in Slippages :
    AddLiquidity(u, x, d[1], d[2], s)

UserRemovesLiquidity ==
  \E u \in Providers, x \in Pools, n \in Amounts, to \in Users :
    RemoveLiquidity(u, x, n, to)

UserTransfers ==
  \E u \in Users, g \in Gifts : Transfer(u, g.token, g.amount, g.to)

RegisterTokens(tokens) ==
  /\ registered' = registered \cup tokens
  /\ UNCHANGED <<exchangeVars, route, message, sent>>

\* The owner takes tokens that were left with the router.
RecoverFunds(t, n, to) ==
  /\ n <= balance[Router][t]
  /\ balance' = Moved(balance, t, Router, to, n)
  /\ UNCHANGED <<share, supply, settings, gifted, registered, route, message, sent>>

Single ==
  /\ ~Busy
  /\ \/ /\ \/ UserSwaps
           \/ UserAddsLiquidity
           \/ UserRemovesLiquidity
           \/ UserTransfers
           \/ SetExchangeSettings
        /\ UNCHANGED <<registered, route, message, sent>>
     \/ \E tokens \in TokenLists : RegisterTokens(tokens)
     \/ \E t \in Tokens, n \in Amounts, to \in Providers : RecoverFunds(t, n, to)

UserSendsRoute ==
  \E u \in Traders, to \in Providers, t \in Tokens, n, e \in Amounts, hops \in Routes :
    SendRoute(u, t, n, hops, e, to)

Next ==
  Single \/ UserSendsRoute \/ HandleFirstHop \/ PoolSwaps \/ HandleHop \/ FinalizeRoute

Spec == Init /\ [][Next]_vars

-----------------------------------------------------------------------------
\* The step that ends a route, delivered or reverted.
RouteEnds == Busy /\ message' = None

\* What the pool has of a swap that it is about to process.
Delivering(x, t) ==
  IF message.kind = "swap" /\ message.pool = x /\ message.token = t
  THEN message.amount ELSE 0

(* Safety of the pools.                                                    *)

\* Providers do not gain or lose by others coming and going: adding or removing
\* liquidity never lowers the reserves behind one LP token, in either token.
SharesKeepWorth ==
  [][\A x \in Pools :
       supply[x] > 0 /\ supply'[x] # supply[x] =>
         \A t \in PairOf(x) :
           balance'[x][t] * supply[x] >= balance[x][t] * supply'[x]]_vars

\* Rounding costs a pool less than one unit of what a swap pays out: with that
\* unit back, the product of the reserves has grown, in a route as by itself.
SwapsRoundByLessThanOne ==
  [][\A x \in Pools, t \in Tokens :
       LET o == Other(x, t)
           before == balance[x][t] - Delivering(x, t)
       IN /\ t \in PairOf(x) /\ supply'[x] = supply[x] /\ ~RouteEnds
          /\ balance'[x][t] > before /\ balance'[x][o] < balance[x][o]
          => balance'[x][t] * (balance'[x][o] + 1) > before * balance[x][o]]_vars

\* When the last LP token is burned the pool is empty: rounding strands nothing.
NothingStranded ==
  /\ TypeOK
  /\ \A x \in Pools :
       supply[x] = 0 /\ x \notin gifted /\ ~Busy =>
         \A t \in PairOf(x) : balance[x][t] = 0

(* Safety of the router.                                                   *)

\* The sender paid the amount sent, the recipient got at least the expected
\* return of the last pool's other token, and nothing else of users changed.
RouteDelivers ==
  \A u \in Users, t \in Tokens :
    LET paid == IF u = sent.from /\ t = sent.token THEN sent.amount ELSE 0
        change == balance'[u][t] - sent.balance[u][t] + paid
    IN IF u = sent.to /\ t = Other(sent.last.pool, sent.last.token)
       THEN change >= sent.expected_return ELSE change = 0

\* A route's transaction leaves no tokens and no state with the router, and one whose
\* last pool trades the token it is given is all or nothing, whatever its other hops
\* and whichever tokens call the router back.
RouteDeliversOrReverts ==
  [][RouteEnds =>
       /\ route' = NoRoute /\ balance'[Router] = sent.balance[Router]
       /\ sent.last.token \in PairOf(sent.last.pool) =>
            balance' = sent.balance \/ RouteDelivers]_vars
=============================================================================
