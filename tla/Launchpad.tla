----------------------------- MODULE Launchpad -----------------------------
(***************************************************************************)
(* The launchpad (contracts/launchpad/launchpad): users lock whole         *)
(* segments of the tokens it supports, each an entry with its timestamp,   *)
(* and a sale draws its buyers from the entries that have bonded.          *)
(*                                                                         *)
(* A handler and its transfers are one transaction.  A pause or the move   *)
(* of the admin only keeps others from acting, and is left out.            *)
(***************************************************************************)
EXTENDS Lists, Sums, SequencesExt

CONSTANTS
  Users,
  LockTokens,     \* tokens that may ever be supported
  NativeToken,    \* the one of them that is no contract, if any
  InitialTokens,  \* msg.tokens, as a sequence of settings
  Settings,       \* those the admin adds
  Wallets,        \* what the users may have of each token at first
  Deposits,       \* amounts they lock
  Strays,         \* amounts they send along with a request to unlock
  MaxDecimal,     \* the greatest integer a Decimal holds: u128::MAX / 10^18, scaled
  MaxCount,       \* u32::MAX, scaled
  Forever,        \* the timestamp 99999999999 of unlock_all, scaled
  StrictParsing,  \* a Receive with the `sender` that tokens send is refused
  MaxTime         \* bound on env.block.time

Terms == [token: LockTokens, segment: Nat, bonding: Nat]

ASSUME LaunchpadAssumption ==
  /\ IsFiniteSet(Users)
  /\ Wallets \subseteq [Users -> [LockTokens -> Nat]]
  /\ InitialTokens \in Seq(Terms) /\ Settings \subseteq Terms
  /\ Deposits \subseteq Nat /\ Strays \subseteq Nat /\ MaxDecimal \in Nat /\ MaxCount \in Nat
  /\ MaxTime \in Nat /\ Forever \in Nat /\ StrictParsing \in BOOLEAN

VARIABLES
  tokens,   \* Config.tokens
  owners,   \* the owners of the accounts, in the order the accounts were created
  held,     \* Account.tokens: of every token an account ever held, its AccountToken
  funds,    \* the launchpad's balances
  wallets,  \* the users' own
  now       \* env.block.time

launchpadVars == <<tokens, owners, held, funds, wallets>>

LaunchpadTypeOK ==
  /\ \A c \in ToSet(tokens) : c \in Settings \cup ToSet(InitialTokens)
  /\ ToSet(owners) = {u \in Users : DOMAIN held[u] # {}} /\ IsInjective(owners)
  /\ \A u \in Users : \A t \in DOMAIN held[u] :
       held[u][t].balance \in Nat /\ held[u][t].entries \in Seq(0..MaxTime)
  /\ funds \in [LockTokens -> Nat]
  /\ wallets \in [Users -> [LockTokens -> Nat]]
  /\ now \in 0..MaxTime

LaunchpadInit ==
  /\ tokens = InitialTokens
  /\ owners = <<>>
  /\ held = [u \in Users |-> <<>>]
  /\ funds = [t \in LockTokens |-> 0]
  /\ wallets \in Wallets
  /\ now = 0

-----------------------------------------------------------------------------
(* Configuration and accounts                                              *)

Supported(t) == \E i \in DOMAIN tokens : tokens[i].token = t

\* get_token_config: the first that matches
ConfigOf(t) == tokens[SelectInSeq(tokens, LAMBDA c : c.token = t)]

\* Where a message with tokens reaches the contract: native ones come with the
\* message itself, others through Receive.
Arrives(t) == t = NativeToken \/ ~StrictParsing

\* calculate_entries: a count that does not fit is taken for none.
CalculateEntries(n, segment) == IF n \div segment <= MaxCount THEN n \div segment ELSE 0

\* load_or_create_account, for one token
Holding(u, t) == IF t \in DOMAIN held[u] THEN held[u][t] ELSE [balance |-> 0, entries |-> <<>>]

\* save_account, with h of token t
Saved(account, t, h) ==
  [s \in DOMAIN account \cup {t} |-> IF s = t THEN h ELSE account[s]]

\* Mutant of AfterLock: the change is locked, too.
AfterLockOfAll(h, segment, n) ==
  [balance |-> h.balance + n,
   entries |-> h.entries \o [i \in 1..CalculateEntries(n, segment) |-> now]]

\* Account::lock: whole segments only
AfterLock(h, segment, n) ==
  LET count == CalculateEntries(n, segment)
  IN [balance |-> h.balance + segment * count,
      entries |-> h.entries \o [i \in 1..count |-> now]]

\* Account::unlock: the oldest entries first, bonded or not.
CanUnlock(u, c, count) ==
  /\ c.token \in DOMAIN held[u]
  /\ count <= Len(held[u][c.token].entries)
  /\ c.segment * count <= MaxDecimal
  /\ c.segment * count <= held[u][c.token].balance

AfterUnlock(h, c, count) ==
  [balance |-> h.balance - c.segment * count,
   entries |-> SubSeq(h.entries, count + 1, Len(h.entries))]

\* get_entries, of one account and one token
BondedEntries(u, c, time) ==
  IF c.token \in DOMAIN held[u]
  THEN Without(held[u][c.token].entries, {at \in 0..MaxTime : at + c.bonding > time})
  ELSE <<>>

-----------------------------------------------------------------------------
(* Handlers                                                                *)

\* lock: the change goes back in the same transaction.  Decimal::from_ratio panics
\* on a segment of 0 and on what a Decimal cannot hold.
Lock(u, t, n) ==
  /\ Arrives(t) /\ Supported(t)
  /\ n <= wallets[u][t]
  /\ LET c == ConfigOf(t)
         new == AfterLock(Holding(u, t), c.segment, n)
         kept == c.segment * CalculateEntries(n, c.segment)
     IN /\ 0 < c.segment /\ c.segment <= n /\ n <= MaxDecimal
        /\ held' = [held EXCEPT ![u] = Saved(@, t, new)]
        /\ owners' = IF u \in ToSet(owners) THEN owners ELSE Append(owners, u)
        /\ funds' = [funds EXCEPT ![t] = @ + kept]
        /\ wallets' = [wallets EXCEPT ![u][t] = @ - kept]
  /\ UNCHANGED <<tokens, now>>

\* unlock: what is sent along with the request is not given back.
Unlock(u, t, count, sent) ==
  /\ Arrives(t) /\ Supported(t)
  /\ sent <= wallets[u][t]
  /\ LET c == ConfigOf(t)
         paid == c.segment * count
     IN /\ CanUnlock(u, c, count)
        /\ paid <= funds[t] + sent
        /\ held' = [held EXCEPT ![u][t] = AfterUnlock(@, c, count)]
        /\ funds' = [funds EXCEPT ![t] = @ + sent - paid]
        /\ wallets' = [wallets EXCEPT ![u][t] = @ - sent + paid]
  /\ UNCHANGED <<tokens, owners, now>>

\* admin_add_token
AdminAddToken(c) ==
  /\ ~Supported(c.token)
  /\ tokens' = Append(tokens, c)
  /\ UNCHANGED <<owners, held, funds, wallets, now>>

\* Mutant of Refundable: entries that have not bonded stay.
RefundableOnceBonded(u, c) == Len(BondedEntries(u, c, now))

\* How many entries unlock_all unlocks.
Refundable(u, c) == Len(BondedEntries(u, c, Forever))

\* admin_remove_token: every account must be able to unlock the token, whether it
\* has any or not.
AdminRemoveToken(i) ==
  LET c == tokens[i]
      everybody == ToSet(owners)
      refund == [u \in Users |-> IF u \in everybody THEN c.segment * Refundable(u, c) ELSE 0]
      total == SumOver(refund, Users)
  IN /\ \A u \in everybody : CanUnlock(u, c, Refundable(u, c))
     /\ total <= funds[c.token]
     /\ tokens' = RemoveAt(tokens, i)
     /\ held' = [u \in Users |->
                   IF u \in everybody
                   THEN [held[u] EXCEPT ![c.token] = AfterUnlock(@, c, Refundable(u, c))]
                   ELSE held[u]]
     /\ funds' = [funds EXCEPT ![c.token] = @ - total]
     /\ wallets' = [u \in Users |-> [wallets[u] EXCEPT ![c.token] = @ + refund[u]]]
     /\ UNCHANGED <<owners, now>>

LaunchpadNext ==
  \/ \E u \in Users, t \in LockTokens :
       \/ \E n \in Deposits : Lock(u, t, n)
       \/ \E count \in 0..Len(Holding(u, t).entries), sent \in Strays : Unlock(u, t, count, sent)
  \/ \E c \in Settings : AdminAddToken(c)
  \/ \E i \in DOMAIN tokens : AdminRemoveToken(i)

-----------------------------------------------------------------------------
(* draw_addresses: the entries that have bonded in any of the tokens asked *)
(* for, those locked longest first; the one at a percentage of the list,   *)
(* which the timestamp determines, is picked and its owner's others are    *)
(* taken off, until there are enough.                                      *)

AllBonded(asked, time) ==
  LET Of(u, t) == LET at == BondedEntries(u, ConfigOf(t), time)
                  IN [i \in DOMAIN at |-> [owner |-> u, at |-> at[i]]]
      OfAccount(u) == FlattenSeq([i \in DOMAIN asked |-> Of(u, asked[i])])
  IN FlattenSeq([i \in DOMAIN owners |-> OfAccount(owners[i])])

OldestFirst(list) ==
  FlattenSeq([i \in 1..MaxTime + 1 |-> Without(list, {e \in ToSet(list) : e.at # i - 1})])

\* Mutant of WithoutOwner: an address can be drawn for each of its entries.
WithoutEntry(list, index) == RemoveAt(list, index)

WithoutOwner(list, index) ==
  Without(list, {e \in ToSet(list) : e.owner = list[index].owner})

\* gen_rand_range between the first and the last
Picked(list, percentage) == (percentage * (Len(list) - 1)) \div 100 + 1

DrawAddresses(asked, number, time, percentage) ==
  LET draw[n \in 0..number] ==
        IF n = 0 THEN [left |-> OldestFirst(AllBonded(asked, time)), drawn |-> <<>>]
        ELSE LET before == draw[n - 1]
                 index == Picked(before.left, percentage)
             IN IF before.left = <<>> THEN before
                ELSE [left |-> WithoutOwner(before.left, index),
                      drawn |-> Append(before.drawn, before.left[index].owner)]
  IN draw[number].drawn

-----------------------------------------------------------------------------
(* Properties                                                              *)

\* The launchpad has what its accounts have locked, and an account in a supported
\* token has locked a segment for every entry: whatever change or stray amounts
\* came with the messages, and through removals and additions with new terms.
LocksAreBacked ==
  \A t \in LockTokens :
    /\ SumOver([u \in Users |-> Holding(u, t).balance], Users) <= funds[t]
    /\ Supported(t) => \A u \in Users :
         Holding(u, t).balance = ConfigOf(t).segment * Len(Holding(u, t).entries)

\* Removing a token gives everybody back all that is locked in it, bonded or not
\* (msg.rs:268-269, handle.rs:176-177).
RemovalRefundsAll ==
  [][\A t \in LockTokens : Supported(t) /\ ~(Supported(t))' =>
       \A u \in Users : wallets'[u][t] = wallets[u][t] + Holding(u, t).balance]_<<launchpadVars, now>>
=============================================================================
