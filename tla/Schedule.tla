------------------------------ MODULE Schedule ------------------------------
(***************************************************************************)
(* The vesting schedule (libraries/schedule): a total, divided into pools, *)
(* divided into accounts, each of which unlocks an amount for an address   *)
(* over time.  Times are relative to the launch.                           *)
(***************************************************************************)
EXTENDS Sums, SequencesExt

\* An account's parameters, those that may follow from the others included.
AccountsOf(addresses) ==
  [address: addresses, amount: Nat, cliff: Nat, start_at: Nat, interval: Nat, duration: Nat]

PoolsOf(addresses) == [partial: BOOLEAN, total: Nat, accounts: Seq(AccountsOf(addresses))]

SchedulesOf(addresses) == [total: Nat, pools: Seq(PoolsOf(addresses))]

\* immediate, periodic, and the two kinds of pool
Periodic(address, amount, cliff, start_at, interval, duration) ==
  [address |-> address, amount |-> amount, cliff |-> cliff,
   start_at |-> start_at, interval |-> interval, duration |-> duration]

Immediate(address, amount) == Periodic(address, amount, 0, 0, 0, 0)

\* subtotal of a pool, and of a schedule
AmountOf(accounts) == SumOver([i \in DOMAIN accounts |-> accounts[i].amount], DOMAIN accounts)
Allocated(pool) == AmountOf(pool.accounts)
PoolsTotal(pools) == SumOver([i \in DOMAIN pools |-> pools[i].total], DOMAIN pools)

Partial(total, accounts) == [partial |-> TRUE, total |-> total, accounts |-> accounts]

Full(accounts) ==
  [partial |-> FALSE, total |-> AmountOf(accounts), accounts |-> accounts]

ScheduleOf(pools) == [total |-> PoolsTotal(pools), pools |-> pools]

-----------------------------------------------------------------------------
(* What an account unlocks                                                 *)

PortionCount(a) == IF a.interval > 0 THEN a.duration \div a.interval ELSE 0

AmountAfterCliff(a) == a.amount - a.cliff

PortionSize(a) ==
  IF PortionCount(a) > 0 THEN AmountAfterCliff(a) \div PortionCount(a) ELSE 0

Remainder(a) == AmountAfterCliff(a) - PortionSize(a) * PortionCount(a)

End(a) == a.start_at + a.duration

\* Mutant of MostRecentPortion: a first portion vests beside the cliff too.
MostRecentPortionOrNext(a, t) ==
  LeastOf((t - a.start_at) \div a.interval + 1, PortionCount(a))

\* Without a cliff the first portion vests at the start.
MostRecentPortion(a, t) ==
  LeastOf((t - a.start_at) \div a.interval + (IF a.cliff = 0 THEN 1 ELSE 0),
          PortionCount(a))

\* Between its start and its end the account is read by dividing by its interval,
\* which panics if that is 0.
Readable(a, t) == a.start_at <= t /\ t < End(a) => a.interval > 0

\* Mutant of AccountUnlocked: what does not divide into portions is never unlocked.
UnlockedWithoutRemainder(a, t) ==
  CASE t < a.start_at -> 0
    [] t >= a.start_at /\ t >= End(a) -> a.amount - Remainder(a)
    [] OTHER -> LeastOf(a.cliff + MostRecentPortion(a, t) * PortionSize(a), a.amount)

AccountUnlocked(a, t) ==
  CASE t < a.start_at -> 0
    [] t >= a.start_at /\ t >= End(a) -> a.amount
    [] OTHER -> LeastOf(a.cliff + MostRecentPortion(a, t) * PortionSize(a), a.amount)

\* Only the accounts of the address in question are read any further.
Of(address, accounts) == {i \in DOMAIN accounts : accounts[i].address = address}

PoolUnlocked(p, t, address) ==
  LET mine == Of(address, p.accounts)
  IN LeastOf(SumOver([i \in mine |-> AccountUnlocked(p.accounts[i], t)], mine), Allocated(p))

Unlocked(schedule, t, address) ==
  LET pools == schedule.pools
  IN LeastOf(SumOver([i \in DOMAIN pools |-> PoolUnlocked(pools[i], t, address)], DOMAIN pools),
             PoolsTotal(pools))

CanRead(schedule, t, address) ==
  \A p \in ToSet(schedule.pools) :
    \A i \in Of(address, p.accounts) : Readable(p.accounts[i], t)

-----------------------------------------------------------------------------
(* Validation and amendments                                               *)

ValidAccount(a) == a.amount > 0 /\ a.cliff <= a.amount

ValidPool(p) ==
  /\ \A a \in ToSet(p.accounts) : ValidAccount(a)
  /\ IF p.partial THEN Allocated(p) <= p.total ELSE Allocated(p) = p.total

Valid(schedule) ==
  /\ \A p \in ToSet(schedule.pools) : ValidPool(p)
  /\ PoolsTotal(schedule.pools) = schedule.total

\* Pool::add_account: where it succeeds, and the pool it leaves.
CanAdd(p, a) ==
  /\ p.partial
  /\ a.amount <= p.total - Allocated(p)
  /\ ValidAccount(a)

WithAccount(p, a) ==
  [p EXCEPT !.accounts = Append(@, a),
            !.partial = Allocated(p) + a.amount < p.total]

-----------------------------------------------------------------------------
(* What the amounts released at single moments add up to: the cliff at the *)
(* start, a portion at every interval from then on, the remainder at the   *)
(* end.                                                                    *)
Releases(a) ==
  {[at |-> a.start_at, amount |-> a.cliff, n |-> 0],
   [at |-> End(a), amount |-> Remainder(a), n |-> -1]}
  \cup {[at |-> a.start_at + a.interval * (IF a.cliff = 0 THEN n - 1 ELSE n),
         amount |-> PortionSize(a), n |-> n] : n \in 1..PortionCount(a)}

ReleasedBy(a, t) ==
  LET due == {r \in Releases(a) : r.at <= t}
  IN SumOver([r \in due |-> r.amount], due)
=============================================================================
