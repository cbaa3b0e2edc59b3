------------------------------- MODULE MCTge -------------------------------
(***************************************************************************)
(* The token generation event for TLC: an investor, RPT and the reward     *)
(* pool it funds.                                                          *)
(***************************************************************************)
EXTENDS Tge

CONSTANTS AdminAddress, MgmtAddress, RptAddress, InvestorAddress, PoolAddress

AdminHasEight == <<[address |-> AdminAddress, amount |-> 8]>>

\* A cliff and one portion.
Invested == Periodic(InvestorAddress, 2, 1, 1, 1, 1)
\* Two portions of 2, and 1 more at the end: a late claim is worth two of RPT's own
\* portions of 2, and something that does not divide.
Remaining == Periodic(RptAddress, 5, 0, 0, 1, 2)

Planned == ScheduleOf(<<Partial(3, <<Invested>>), Full(<<Remaining>>)>>)
\* Its pools do not add up to its total.
Mistaken == [Planned EXCEPT !.total = 9]
PlannedOrMistaken == {Planned, Mistaken}

\* An account that cannot be read between its start and its end, and one too big.
Added == {<<1, Periodic(InvestorAddress, 1, 0, 0, 0, 2)>>, <<1, Immediate(InvestorAddress, 2)>>}
Increase == {Full(<<Immediate(InvestorAddress, 1)>>)}

\* To nobody, or to a reward pool and to the admin.
Splits == {<<>>, PoolAddress :> 1 @@ AdminAddress :> 1}

PausedOrNot == {"Operational", "Paused"}

\* Valid accounts, and every moment until after their end.
SmallAccounts ==
  {a \in {Periodic(InvestorAddress, amount, cliff, start_at, interval, duration) :
            amount \in 1..5, cliff \in 0..3, start_at \in 0..1, interval \in 0..3,
            duration \in 0..7} : ValidAccount(a)}

ActsAsReleased(a) ==
  \A t \in 0..(End(a) + 1) : Readable(a, t) => AccountUnlocked(a, t) = ReleasedBy(a, t)

SmallAccountsActAsReleased == \A a \in SmallAccounts : ActsAsReleased(a)

\* An account of the schedule, or of any small one, unlocks what its documented
\* releases add up to, whenever it can be read: its cliff first, or else a portion;
\* equal portions at its interval; what does not divide at its end
\* (schedule/lib/lib.rs:96-108, vesting.rs:68-81).
UnlockedAsReleased ==
  /\ SmallAccountsActAsReleased
  /\ \A p \in ToSet(schedule.pools) : \A a \in ToSet(p.accounts) : ActsAsReleased(a)
=============================================================================
