----------------------------- MODULE Governance -----------------------------
(***************************************************************************)
(* The polls that stakers of a reward pool create and vote on              *)
(* (contracts/amm/rewards/gov).  A vote weighs what its caster has staked, *)
(* so the handlers of the reward pool call into this module and this       *)
(* module reads the stakes: operators take them as arguments, and          *)
(* RewardPool composes the two.                                            *)
(*                                                                         *)
(* The code keeps, per user, the ids of the open polls the user voted on   *)
(* (active_polls) and created (created_polls), because the votes of a poll *)
(* cannot be iterated.  Lists are read through a filter that drops expired *)
(* polls; their order is never observed, and a poll enters a list at most  *)
(* once (a second vote is refused), so they are sets here.                 *)
(***************************************************************************)
EXTENDS Sums

CONSTANTS
  N,            \* stakers are 1..N
  MaxPolls,     \* bound: polls ever created
  Thresholds,   \* values the admin may give threshold
  Quorums,      \* values the admin may give quorum, in units of 1/DecimalOne
  Deadlines,    \* values the admin may give deadline
  DecimalOne    \* fractional precision of cosmwasm's Decimal (10^18)

ASSUME NAssumption == N \in Nat \ {0}
ASSUME MaxPollsAssumption == MaxPolls \in Nat
ASSUME GovConfigAssumption ==
  /\ Thresholds \subseteq Nat
  /\ Quorums \subseteq Nat
  /\ Deadlines \subseteq Nat
  /\ DecimalOne \in Nat \ {0}

VARIABLES
  now,          \* env.block.time
  pollCount,    \* Poll::TOTAL, the auto-increment id
  poll,         \* creator, expiration, current_quorum and status of each poll
  result,       \* PollResult: the yes and no votes of each poll
  vote,         \* Vote of each user on each poll
  active,       \* User::ACTIVE_POLLS
  created,      \* User::CREATED_POLLS
  govConfig,    \* GovernanceConfig
  govClosed     \* GovernanceConfig::CLOSED is set

govVars == <<pollCount, poll, result, vote, active, created,
             govConfig, govClosed>>

Users == 1..N
PollIds == 1..MaxPolls
Choices == {"yes", "no"}
NoVote == [choice |-> "none", power |-> 0]
NoPoll == [creator |-> 0, expiration |-> 0, quorum |-> 0, status |-> "none"]
GovConfigs == [threshold: Thresholds, quorum: Quorums, deadline: Deadlines]

\* A vote for one unit of the LP token or less is refused.
MinStakedForVote == 1

PollRecord == [creator: 0..N, expiration: Nat, quorum: Nat,
               status: {"none", "failed", "passed"}]
VoteRecord == [choice: Choices \cup {"none"}, power: Nat]

GovTypeOK ==
  /\ now \in Nat
  /\ pollCount \in 0..MaxPolls
  /\ poll \in [PollIds -> PollRecord]
  /\ result \in [PollIds -> [Choices -> Nat]]
  /\ vote \in [PollIds -> [Users -> VoteRecord]]
  /\ active \in [Users -> SUBSET PollIds]
  /\ created \in [Users -> SUBSET PollIds]
  /\ govConfig \in GovConfigs
  /\ govClosed \in BOOLEAN

GovInit ==
  /\ now = 0
  /\ pollCount = 0
  /\ poll = [p \in PollIds |-> NoPoll]
  /\ result = [p \in PollIds |-> [c \in Choices |-> 0]]
  /\ vote = [p \in PollIds |-> [u \in Users |-> NoVote]]
  /\ active = [u \in Users |-> {}]
  /\ created = [u \in Users |-> {}]
  /\ govConfig \in GovConfigs
  /\ govClosed = FALSE

-----------------------------------------------------------------------------

Exists(p) == p \in 1..pollCount

Expired(p) == now >= poll[p].expiration

\* Mutant of Unexpired: the lists are read without the filter.
UnexpiredOrNot(polls) == polls

\* filter_active_polls
Unexpired(polls) == {p \in polls : ~Expired(p)}

HasVoted(u, p) == vote[p][u].choice # "none"

\* Mutant of MayVote: the vote already stored is not looked up.
MayVoteAgain(u, p, stake) == stake > MinStakedForVote

\* Checks of Vote and of User::add_vote.
MayVote(u, p, stake) == stake > MinStakedForVote /\ ~HasVoted(u, p)

\* append_active_poll
Listed(u, p) == Unexpired(active[u]) \cup {p}

\* remove_active_poll
Delisted(u, p) == Unexpired(active[u]) \ {p}

\* Other(c): the choice a transferred vote leaves.
Other(c) == IF c = "yes" THEN "no" ELSE "yes"

\* Mutant of CurrentQuorum: the configuration of the day.
ConfiguredQuorum(p) == govConfig.quorum

\* Poll::current_quorum: what the configuration was when the poll was created.
CurrentQuorum(p) == poll[p].quorum

\* The status update_result stores: participation is rounded down to the
\* precision of Decimal and must exceed the quorum.
Verdict(r, quorum, totalStaked) ==
  IF /\ ((r["yes"] + r["no"]) * DecimalOne) \div totalStaked > quorum
     /\ r["yes"] > r["no"]
  THEN "passed" ELSE "failed"

\* Poll::update_result with the poll's new tally.  Decimal::from_ratio panics
\* when nothing is staked, which reverts the transaction.
UpdateResult(p, tally, totalStaked) ==
  /\ totalStaked > 0
  /\ result' = [result EXCEPT ![p] = tally]
  /\ poll' = [poll EXCEPT ![p].status =
                Verdict(tally, CurrentQuorum(p), totalStaked)]

\* CreatePoll by a user who has `stake` staked.
CreatePoll(u, stake) ==
  /\ ~govClosed
  /\ pollCount < MaxPolls
  /\ stake >= govConfig.threshold
  /\ LET p == pollCount + 1 IN
       /\ pollCount' = p
       /\ poll' = [poll EXCEPT ![p] =
                     [creator |-> u,
                      expiration |-> now + govConfig.deadline,
                      quorum |-> govConfig.quorum,
                      status |-> "failed"]]
       /\ result' = [result EXCEPT ![p] = [c \in Choices |-> 0]]
       /\ created' = [created EXCEPT ![u] = Unexpired(@) \cup {p}]
  /\ UNCHANGED <<vote, active, govConfig, govClosed>>

\* Vote by a user who has `stake` staked.
CastVote(u, p, choice, stake, totalStaked) ==
  /\ Exists(p)
  /\ ~Expired(p)
  /\ MayVote(u, p, stake)
  /\ vote' = [vote EXCEPT ![p][u] = [choice |-> choice, power |-> stake]]
  /\ active' = [active EXCEPT ![u] = Listed(u, p)]
  /\ UpdateResult(p, [result[p] EXCEPT ![choice] = @ + stake], totalStaked)
  /\ UNCHANGED <<pollCount, created, govConfig, govClosed>>

ChangeVoteChoice(u, p, choice, totalStaked) ==
  /\ Exists(p)
  /\ ~Expired(p)
  /\ HasVoted(u, p)
  /\ vote[p][u].choice # choice
  /\ LET power == vote[p][u].power IN
       /\ power <= result[p][Other(choice)]      \* checked_sub().unwrap()
       /\ UpdateResult(p, [result[p] EXCEPT ![choice] = @ + power,
                                            ![Other(choice)] = @ - power],
                       totalStaked)
  /\ vote' = [vote EXCEPT ![p][u].choice = choice]
  /\ UNCHANGED <<pollCount, active, created, govConfig, govClosed>>

Unvote(u, p, totalStaked) ==
  /\ Exists(p)
  /\ ~Expired(p)
  /\ HasVoted(u, p)
  /\ p \in Unexpired(active[u])                  \* position().unwrap()
  /\ LET old == vote[p][u] IN
       /\ old.power <= result[p][old.choice]     \* checked_sub().unwrap()
       /\ UpdateResult(p, [result[p] EXCEPT ![old.choice] = @ - old.power],
                       totalStaked)
  /\ vote' = [vote EXCEPT ![p][u] = NoVote]
  /\ active' = [active EXCEPT ![u] = Delisted(u, p)]
  /\ UNCHANGED <<pollCount, created, govConfig, govClosed>>

\* The part of Account::commit_deposit that raises the user's vote on every
\* open poll of the active list.  totalStaked is what storage holds when it
\* runs: the deposit has not been added yet.
IncreaseVotePower(u, amount, totalStaked) ==
  LET mine == Unexpired(active[u])
      tally(p) == [result[p] EXCEPT ![vote[p][u].choice] = @ + amount]
  IN /\ mine # {} => totalStaked > 0
     /\ \A p \in mine : HasVoted(u, p)           \* Vote::increase().unwrap()
     /\ vote' = [p \in PollIds |->
                   IF p \in mine THEN [vote[p] EXCEPT ![u].power = @ + amount]
                                 ELSE vote[p]]
     /\ result' = [p \in PollIds |->
                     IF p \in mine THEN tally(p) ELSE result[p]]
     /\ poll' = [p \in PollIds |->
                   IF p \in mine
                   THEN [poll[p] EXCEPT !.status =
                           Verdict(tally(p), CurrentQuorum(p), totalStaked)]
                   ELSE poll[p]]
     /\ UNCHANGED <<pollCount, active, created, govConfig, govClosed>>

\* Mutant of CanUnstake: only the user's own polls hold the stake back.
CanUnstakeWhileVoting(u, stake, amount) ==
  Unexpired(created[u]) # {} => stake - amount > govConfig.threshold

\* User::can_unstake
CanUnstake(u, stake, amount) ==
  /\ Unexpired(active[u]) = {}
  /\ Unexpired(created[u]) # {} => stake - amount > govConfig.threshold

\* UpdateConfig by the admin: any subset of the fields.
UpdateGovConfig ==
  /\ govConfig' \in GovConfigs
  /\ UNCHANGED <<pollCount, poll, result, vote, active, created, govClosed>>

\* Close by the admin: no more polls; the open ones run on.
CloseGovernance ==
  /\ govClosed' = TRUE
  /\ UNCHANGED <<pollCount, poll, result, vote, active, created, govConfig>>

-----------------------------------------------------------------------------

\* The power each user has on one side of a poll.
PowerFor(p, c) ==
  [u \in Users |-> IF vote[p][u].choice = c THEN vote[p][u].power ELSE 0]

\* A poll's stored tallies are the sums of the votes stored for it: no vote is
\* counted twice, lost, or left behind by Unvote, ChangeVoteChoice or a later
\* deposit (PollResult::append_votes / transfer_vote / change_vote_power).  While it
\* is open, the users whose active list names it are exactly those with a vote on
\* it, so that the unwraps of remove_active_poll and of increase_vote_power never
\* panic and no deposit misses one of its votes.
TalliesMatchVotes ==
  \A p \in PollIds :
    /\ \A c \in Choices : SumsTo(PowerFor(p, c), N, result[p][c])
    /\ \A u \in Users : ~Expired(p) => (p \in active[u] <=> HasVoted(u, p))

\* Once a poll has expired nothing a user or the admin does changes its result,
\* its votes or its status (is_expired checks, filtered lists).
ExpiredPollsAreFinal ==
  [][\A p \in PollIds :
       Exists(p) /\ Expired(p) =>
         poll'[p] = poll[p] /\ result'[p] = result[p] /\ vote'[p] = vote[p]]_<<now, govVars>>
=============================================================================
