-------------------------- MODULE RewardPoolProofs --------------------------
(***************************************************************************)
(* Theorems about the reward pool, for any number of users, any amounts    *)
(* and any times, after lemmas about the operations of its governance.     *)
(***************************************************************************)
EXTENDS MCRewardPool, SumsProofs

-----------------------------------------------------------------------------
(* Governance, one lemma for each operation.                               *)

LEMMA VerdictIsStatus ==
  ASSUME NEW r, NEW q, NEW t, NEW x \in PollRecord
  PROVE  [x EXCEPT !.status = Verdict(r, q, t)] \in PollRecord
BY DEF Verdict, PollRecord

LEMMA VoteFields ==
  ASSUME NEW v \in VoteRecord
  PROVE  /\ v.power \in Nat
         /\ v.choice # "none" => v.choice \in Choices
         /\ \A x \in Nat : [v EXCEPT !.power = x] \in VoteRecord
         /\ \A c \in Choices : [v EXCEPT !.choice = c] \in VoteRecord
BY DEF VoteRecord

\* Opening a poll keeps the types.
LEMMA CreatePollType ==
  ASSUME GovTypeOK, NEW u \in Users, NEW stake \in Nat, CreatePoll(u, stake),
         now' = now
  PROVE  GovTypeOK'
<1> USE NAssumption, MaxPollsAssumption, GovConfigAssumption
<1> DEFINE p == pollCount + 1
<1>1. p \in PollIds /\ u \in 0..N /\ u \in Users
  BY DEF CreatePoll, GovTypeOK, PollIds, Users
<1>2. govConfig.deadline \in Nat /\ govConfig.quorum \in Nat
  BY DEF GovTypeOK, GovConfigs
<1>3. pollCount' \in 0..MaxPolls
  BY DEF CreatePoll, GovTypeOK
<1>4. poll' \in [PollIds -> PollRecord]
  BY <1>1, <1>2 DEF CreatePoll, GovTypeOK, PollRecord
<1>5. result' \in [PollIds -> [Choices -> Nat]]
  BY <1>1 DEF CreatePoll, GovTypeOK, Choices
<1>6. created' \in [Users -> SUBSET PollIds]
  <2>1. Unexpired(created[u]) \cup {p} \in SUBSET PollIds
    BY <1>1 DEF GovTypeOK, Unexpired
  <2>2. QED
    BY <2>1 DEF CreatePoll, GovTypeOK
<1>7. QED
  BY <1>3, <1>4, <1>5, <1>6 DEF CreatePoll, GovTypeOK

\* Storing a tally and its verdict keeps the types of both.
LEMMA UpdateResultType ==
  ASSUME GovTypeOK, NEW p \in PollIds, NEW tally \in [Choices -> Nat], NEW t,
         UpdateResult(p, tally, t)
  PROVE  /\ result' \in [PollIds -> [Choices -> Nat]]
         /\ poll' \in [PollIds -> PollRecord]
BY VerdictIsStatus DEF UpdateResult, GovTypeOK

\* Casting a vote keeps the types.
LEMMA CastVoteType ==
  ASSUME GovTypeOK, NEW u \in Users, NEW p \in PollIds, NEW c \in Choices,
         NEW stake \in Nat, NEW t, CastVote(u, p, c, stake, t), now' = now
  PROVE  GovTypeOK'
<1> DEFINE tally == [result[p] EXCEPT ![c] = @ + stake]
<1>1. tally \in [Choices -> Nat]
  BY DEF GovTypeOK
<1>2. UpdateResult(p, tally, t)
  BY DEF CastVote
<1>3. vote' \in [PollIds -> [Users -> VoteRecord]]
  BY DEF CastVote, GovTypeOK, VoteRecord
<1>4. Listed(u, p) \in SUBSET PollIds
  BY DEF Listed, Unexpired, GovTypeOK
<1>5. active' \in [Users -> SUBSET PollIds]
  BY <1>4 DEF CastVote, GovTypeOK
<1> HIDE DEF tally
<1>6. QED
  BY <1>1, <1>2, <1>3, <1>5, UpdateResultType DEF CastVote, GovTypeOK

\* Changing sides keeps the types: the side that loses the power had it.
LEMMA ChangeVoteChoiceType ==
  ASSUME GovTypeOK, NEW u \in Users, NEW p \in PollIds, NEW c \in Choices,
         NEW t, ChangeVoteChoice(u, p, c, t), now' = now
  PROVE  GovTypeOK'
<1> DEFINE power == vote[p][u].power
           tally == [result[p] EXCEPT ![c] = @ + power,
                                      ![Other(c)] = @ - power]
<1>1. power \in Nat /\ result[p] \in [Choices -> Nat]
  BY VoteFields DEF GovTypeOK
<1>2. power <= result[p][Other(c)] /\ UpdateResult(p, tally, t)
  BY DEF ChangeVoteChoice
<1>3. Other(c) \in Choices /\ Other(c) # c
  BY DEF Other, Choices
<1>4. result[p][c] + power \in Nat /\ result[p][Other(c)] - power \in Nat
  BY <1>1, <1>2, <1>3
<1>5. tally \in [Choices -> Nat]
  BY <1>1, <1>3, <1>4
<1>6. vote' \in [PollIds -> [Users -> VoteRecord]]
  <2>1. [vote[p][u] EXCEPT !.choice = c] \in VoteRecord
    BY VoteFields DEF GovTypeOK
  <2>2. QED
    BY <2>1 DEF ChangeVoteChoice, GovTypeOK
<1> HIDE DEF tally
<1>7. QED
  BY <1>2, <1>5, <1>6, UpdateResultType DEF ChangeVoteChoice, GovTypeOK

\* Taking a vote back keeps the types.
LEMMA UnvoteType ==
  ASSUME GovTypeOK, NEW u \in Users, NEW p \in PollIds, NEW t,
         Unvote(u, p, t), now' = now
  PROVE  GovTypeOK'
<1> DEFINE old == vote[p][u]
           tally == [result[p] EXCEPT ![old.choice] = @ - old.power]
<1>1. old.power \in Nat /\ result[p] \in [Choices -> Nat]
  BY VoteFields DEF GovTypeOK
<1>2. old.choice \in Choices
  BY VoteFields DEF Unvote, HasVoted, GovTypeOK
<1>3. old.power <= result[p][old.choice] /\ UpdateResult(p, tally, t)
  BY DEF Unvote
<1>4. tally \in [Choices -> Nat]
  BY <1>1, <1>2, <1>3
<1>5. NoVote \in VoteRecord
  BY DEF NoVote, VoteRecord
<1>6. vote' \in [PollIds -> [Users -> VoteRecord]]
  BY <1>5 DEF Unvote, GovTypeOK
<1>7. Delisted(u, p) \in SUBSET PollIds
  BY DEF Delisted, Unexpired, GovTypeOK
<1>8. active' \in [Users -> SUBSET PollIds]
  BY <1>7 DEF Unvote, GovTypeOK
<1> HIDE DEF tally
<1>9. QED
  BY <1>3, <1>4, <1>6, <1>8, UpdateResultType DEF Unvote, GovTypeOK

\* A deposit that raises its owner's open votes keeps the types.
LEMMA IncreaseVotePowerType ==
  ASSUME GovTypeOK, NEW u \in Users, NEW amount \in Nat, NEW t,
         IncreaseVotePower(u, amount, t), now' = now
  PROVE  GovTypeOK'
<1> DEFINE mine == Unexpired(active[u])
           tally(p) == [result[p] EXCEPT ![vote[p][u].choice] = @ + amount]
<1>1. \A p \in mine : p \in PollIds /\ vote[p][u].choice \in Choices
  <2>1. \A p \in mine : p \in PollIds /\ vote[p][u].choice # "none"
    BY DEF IncreaseVotePower, HasVoted, Unexpired, GovTypeOK
  <2>2. \A p \in PollIds : vote[p][u] \in VoteRecord
    BY DEF GovTypeOK
  <2>3. QED
    BY <2>1, <2>2, VoteFields
<1>2. \A p \in mine : tally(p) \in [Choices -> Nat]
  BY <1>1 DEF GovTypeOK
<1>3. vote' \in [PollIds -> [Users -> VoteRecord]]
  <2>1. ASSUME NEW p \in PollIds
        PROVE  [vote[p] EXCEPT ![u].power = @ + amount] \in [Users -> VoteRecord]
    <3>1. vote[p] \in [Users -> VoteRecord]
      BY DEF GovTypeOK
    <3>2. [vote[p][u] EXCEPT !.power = @ + amount] \in VoteRecord
      BY <3>1, VoteFields
    <3>3. QED
      BY <3>1, <3>2
  <2>2. QED
    BY <2>1 DEF IncreaseVotePower, GovTypeOK
<1>4. result' \in [PollIds -> [Choices -> Nat]]
  BY <1>2 DEF IncreaseVotePower, GovTypeOK
<1>5. poll' \in [PollIds -> PollRecord]
  <2>1. \A p \in PollIds : poll[p] \in PollRecord
    BY DEF GovTypeOK
  <2>2. QED
    BY <2>1, VerdictIsStatus DEF IncreaseVotePower, GovTypeOK
<1>6. QED
  BY <1>3, <1>4, <1>5 DEF IncreaseVotePower, GovTypeOK

\* What the admin does keeps the types.
LEMMA AdminGovernanceType ==
  ASSUME GovTypeOK, UpdateGovConfig \/ CloseGovernance, now' = now
  PROVE  GovTypeOK'
BY DEF GovTypeOK, UpdateGovConfig, CloseGovernance

LEMMA GovInitType ==
  ASSUME GovInit
  PROVE  GovTypeOK
<1> USE NAssumption, MaxPollsAssumption, GovConfigAssumption
<1>1. NoPoll \in PollRecord
  BY DEF NoPoll, PollRecord
<1>2. NoVote \in VoteRecord
  BY DEF NoVote, VoteRecord
<1>3. now \in Nat /\ pollCount \in 0..MaxPolls
  BY DEF GovInit
<1>4. poll \in [PollIds -> PollRecord]
  BY <1>1 DEF GovInit
<1>5. vote \in [PollIds -> [Users -> VoteRecord]]
  BY <1>2 DEF GovInit
<1>6. result \in [PollIds -> [Choices -> Nat]]
  BY DEF GovInit
<1>7. active \in [Users -> SUBSET PollIds] /\ created \in [Users -> SUBSET PollIds]
  BY DEF GovInit
<1>8. govConfig \in GovConfigs /\ govClosed \in BOOLEAN
  BY DEF GovInit
<1>9. QED
  BY <1>3, <1>4, <1>5, <1>6, <1>7, <1>8 DEF GovTypeOK

-----------------------------------------------------------------------------
(* Votes and tallies.                                                      *)

\* What the properties say of one poll, and that a poll to come has no votes.
Counted(p) ==
  /\ \A c \in Choices : SumsTo(PowerFor(p, c), N, result[p][c])
  /\ \A u \in Users : ~Expired(p) => (p \in active[u] <=> HasVoted(u, p))
  /\ ~Exists(p) => \A u \in Users : ~HasVoted(u, p) /\ p \notin active[u]

VotesInv == \A p \in PollIds : Counted(p)

\* What a vote adds to one side.
Weight(v, c) == IF v.choice = c THEN v.power ELSE 0

\* A tally that follows one vote from what it was to v stays the sum of the votes.
LEMMA OneVoteCounts ==
  ASSUME GovTypeOK, NEW p \in PollIds, NEW u \in Users, NEW v \in VoteRecord,
         NEW c \in Choices, SumsTo(PowerFor(p, c), N, result[p][c]),
         vote'[p] = [vote[p] EXCEPT ![u] = v],
         result'[p][c] = result[p][c] + Weight(v, c) - Weight(vote[p][u], c)
  PROVE  SumsTo(PowerFor(p, c)', N, result'[p][c])
<1> DEFINE f == PowerFor(p, c)
           g == PowerFor(p, c)'
           d == Weight(v, c) - Weight(vote[p][u], c)
<1>1. /\ N \in Nat /\ Users = 1..N /\ result[p][c] \in Nat
      /\ vote[p] \in [Users -> VoteRecord]
  BY NAssumption DEF Users, GovTypeOK
<1>2. \A x \in VoteRecord : x.power \in Nat
  BY VoteFields
<1>3. vote'[p] \in [Users -> VoteRecord]
  BY <1>1
<1>4. f \in [1..N -> Nat] /\ \A i \in 1..N : f[i] = Weight(vote[p][i], c)
  BY <1>1, <1>2 DEF PowerFor, Weight
<1>5. g \in [1..N -> Nat] /\ \A i \in 1..N : g[i] = Weight(vote'[p][i], c)
  BY <1>1, <1>2, <1>3 DEF PowerFor, Weight
<1>6. Weight(v, c) \in Nat /\ Weight(vote[p][u], c) \in Nat
  BY <1>1, <1>2 DEF Weight
<1>7. d \in Int /\ u \in 1..N
  BY <1>1, <1>6
<1>8. vote'[p][u] = v /\ \A i \in 1..N : i # u => vote'[p][i] = vote[p][i]
  BY <1>1, <1>7
<1>9. PICK k \in Nat : k = result[p][c]
  BY <1>1
<1>10. result'[p][c] = k + d
  BY <1>1, <1>6, <1>9
<1>11. g[u] = f[u] + d
  <2>1. f[u] = Weight(vote[p][u], c) /\ g[u] = Weight(v, c)
    BY <1>4, <1>5, <1>7, <1>8
  <2> HIDE DEF f, g
  <2>2. QED
    BY <1>6, <2>1
<1>12. \A i \in 1..N : i # u => g[i] = f[i]
  BY <1>4, <1>5, <1>8
<1>13. SumsTo(f, N, k)
  BY <1>9 DEF f
<1> HIDE DEF f, g, d
<1>14. SumsTo(g, N, k + d)
  BY <1>1, <1>4, <1>5, <1>7, <1>11, <1>12, <1>13, ChangeOfOneEntry
<1>15. QED
  BY <1>10, <1>14 DEF g

\* A poll whose votes and lists stay, and whose id is not the next one, is as before.
LEMMA UntouchedPoll ==
  ASSUME GovTypeOK, NEW p \in PollIds, Counted(p), now' \in Nat, now' >= now,
         vote'[p] = vote[p], result'[p] = result[p], poll'[p] = poll[p],
         ~Exists(p)' => ~Exists(p),
         \A u \in Users : ~Exists(p)' \/ ~Expired(p)' =>
                            (p \in active'[u] <=> p \in active[u])
  PROVE  Counted(p)'
<1>1. poll[p].expiration \in Nat /\ now \in Nat
  BY DEF GovTypeOK, PollRecord
<1>2. ~Expired(p)' => ~Expired(p)
  BY <1>1 DEF Expired
<1>3. \A c \in Choices : SumsTo(PowerFor(p, c), N, result[p][c])'
  BY DEF Counted, PowerFor
<1>4. QED
  BY <1>2, <1>3 DEF Counted, HasVoted

\* A new poll starts without votes, and the others go on.
LEMMA CreatePollVotes ==
  ASSUME GovTypeOK, VotesInv, NEW u \in Users, NEW stake \in Nat, CreatePoll(u, stake),
         now' = now
  PROVE  VotesInv'
<1> SUFFICES ASSUME NEW p \in PollIds PROVE Counted(p)'
  BY DEF VotesInv, PollIds
<1>1. /\ Counted(p) /\ UNCHANGED <<vote, active>> /\ pollCount \in Nat /\ now \in Nat
      /\ pollCount' = pollCount + 1
  BY DEF VotesInv, CreatePoll, GovTypeOK
<1>2. CASE p = pollCount + 1
  <2>1. ~Exists(p) /\ result'[p] = [c \in Choices |-> 0]
    BY <1>1, <1>2 DEF Exists, CreatePoll, GovTypeOK
  <2>2. \A v \in Users : ~HasVoted(v, p) /\ p \notin active[v]
    BY <1>1, <2>1 DEF Counted
  <2>3. ASSUME NEW c \in Choices PROVE SumsTo(PowerFor(p, c), N, result[p][c])'
    <3>1. \A v \in 1..N : PowerFor(p, c)'[v] = 0
      BY <1>1, <2>2 DEF PowerFor, HasVoted, Users, Choices
    <3>2. SumsTo(PowerFor(p, c)', N, 0)
      BY <3>1, ZerosSumToZero, NAssumption
    <3>3. QED
      BY <2>1, <3>2
  <2>4. QED
    BY <1>1, <2>1, <2>2, <2>3 DEF Counted, HasVoted
<1>3. CASE p # pollCount + 1
  <2>1. result'[p] = result[p] /\ poll'[p] = poll[p]
    BY <1>3 DEF CreatePoll, GovTypeOK
  <2>2. ~Exists(p)' => ~Exists(p)
    BY <1>1 DEF Exists
  <2>3. QED
    BY <1>1, <2>1, <2>2, UntouchedPoll
<1>4. QED
  BY <1>2, <1>3

\* What is stored with a tally: its verdict by the quorum of the poll.
LEMMA StoredVerdict ==
  ASSUME GovTypeOK, NEW p \in PollIds, NEW tally, NEW t, UpdateResult(p, tally, t)
  PROVE  /\ result'[p] = tally
         /\ poll'[p].status = Verdict(tally, poll[p].quorum, t)
         /\ poll'[p].quorum = poll[p].quorum
         /\ poll'[p].expiration = poll[p].expiration
         /\ \A q \in PollIds : q # p => result'[q] = result[q] /\ poll'[q] = poll[q]
BY DEF UpdateResult, CurrentQuorum, GovTypeOK, PollRecord

\* The tally follows u's vote on p from what it was to v, and u's list follows it too.
TallyFollows(p, u, v, tally) ==
  \A c \in Choices : tally[c] = result[p][c] + Weight(v, c) - Weight(vote[p][u], c)

ListFollows(p, u, v) ==
  /\ active' \in [Users -> SUBSET PollIds]
  /\ p \in active'[u] <=> v.choice # "none"
  /\ \A w \in Users : w # u => active'[w] = active[w]
  /\ \A q \in PollIds : q # p /\ ~Expired(q) => (q \in active'[u] <=> q \in active[u])
  /\ active'[u] \subseteq active[u] \cup {p}

\* What a vote on p does to it and to the other polls.
LEMMA VoteOnPoll ==
  ASSUME GovTypeOK, VotesInv, NEW p \in PollIds, NEW u \in Users, NEW v \in VoteRecord,
         NEW tally, NEW t, now' = now, pollCount' = pollCount, Exists(p), ~Expired(p),
         vote' = [vote EXCEPT ![p][u] = v], UpdateResult(p, tally, t),
         TallyFollows(p, u, v, tally), ListFollows(p, u, v)
  PROVE  VotesInv'
<1> SUFFICES ASSUME NEW q \in PollIds PROVE Counted(q)'
  BY DEF VotesInv, PollIds
<1>1. /\ Counted(q) /\ vote \in [PollIds -> [Users -> VoteRecord]] /\ now \in Nat
  BY DEF VotesInv, GovTypeOK
<1>2. Exists(q)' <=> Exists(q)
  BY DEF Exists
<1>3. CASE q = p
  <2>1. result'[p] = tally /\ Expired(p)' = Expired(p)
    BY StoredVerdict DEF Expired
  <2>2. vote'[p] = [vote[p] EXCEPT ![u] = v]
    BY <1>1
  <2>3. \A c \in Choices : SumsTo(PowerFor(p, c)', N, result'[p][c])
    BY <1>1, <1>3, <2>1, <2>2, OneVoteCounts DEF Counted, TallyFollows
  <2>4. ASSUME NEW w \in Users PROVE p \in active'[w] <=> HasVoted(w, p)'
    <3>1. CASE w = u
      BY <1>1, <2>2, <3>1 DEF HasVoted, ListFollows
    <3>2. CASE w # u
      <4>1. vote'[p][w] = vote[p][w] /\ active'[w] = active[w]
        BY <1>1, <2>2, <3>2 DEF ListFollows
      <4>2. QED
        BY <1>1, <1>3, <4>1 DEF Counted, HasVoted
    <3>3. QED
      BY <3>1, <3>2
  <2>5. QED
    BY <1>2, <1>3, <2>1, <2>3, <2>4 DEF Counted
<1>4. CASE q # p
  <2>1. vote'[q] = vote[q] /\ result'[q] = result[q] /\ poll'[q] = poll[q]
    BY <1>1, <1>4, StoredVerdict
  <2>2. Expired(q)' = Expired(q)
    BY <2>1 DEF Expired
  <2>3. ASSUME ~Exists(q) PROVE \A w \in Users : q \in active'[w] <=> q \in active[w]
    BY <1>1, <1>4, <2>3 DEF Counted, ListFollows
  <2>4. ASSUME NEW w \in Users, ~Exists(q)' \/ ~Expired(q)'
        PROVE  q \in active'[w] <=> q \in active[w]
    BY <1>2, <1>4, <2>2, <2>3, <2>4 DEF ListFollows
  <2>5. QED
    BY <1>1, <1>2, <2>1, <2>4, UntouchedPoll
<1>5. QED
  BY <1>3, <1>4

LEMMA CastVoteVotes ==
  ASSUME GovTypeOK, VotesInv, NEW u \in Users, NEW p \in PollIds, NEW c \in Choices,
         NEW stake \in Nat, NEW t, CastVote(u, p, c, stake, t), now' = now
  PROVE  VotesInv'
<1> DEFINE v == [choice |-> c, power |-> stake]
           tally == [result[p] EXCEPT ![c] = @ + stake]
<1>1. /\ Exists(p) /\ ~Expired(p) /\ pollCount' = pollCount
      /\ vote' = [vote EXCEPT ![p][u] = v]
      /\ UpdateResult(p, tally, t)
      /\ active' = [active EXCEPT ![u] = Listed(u, p)]
      /\ vote[p][u].choice = "none"
  BY DEF CastVote, MayVote, HasVoted
<1>2. /\ result[p] \in [Choices -> Nat] /\ active \in [Users -> SUBSET PollIds]
      /\ Listed(u, p) \in SUBSET PollIds /\ c # "none"
  BY DEF GovTypeOK, Listed, Unexpired, Choices
<1>3. v \in VoteRecord
  BY DEF VoteRecord
<1>4. ASSUME NEW d \in Choices
      PROVE  tally[d] = result[p][d] + Weight(v, d) - Weight(vote[p][u], d)
  <2>1. Weight(vote[p][u], d) = 0 /\ result[p][d] \in Nat
    BY <1>1, <1>2 DEF Weight, Choices
  <2>2. tally[d] = result[p][d] + Weight(v, d)
    BY <1>2, <2>1 DEF Weight
  <2>3. Weight(v, d) \in Nat
    BY DEF Weight
  <2>4. QED
    BY <2>1, <2>2, <2>3
<1>5. /\ active' \in [Users -> SUBSET PollIds]
      /\ active'[u] = Unexpired(active[u]) \cup {p}
      /\ \A w \in Users : w # u => active'[w] = active[w]
  BY <1>1, <1>2 DEF Listed
<1>6. /\ p \in active'[u] <=> v.choice # "none"
      /\ \A q \in PollIds : q # p /\ ~Expired(q) => (q \in active'[u] <=> q \in active[u])
      /\ active'[u] \subseteq active[u] \cup {p}
  BY <1>2, <1>5 DEF Unexpired
<1>7. TallyFollows(p, u, v, tally) /\ ListFollows(p, u, v)
  BY <1>4, <1>5, <1>6 DEF TallyFollows, ListFollows
<1> HIDE DEF v, tally
<1>8. QED
  BY <1>1, <1>3, <1>7, VoteOnPoll

LEMMA ChangeVoteChoiceVotes ==
  ASSUME GovTypeOK, VotesInv, NEW u \in Users, NEW p \in PollIds, NEW c \in Choices,
         NEW t, ChangeVoteChoice(u, p, c, t), now' = now
  PROVE  VotesInv'
<1> DEFINE old == vote[p][u]
           v == [old EXCEPT !.choice = c]
           tally == [result[p] EXCEPT ![c] = @ + old.power,
                                      ![Other(c)] = @ - old.power]
<1>1. /\ Exists(p) /\ ~Expired(p) /\ pollCount' = pollCount /\ active' = active
      /\ vote' = [vote EXCEPT ![p][u].choice = c]
      /\ UpdateResult(p, tally, t)
      /\ old.choice # "none" /\ old.choice # c
  BY DEF ChangeVoteChoice, HasVoted
<1>2. /\ result[p] \in [Choices -> Nat] /\ active \in [Users -> SUBSET PollIds]
      /\ vote \in [PollIds -> [Users -> VoteRecord]] /\ old \in VoteRecord
  BY DEF GovTypeOK
<1>3. /\ v \in VoteRecord /\ v.choice = c /\ v.power = old.power /\ old.power \in Nat
      /\ old.choice = Other(c) /\ c # "none" /\ Other(c) # c
      /\ Other(c) \in Choices
      /\ \A d \in Choices : d = c \/ d = Other(c)
  BY <1>1, <1>2 DEF VoteRecord, Other, Choices
<1>4. ASSUME NEW d \in Choices
      PROVE  tally[d] = result[p][d] + Weight(v, d) - Weight(old, d)
  <2>1. result[p][d] \in Nat /\ old.power \in Nat
    BY <1>2, <1>3
  <2>2. CASE d = c
    <3>1. tally[d] = result[p][d] + old.power
      BY <1>2, <1>3, <2>2
    <3>2. Weight(v, d) = old.power /\ Weight(old, d) = 0
      BY <1>1, <1>3, <2>2 DEF Weight
    <3>3. QED
      BY <2>1, <3>1, <3>2
  <2>3. CASE d = Other(c)
    <3>1. tally[d] = result[p][d] - old.power
      BY <1>2, <1>3, <2>3
    <3>2. Weight(v, d) = 0 /\ Weight(old, d) = old.power
      BY <1>1, <1>3, <2>3 DEF Weight
    <3>3. QED
      BY <2>1, <3>1, <3>2
  <2>4. QED
    BY <1>3, <2>2, <2>3
<1>5. vote' = [vote EXCEPT ![p][u] = v]
  BY <1>1, <1>2
<1>6. p \in active'[u] <=> v.choice # "none"
  BY <1>1, <1>3 DEF VotesInv, Counted, HasVoted
<1>7. TallyFollows(p, u, v, tally) /\ ListFollows(p, u, v)
  BY <1>1, <1>2, <1>4, <1>6 DEF TallyFollows, ListFollows
<1> HIDE DEF v, tally
<1>8. QED
  BY <1>1, <1>3, <1>5, <1>7, VoteOnPoll

LEMMA UnvoteVotes ==
  ASSUME GovTypeOK, VotesInv, NEW u \in Users, NEW p \in PollIds, NEW t,
         Unvote(u, p, t), now' = now
  PROVE  VotesInv'
<1> DEFINE old == vote[p][u]
           tally == [result[p] EXCEPT ![old.choice] = @ - old.power]
<1>1. /\ Exists(p) /\ ~Expired(p) /\ pollCount' = pollCount
      /\ vote' = [vote EXCEPT ![p][u] = NoVote]
      /\ UpdateResult(p, tally, t)
      /\ active' = [active EXCEPT ![u] = Delisted(u, p)]
      /\ old.choice # "none"
  BY DEF Unvote, HasVoted
<1>2. /\ result[p] \in [Choices -> Nat] /\ active \in [Users -> SUBSET PollIds]
      /\ Delisted(u, p) \in SUBSET PollIds /\ old \in VoteRecord
  BY DEF GovTypeOK, Delisted, Unexpired
<1>3. /\ NoVote \in VoteRecord /\ NoVote.choice = "none"
      /\ old.power \in Nat /\ old.choice \in Choices
      /\ \A d \in Choices : Weight(NoVote, d) = 0
  BY <1>1, <1>2 DEF VoteRecord, NoVote, Weight, Choices
<1>4. ASSUME NEW d \in Choices
      PROVE  tally[d] = result[p][d] + Weight(NoVote, d) - Weight(old, d)
  <2>1. result[p][d] \in Nat /\ Weight(NoVote, d) = 0
    BY <1>2, <1>3
  <2>2. tally[d] = result[p][d] - Weight(old, d)
    BY <1>2, <1>3, <2>1 DEF Weight
  <2>3. Weight(old, d) \in Nat
    BY <1>3 DEF Weight
  <2>4. QED
    BY <2>1, <2>2, <2>3
<1>5. /\ active' \in [Users -> SUBSET PollIds]
      /\ active'[u] = Unexpired(active[u]) \ {p}
      /\ \A w \in Users : w # u => active'[w] = active[w]
  BY <1>1, <1>2 DEF Delisted
<1>6. /\ p \in active'[u] <=> NoVote.choice # "none"
      /\ \A q \in PollIds : q # p /\ ~Expired(q) => (q \in active'[u] <=> q \in active[u])
      /\ active'[u] \subseteq active[u] \cup {p}
  BY <1>2, <1>3, <1>5 DEF Unexpired
<1>7. TallyFollows(p, u, NoVote, tally) /\ ListFollows(p, u, NoVote)
  BY <1>4, <1>5, <1>6 DEF TallyFollows, ListFollows
<1> HIDE DEF tally
<1>8. QED
  BY <1>1, <1>3, <1>7, VoteOnPoll

\* A deposit raises each open vote of its owner and the tally it is in.
LEMMA IncreaseVotePowerVotes ==
  ASSUME GovTypeOK, VotesInv, NEW u \in Users, NEW amount \in Nat, NEW t,
         IncreaseVotePower(u, amount, t), now' = now
  PROVE  VotesInv'
<1> SUFFICES ASSUME NEW p \in PollIds PROVE Counted(p)'
  BY DEF VotesInv, PollIds
<1> DEFINE mine == Unexpired(active[u])
           old == vote[p][u]
           v == [old EXCEPT !.power = @ + amount]
           tally == [result[p] EXCEPT ![old.choice] = @ + amount]
<1>1. /\ Counted(p) /\ UNCHANGED <<pollCount, active>> /\ now \in Nat
      /\ result[p] \in [Choices -> Nat] /\ old \in VoteRecord
      /\ vote[p] \in [Users -> VoteRecord]
      /\ poll[p] \in PollRecord
  BY DEF VotesInv, IncreaseVotePower, GovTypeOK
<1>2. CASE p \in mine
  <2>1. /\ vote'[p] = [vote[p] EXCEPT ![u].power = @ + amount]
        /\ result'[p] = tally
        /\ poll'[p] = [poll[p] EXCEPT !.status = Verdict(tally, CurrentQuorum(p), t)]
        /\ old.choice # "none" /\ p \in active[u] /\ ~Expired(p)
    BY <1>2 DEF IncreaseVotePower, HasVoted, Unexpired
  <2>2. /\ v \in VoteRecord /\ v.choice = old.choice /\ v.power = old.power + amount
        /\ old.power \in Nat /\ old.choice \in Choices
    BY <1>1, <2>1 DEF VoteRecord
  <2>3. vote'[p] = [vote[p] EXCEPT ![u] = v]
    BY <1>1, <2>1
  <2>4. ASSUME NEW d \in Choices
        PROVE  tally[d] = result[p][d] + Weight(v, d) - Weight(old, d)
    <3>1. result[p][d] \in Nat
      BY <1>1
    <3>2. CASE d = old.choice
      <4>1. tally[d] = result[p][d] + amount
        BY <1>1, <2>2, <3>2
      <4>2. Weight(v, d) = old.power + amount /\ Weight(old, d) = old.power
        BY <2>2, <3>2 DEF Weight
      <4>3. QED
        BY <2>2, <3>1, <4>1, <4>2
    <3>3. CASE d # old.choice
      <4>1. tally[d] = result[p][d]
        BY <1>1, <2>2, <3>3
      <4>2. Weight(v, d) = 0 /\ Weight(old, d) = 0
        BY <2>2, <3>3 DEF Weight
      <4>3. QED
        BY <3>1, <4>1, <4>2
    <3>4. QED
      BY <3>2, <3>3
  <2>5. poll'[p].expiration = poll[p].expiration
    BY <1>1, <2>1 DEF PollRecord
  <2>6. \A w \in Users : vote'[p][w].choice = vote[p][w].choice
    <3> HIDE DEF v
    <3>1. QED
      BY <1>1, <2>2, <2>3
  <2> HIDE DEF v, tally
  <2>7. \A d \in Choices : SumsTo(PowerFor(p, d)', N, result'[p][d])
    BY <1>1, <2>1, <2>2, <2>3, <2>4, OneVoteCounts DEF Counted
  <2>8. QED
    BY <1>1, <2>1, <2>5, <2>6, <2>7 DEF Counted, Exists, Expired, HasVoted
<1>3. CASE p \notin mine
  <2>1. vote'[p] = vote[p] /\ result'[p] = result[p] /\ poll'[p] = poll[p]
    BY <1>3 DEF IncreaseVotePower
  <2>2. QED
    BY <1>1, <2>1, UntouchedPoll DEF Exists
<1>4. QED
  BY <1>2, <1>3

\* Time and the admin leave the votes alone.
LEMMA OthersKeepVotes ==
  ASSUME GovTypeOK, VotesInv, now' \in Nat, now' >= now,
         UNCHANGED <<pollCount, poll, result, vote, active>>
  PROVE  VotesInv'
<1>1. \A p \in PollIds : Counted(p)'
  BY UntouchedPoll DEF VotesInv, Exists
<1>2. QED
  BY <1>1 DEF VotesInv, PollIds

LEMMA GovInitVotes ==
  ASSUME GovInit
  PROVE  VotesInv
<1> SUFFICES ASSUME NEW p \in PollIds PROVE Counted(p)
  BY DEF VotesInv
<1>1. /\ \A v \in Users : vote[p][v] = NoVote /\ active[v] = {}
      /\ poll[p] = NoPoll /\ \A c \in Choices : result[p][c] = 0
  BY DEF GovInit
<1>2. ASSUME NEW c \in Choices PROVE SumsTo(PowerFor(p, c), N, result[p][c])
  <2>1. \A v \in 1..N : PowerFor(p, c)[v] = 0
    BY <1>1 DEF PowerFor, Users, NoVote
  <2>2. QED
    BY <1>1, <2>1, ZerosSumToZero, NAssumption
<1>3. QED
  BY <1>1, <1>2 DEF Counted, HasVoted, NoVote

-----------------------------------------------------------------------------
(* The projected values have their types whenever an account can be read.  *)

LEMMA NatProduct == \A x, y \in Nat : x * y \in Nat
OBVIOUS

LEMMA RecordFields ==
  /\ \A a \in AccountRecord :
       /\ a.staked \in Nat /\ a.volume \in Nat /\ a.updated \in Nat
       /\ a.entryVol \in Nat /\ a.entryRew \in Nat /\ a.bonding \in Nat
  /\ \A t \in TotalRecord :
       /\ t.volume \in Nat /\ t.updated \in Nat
       /\ t.staked \in Nat /\ t.distributed \in Nat
  /\ \A c \in ClockRecord : c.volume \in Nat /\ c.number \in Nat
BY DEF AccountRecord, TotalRecord, ClockRecord

LEMMA TotalVolumeType ==
  ASSUME PoolTypeOK, total.updated <= now
  PROVE  TotalVolume \in Nat
<1>1. total.volume \in Nat /\ total.updated \in Nat /\ total.staked \in Nat /\ now \in Nat
  BY RecordFields DEF PoolTypeOK, GovTypeOK
<1>2. (now - total.updated) * total.staked \in Nat
  BY <1>1, NatProduct
<1>3. QED
  BY <1>1, <1>2 DEF TotalVolume, Accumulate

LEMMA ReadingTypes ==
  ASSUME PoolTypeOK, NEW u \in Users, NEW h \in Nat, Readable(u, h)
  PROVE  /\ TotalVolume \in Nat
         /\ UserVolume(u) \in Nat
         /\ BondingLeft(u) \in Nat
         /\ Budget(h) \in Nat
         /\ Unlocked(h) \in Nat
         /\ Earned(u, h) \in Nat
         /\ Earned(u, h) <= Budget(h)
<1>1. account[u] \in AccountRecord /\ total \in TotalRecord /\ now \in Nat
  BY DEF PoolTypeOK, GovTypeOK
<1>2. /\ account[u].staked \in Nat /\ account[u].volume \in Nat
      /\ account[u].updated \in Nat /\ account[u].entryVol \in Nat
      /\ account[u].entryRew \in Nat /\ account[u].bonding \in Nat
      /\ total.staked \in Nat /\ total.distributed \in Nat
  BY <1>1, RecordFields
<1>3. TotalVolume \in Nat
  BY TotalVolumeType DEF Readable, TotalReadable
<1>4. Elapsed(u) \in Nat
  BY <1>1, <1>2 DEF Readable, Elapsed
<1>5. UserVolume(u) \in Nat
  <2>1. Elapsed(u) * account[u].staked \in Nat
    BY <1>2, <1>4, NatProduct
  <2>2. QED
    BY <1>2, <2>1 DEF UserVolume, Accumulate
<1>6. BondingLeft(u) \in Nat
  BY <1>2, <1>4 DEF BondingLeft, MinusOrZero
<1>7. Budget(h) \in Nat
  BY <1>2 DEF Budget, Readable, TotalReadable
<1>8. Unlocked(h) \in Nat
  BY <1>2, <1>7 DEF Unlocked
<1>9. Earned(u, h) \in Nat /\ Earned(u, h) <= Budget(h)
  <2> DEFINE x == AccumulatedRewards(u, h) * UserVolume(u)
             y == AccumulatedVolume(u)
  <2>1. AccumulatedRewards(u, h) \in Nat /\ y \in Nat
    BY <1>2, <1>3, <1>8 DEF AccumulatedRewards, AccumulatedVolume, Readable
  <2>2. x \in Nat
    BY <2>1, <1>5, NatProduct
  <2>3. CASE y = 0
    BY <2>3, <1>7 DEF Earned
  <2>4. CASE y # 0
    <3> HIDE DEF x, y
    <3>1. x \div y \in Nat
      BY <2>1, <2>2, <2>4
    <3>2. Earned(u, h) = LeastOf(Budget(h), x \div y)
      BY <2>4 DEF Earned, x, y
    <3>3. QED
      BY <3>1, <3>2, <1>7 DEF LeastOf
  <2>5. QED
    BY <2>3, <2>4
<1>10. QED
  BY <1>3, <1>5, <1>6, <1>7, <1>8, <1>9

\* What a transaction stores for an account it read is an account record.
LEMMA StoredAccountTypes ==
  ASSUME PoolTypeOK, NEW u \in Users, NEW h \in Nat, Readable(u, h)
  PROVE  /\ \A s \in Nat : Reset(s, h) \in AccountRecord
         /\ CommitElapsed(u, h) \in AccountRecord
         /\ CommitElapsed(u, h).staked = account[u].staked
         /\ \A d \in Int : account[u].staked + d \in Nat =>
              /\ AccountAfter(u, h, d) \in AccountRecord
              /\ AccountAfter(u, h, d).staked = account[u].staked + d
<1>1. /\ TotalVolume \in Nat /\ UserVolume(u) \in Nat
      /\ BondingLeft(u) \in Nat /\ Unlocked(h) \in Nat
  BY ReadingTypes
<1>2. /\ now \in Nat /\ clock.volume \in Nat /\ bonding \in Nat
      /\ account[u] \in AccountRecord
  BY RecordFields, PoolAssumption DEF PoolTypeOK, GovTypeOK
<1>3. ASSUME NEW s \in Nat PROVE Reset(s, h) \in AccountRecord
  BY <1>1, <1>2 DEF Reset, AccountRecord
<1>4. CommitElapsed(u, h) \in AccountRecord
  <2>1. CASE account[u].staked = 0
    BY <2>1, <1>3 DEF CommitElapsed
  <2>2. CASE account[u].staked # 0
    BY <2>2, <1>1, <1>2 DEF CommitElapsed, AccountRecord
  <2>3. QED
    BY <2>1, <2>2
<1>5. CommitElapsed(u, h).staked = account[u].staked
  <2>1. CASE account[u].staked = 0
    BY <2>1 DEF CommitElapsed, Reset
  <2>2. CASE account[u].staked # 0
    BY <2>2, <1>2 DEF CommitElapsed, AccountRecord
  <2>3. QED
    BY <2>1, <2>2
<1>6. ASSUME NEW d \in Int, account[u].staked + d \in Nat
      PROVE  /\ AccountAfter(u, h, d) \in AccountRecord
             /\ AccountAfter(u, h, d).staked = account[u].staked + d
  BY <1>4, <1>5, <1>6 DEF AccountAfter, AccountRecord
<1>7. QED
  BY <1>3, <1>4, <1>5, <1>6

\* What a transaction stores for the pool is a total record.
LEMMA StoredTotalTypes ==
  ASSUME PoolTypeOK, total.updated <= now
  PROVE  /\ \A d \in Int : total.staked + d \in Nat =>
              /\ TotalAfter(d) \in TotalRecord
              /\ TotalAfter(d).updated = now
              /\ TotalAfter(d).staked = total.staked + d
         /\ \A t \in TotalRecord, r \in Nat :
              /\ AfterClaim(t, r) \in TotalRecord
              /\ AfterClaim(t, r).updated = t.updated
              /\ AfterClaim(t, r).staked = t.staked
<1>1. TotalVolume \in Nat /\ now \in Nat /\ total \in TotalRecord
  BY TotalVolumeType DEF PoolTypeOK, GovTypeOK
<1>2. ASSUME NEW d \in Int, total.staked + d \in Nat
      PROVE  /\ TotalAfter(d) \in TotalRecord
             /\ TotalAfter(d).updated = now
             /\ TotalAfter(d).staked = total.staked + d
  BY <1>1, <1>2 DEF TotalAfter, TotalRecord
<1>3. ASSUME NEW t \in TotalRecord, NEW r \in Nat
      PROVE  /\ AfterClaim(t, r) \in TotalRecord
             /\ AfterClaim(t, r).updated = t.updated
             /\ AfterClaim(t, r).staked = t.staked
  BY DEF AfterClaim, TotalRecord
<1>4. QED
  BY <1>2, <1>3

-----------------------------------------------------------------------------
(* Balances are natural numbers whatever a transaction moves.              *)

LEMMA CreditType ==
  ASSUME NEW b \in [Tokens -> Nat], NEW t \in Tokens, NEW a \in Nat
  PROVE  /\ Credit(b, t, a) \in [Tokens -> Nat]
         /\ a <= b[t] => Debit(b, t, a) \in [Tokens -> Nat]
BY DEF Credit, Debit

LEMMA TokensOfPool == LPToken \in Tokens /\ RewardToken \in Tokens
BY DEF Tokens

LEMMA PayOutType ==
  ASSUME NEW pool \in [Tokens -> Nat], NEW wallets \in [Users -> Nat],
         NEW u \in Users, NEW to \in Users, NEW lp \in Nat, NEW reward \in Nat,
         PayOut(pool, wallets, u, lp, to, reward)
  PROVE  held' \in [Tokens -> Nat] /\ wallet' \in [Users -> Nat]
<1>1. Debit(pool, LPToken, lp) \in [Tokens -> Nat]
  BY CreditType, TokensOfPool DEF PayOut
<1>2. held' \in [Tokens -> Nat]
  BY <1>1, CreditType, TokensOfPool DEF PayOut
<1>3. Spendable(reward) \in Nat
  BY DEF Spendable
<1>4. [wallets EXCEPT ![u] = @ + lp] \in [Users -> Nat]
  OBVIOUS
<1>5. wallet' \in [Users -> Nat]
  BY <1>3, <1>4 DEF PayOut
<1>6. QED
  BY <1>2, <1>5

-----------------------------------------------------------------------------
(* Type correctness.  The types alone are not inductive: the elapsed time  *)
(* a transaction adds up is a natural number only because nothing is ever  *)
(* stored with a time that lies ahead.                                     *)

TypeInv == PoolTypeOK /\ total.updated <= now

LEMMA CommitDepositType ==
  ASSUME TypeInv, NEW u \in Users, NEW amount \in Nat, NEW h \in Nat,
         CommitDeposit(u, amount, h),
         held' \in [Tokens -> Nat], wallet' \in [Users -> Nat],
         abroad' \in [Successors \cup Predecessors -> [Users -> Nat]]
  PROVE  TypeInv'
<1>1. PoolTypeOK /\ total.updated <= now /\ Readable(u, h) /\ now' = now /\ now \in Nat
  BY DEF TypeInv, CommitDeposit, PoolTypeOK, GovTypeOK
<1>2. GovTypeOK'
  BY <1>1, IncreaseVotePowerType DEF CommitDeposit, PoolTypeOK
<1>3. account[u].staked \in Nat /\ total.staked \in Nat
  BY <1>1, RecordFields DEF PoolTypeOK
<1>4. account' \in [Users -> AccountRecord]
  <2>1. AccountAfter(u, h, amount) \in AccountRecord
    BY <1>1, <1>3, StoredAccountTypes
  <2>2. QED
    BY <2>1, <1>1 DEF CommitDeposit, PoolTypeOK
<1>5. total' \in TotalRecord /\ total'.updated = now
  <2>1. total.staked + amount \in Nat /\ amount \in Int
    BY <1>3
  <2>2. QED
    BY <2>1, <1>1, StoredTotalTypes DEF CommitDeposit
<1>6. bondedUntil' \in [Users -> Nat]
  <2>1. now + bonding \in Nat
    BY <1>1, PoolAssumption DEF PoolTypeOK
  <2>2. QED
    BY <2>1, <1>1 DEF CommitDeposit, PoolTypeOK
<1>7. /\ clock' \in ClockRecord /\ bonding' \in Bondings
      /\ closed' \in Nat \cup {Never} /\ canMigrateTo' \subseteq Successors
      /\ canMigrateFrom' \subseteq Predecessors /\ drainable' \subseteq Tokens
      /\ vested' \in Nat /\ paid' \in [Users -> Nat]
  BY <1>1 DEF CommitDeposit, PoolTypeOK
<1>8. total'.updated <= now'
  BY <1>1, <1>5
<1>9. QED
  BY <1>2, <1>4, <1>5, <1>6, <1>7, <1>8 DEF TypeInv, PoolTypeOK

LEMMA UnchangedGovType ==
  ASSUME GovTypeOK, UNCHANGED <<now, govVars>>
  PROVE  GovTypeOK'
BY DEF GovTypeOK, govVars

\* A transaction that leaves governance and configuration alone.
LEMMA TransactionType ==
  ASSUME TypeInv,
         account' \in [Users -> AccountRecord],
         total' \in TotalRecord, total'.updated <= now,
         held' \in [Tokens -> Nat], wallet' \in [Users -> Nat],
         abroad' \in [Successors \cup Predecessors -> [Users -> Nat]],
         paid' \in [Users -> Nat], bondedUntil' \in [Users -> Nat],
         UNCHANGED <<now, govVars, clock, bonding, closed, canMigrateTo,
                     canMigrateFrom, drainable, vested>>
  PROVE  TypeInv'
<1>1. GovTypeOK'
  BY UnchangedGovType DEF TypeInv, PoolTypeOK
<1>2. QED
  BY <1>1 DEF TypeInv, PoolTypeOK

LEMMA WithdrawType ==
  ASSUME TypeInv, NEW u \in Users, NEW amount \in Nat, Withdraw(u, amount)
  PROVE  TypeInv'
<1> DEFINE h == held[RewardToken]
           left == AccountAfter(u, h, -amount)
           claims == left.staked = 0 /\ Earned(u, h) > 0 /\ left.bonding = 0
           reward == IF claims THEN Earned(u, h) ELSE 0
<1>1. /\ PoolTypeOK /\ total.updated <= now /\ now \in Nat
      /\ held \in [Tokens -> Nat] /\ h \in Nat /\ Readable(u, h)
  BY TokensOfPool DEF TypeInv, Withdraw, PoolTypeOK, GovTypeOK
<1>2. /\ account[u].staked \in Nat /\ total.staked \in Nat
      /\ account[u].staked + (-amount) \in Nat
      /\ total.staked + (-amount) \in Nat /\ -amount \in Int
  <2>1. account[u].staked \in Nat /\ total.staked \in Nat
    BY <1>1, RecordFields DEF PoolTypeOK
  <2>2. amount <= account[u].staked /\ amount <= total.staked
    BY DEF Withdraw
  <2>3. QED
    BY <2>1, <2>2
<1>3. Earned(u, h) \in Nat
  BY <1>1, ReadingTypes
<1>4. reward \in Nat
  BY <1>3
<1>5. left \in AccountRecord /\ Reset(0, h) \in AccountRecord
  BY <1>1, <1>2, StoredAccountTypes
<1>6. account' \in [Users -> AccountRecord]
  BY <1>5, <1>1 DEF Withdraw, PoolTypeOK
<1>7. TotalAfter(-amount) \in TotalRecord /\ TotalAfter(-amount).updated = now
  BY <1>1, <1>2, StoredTotalTypes
<1>8. total' = AfterClaim(TotalAfter(-amount), reward)
  BY DEF Withdraw
<1>9. total' \in TotalRecord /\ total'.updated = now
  <2> HIDE DEF reward
  <2>1. QED
    BY <1>1, <1>4, <1>7, <1>8, StoredTotalTypes
<1>10. PayOut(held, wallet, u, amount, u, reward)
  BY DEF Withdraw
<1>11. held' \in [Tokens -> Nat] /\ wallet' \in [Users -> Nat]
  <2> HIDE DEF reward
  <2>1. wallet \in [Users -> Nat]
    BY <1>1 DEF PoolTypeOK
  <2>2. QED
    BY <2>1, <1>1, <1>4, <1>10, PayOutType
<1>12. paid' = [paid EXCEPT ![u] = @ + reward]
  BY DEF Withdraw
<1>13. paid' \in [Users -> Nat]
  <2> HIDE DEF reward
  <2>1. QED
    BY <1>1, <1>4, <1>12 DEF PoolTypeOK
<1>14. bondedUntil' \in [Users -> Nat]
  BY <1>1 DEF Withdraw, PoolTypeOK
<1>15. /\ abroad' \in [Successors \cup Predecessors -> [Users -> Nat]]
       /\ UNCHANGED <<now, govVars, clock, bonding, closed, canMigrateTo,
                      canMigrateFrom, drainable, vested>>
  BY <1>1 DEF Withdraw, PoolTypeOK
<1>16. total'.updated <= now
  BY <1>1, <1>9
<1>17. QED
  BY <1>6, <1>9, <1>11, <1>13, <1>14, <1>15, <1>16, TransactionType

LEMMA ClaimType ==
  ASSUME TypeInv, NEW u \in Users, NEW to \in Users, Claim(u, to)
  PROVE  TypeInv'
<1> DEFINE h == held[RewardToken]
<1>1. /\ PoolTypeOK /\ total.updated <= now /\ now \in Nat
      /\ held \in [Tokens -> Nat] /\ h \in Nat /\ Readable(u, h)
  BY TokensOfPool DEF TypeInv, Claim, PoolTypeOK, GovTypeOK
<1>2. Earned(u, h) \in Nat
  BY <1>1, ReadingTypes
<1>3. account' \in [Users -> AccountRecord]
  <2>1. account[u].staked \in Nat
    BY <1>1, RecordFields DEF PoolTypeOK
  <2>2. Reset(account[u].staked, h) \in AccountRecord
    BY <2>1, <1>1, StoredAccountTypes
  <2>3. QED
    BY <2>2, <1>1 DEF Claim, PoolTypeOK
<1>4. total' \in TotalRecord /\ total'.updated = total.updated
  <2>1. total \in TotalRecord
    BY <1>1 DEF PoolTypeOK
  <2>2. QED
    BY <2>1, <1>1, <1>2, StoredTotalTypes DEF Claim
<1>5. held' \in [Tokens -> Nat] /\ wallet' \in [Users -> Nat]
  <2>1. wallet \in [Users -> Nat] /\ PayOut(held, wallet, u, 0, to, Earned(u, h))
    BY <1>1 DEF PoolTypeOK, Claim
  <2>2. QED
    BY <2>1, <1>1, <1>2, PayOutType
<1>6. paid' \in [Users -> Nat] /\ bondedUntil' \in [Users -> Nat]
  <2>1. now + bonding \in Nat
    BY <1>1, PoolAssumption DEF PoolTypeOK
  <2>2. QED
    BY <2>1, <1>1, <1>2 DEF Claim, PoolTypeOK
<1>7. /\ abroad' \in [Successors \cup Predecessors -> [Users -> Nat]]
      /\ UNCHANGED <<now, govVars, clock, bonding, closed, canMigrateTo,
                      canMigrateFrom, drainable, vested>>
  BY <1>1 DEF Claim, PoolTypeOK
<1>8. total'.updated <= now
  BY <1>1, <1>4
<1>9. QED
  BY <1>3, <1>4, <1>5, <1>6, <1>7, <1>8, TransactionType

LEMMA ForceExitFromType ==
  ASSUME TypeInv, NEW u \in Users, NEW pool \in [Tokens -> Nat],
         NEW wallets \in [Users -> Nat], ForceExitFrom(u, pool, wallets)
  PROVE  TypeInv'
<1> DEFINE h == pool[RewardToken]
           staked == account[u].staked
<1>1. /\ PoolTypeOK /\ total.updated <= now /\ now \in Nat
      /\ h \in Nat /\ Readable(u, h)
  BY TokensOfPool DEF TypeInv, ForceExitFrom, PoolTypeOK, GovTypeOK
<1>2. Earned(u, h) \in Nat
  BY <1>1, ReadingTypes
<1>3. /\ staked \in Nat /\ total.staked \in Nat
      /\ staked + (-staked) \in Nat /\ total.staked + (-staked) \in Nat
      /\ -staked \in Int
  <2>1. staked \in Nat /\ total.staked \in Nat
    BY <1>1, RecordFields DEF PoolTypeOK
  <2>2. staked <= total.staked
    BY DEF ForceExitFrom
  <2>3. QED
    BY <2>1, <2>2
<1>4. account' \in [Users -> AccountRecord]
  <2>1. AccountAfter(u, h, -staked) \in AccountRecord /\ Reset(0, h) \in AccountRecord
    BY <1>1, <1>3, StoredAccountTypes
  <2>2. QED
    BY <2>1, <1>1 DEF ForceExitFrom, PoolTypeOK
<1>5. total' \in TotalRecord /\ total'.updated = now
  <2>1. TotalAfter(-staked) \in TotalRecord /\ TotalAfter(-staked).updated = now
    BY <1>1, <1>3, StoredTotalTypes
  <2>2. total' = AfterClaim(TotalAfter(-staked), Earned(u, h))
    BY DEF ForceExitFrom
  <2>3. QED
    BY <2>1, <2>2, <1>1, <1>2, StoredTotalTypes
<1>6. held' \in [Tokens -> Nat] /\ wallet' \in [Users -> Nat]
  <2>1. PayOut(pool, wallets, u, staked, u, Earned(u, h))
    BY DEF ForceExitFrom
  <2>2. QED
    BY <2>1, <1>2, <1>3, PayOutType
<1>7. paid' \in [Users -> Nat]
  BY <1>1, <1>2 DEF ForceExitFrom, PoolTypeOK
<1>8. /\ abroad' \in [Successors \cup Predecessors -> [Users -> Nat]]
      /\ bondedUntil' \in [Users -> Nat]
      /\ UNCHANGED <<now, govVars, clock, bonding, closed, canMigrateTo,
                      canMigrateFrom, drainable, vested>>
  BY <1>1 DEF ForceExitFrom, PoolTypeOK
<1>9. total'.updated <= now
  BY <1>1, <1>5
<1>10. QED
  BY <1>4, <1>5, <1>6, <1>7, <1>8, <1>9, TransactionType

LEMMA ExportStateType ==
  ASSUME TypeInv, NEW c \in Successors, NEW u \in Users, ExportState(c, u)
  PROVE  TypeInv'
<1> DEFINE h == held[RewardToken]
           staked == account[u].staked
<1>1. /\ PoolTypeOK /\ total.updated <= now /\ now \in Nat
      /\ held \in [Tokens -> Nat] /\ h \in Nat /\ Readable(u, h)
  BY TokensOfPool DEF TypeInv, ExportState, PoolTypeOK, GovTypeOK
<1>2. /\ staked \in Nat /\ total.staked \in Nat
      /\ staked + (-staked) \in Nat /\ total.staked + (-staked) \in Nat
      /\ -staked \in Int
  <2>1. staked \in Nat /\ total.staked \in Nat
    BY <1>1, RecordFields DEF PoolTypeOK
  <2>2. staked <= total.staked
    BY DEF ExportState
  <2>3. QED
    BY <2>1, <2>2
<1>3. account' \in [Users -> AccountRecord]
  <2>1. AccountAfter(u, h, -staked) \in AccountRecord
    BY <1>1, <1>2, StoredAccountTypes
  <2>2. QED
    BY <2>1, <1>1 DEF ExportState, PoolTypeOK
<1>4. total' \in TotalRecord /\ total'.updated = now
  BY <1>1, <1>2, StoredTotalTypes DEF ExportState
<1>5. held' \in [Tokens -> Nat]
  BY <1>1, <1>2, CreditType, TokensOfPool DEF ExportState
<1>6. abroad' \in [Successors \cup Predecessors -> [Users -> Nat]]
  BY <1>1, <1>2 DEF ExportState, PoolTypeOK
<1>7. /\ wallet' \in [Users -> Nat] /\ paid' \in [Users -> Nat]
      /\ bondedUntil' \in [Users -> Nat]
      /\ UNCHANGED <<now, govVars, clock, bonding, closed, canMigrateTo,
                      canMigrateFrom, drainable, vested>>
  BY <1>1 DEF ExportState, PoolTypeOK, history
<1>8. total'.updated <= now
  BY <1>1, <1>4
<1>9. QED
  BY <1>3, <1>4, <1>5, <1>6, <1>7, <1>8, TransactionType

\* A transaction of governance, or of the admin, moves no token and no stake.
LEMMA GovernanceStepType ==
  ASSUME TypeInv, GovTypeOK', UNCHANGED notGov
  PROVE  TypeInv'
BY DEF TypeInv, PoolTypeOK, notGov, poolVars, tokenVars, history

LEMMA VoterType ==
  ASSUME TypeInv, NEW u \in Users, NEW p \in PollIds, NEW c \in Choices,
         \/ StakerVotes(u, p, c)
         \/ StakerChangesVote(u, p, c)
         \/ StakerUnvotes(u, p)
  PROVE  TypeInv'
<1>1. account[u].staked \in Nat /\ GovTypeOK
  BY RecordFields DEF TypeInv, PoolTypeOK
<1>2. UNCHANGED notGov
  BY DEF StakerVotes, StakerChangesVote, StakerUnvotes
<1>3. now' = now
  BY <1>2 DEF notGov
<1>4. GovTypeOK'
  <2>1. CASE StakerVotes(u, p, c)
    BY <2>1, <1>1, <1>3, CastVoteType DEF StakerVotes
  <2>2. CASE StakerChangesVote(u, p, c)
    BY <2>2, <1>1, <1>3, ChangeVoteChoiceType DEF StakerChangesVote
  <2>3. CASE StakerUnvotes(u, p)
    BY <2>3, <1>1, <1>3, UnvoteType DEF StakerUnvotes
  <2>4. QED
    BY <2>1, <2>2, <2>3
<1>5. QED
  BY <1>2, <1>4, GovernanceStepType

\* Every transaction keeps TypeInv.
LEMMA TypeStep ==
  ASSUME TypeInv, [Next]_vars
  PROVE  TypeInv'
<1> USE PoolAssumption
<1>1. /\ PoolTypeOK /\ total.updated <= now /\ now \in Nat /\ GovTypeOK
      /\ held \in [Tokens -> Nat] /\ wallet \in [Users -> Nat]
      /\ abroad \in [Successors \cup Predecessors -> [Users -> Nat]]
  BY DEF TypeInv, PoolTypeOK, GovTypeOK
<1>2. total.updated \in Nat
  BY <1>1, RecordFields DEF PoolTypeOK
<1>3. CASE Tick
  <2>1. now' \in Nat /\ total.updated <= now'
    BY <1>1, <1>2, <1>3 DEF Tick
  <2>2. GovTypeOK'
    BY <1>1, <1>3, <2>1 DEF Tick, GovTypeOK, govVars
  <2>3. QED
    BY <1>1, <1>3, <2>1, <2>2
       DEF Tick, TypeInv, PoolTypeOK, poolVars, tokenVars, history
<1>4. ASSUME NEW amount \in Vestings, Vest(amount) PROVE TypeInv'
  <2>1. amount \in Nat
    OBVIOUS
  <2>2. held' \in [Tokens -> Nat]
    BY <1>1, <1>4, <2>1, CreditType, TokensOfPool DEF Vest
  <2>3. GovTypeOK'
    BY <1>1, <1>4, UnchangedGovType DEF Vest
  <2>4. QED
    BY <1>1, <1>4, <2>1, <2>2, <2>3 DEF Vest, TypeInv, PoolTypeOK, poolVars
<1>5. ASSUME NEW u \in Users, NEW amount \in Amounts, Deposit(u, amount)
      PROVE  TypeInv'
  <2>1. amount \in Nat /\ held[RewardToken] \in Nat
    BY <1>1, TokensOfPool
  <2>2. held' \in [Tokens -> Nat]
    BY <1>1, <1>5, <2>1, CreditType, TokensOfPool DEF Deposit
  <2>3. wallet' \in [Users -> Nat]
    BY <1>1, <1>5, <2>1 DEF Deposit
  <2>4. QED
    BY <1>1, <1>5, <2>1, <2>2, <2>3, CommitDepositType DEF Deposit
<1>6. ASSUME NEW u \in Users, NEW amount \in Amounts, DepositBySend(u, amount)
      PROVE  TypeInv'
  <2>1. amount \in Nat
    OBVIOUS
  <2>2. Credit(held, LPToken, amount) \in [Tokens -> Nat]
    BY <1>1, <2>1, CreditType, TokensOfPool
  <2>3. Credit(held, LPToken, amount)[RewardToken] \in Nat
    BY <2>2, TokensOfPool
  <2>4. held' \in [Tokens -> Nat] /\ wallet' \in [Users -> Nat]
    BY <1>1, <1>6, <2>1, <2>2 DEF DepositBySend, SendLP
  <2>5. QED
    BY <1>1, <1>6, <2>1, <2>3, <2>4, CommitDepositType DEF DepositBySend, SendLP
<1>7. ASSUME NEW u \in Users, NEW amount \in Amounts, Withdraw(u, amount)
      PROVE  TypeInv'
  BY <1>7, WithdrawType
<1>8. ASSUME NEW u \in Users, NEW to \in Users, Claim(u, to)
      PROVE  TypeInv'
  BY <1>8, ClaimType
<1>9. ASSUME NEW u \in Users, ForceExit(u)
      PROVE  TypeInv'
  BY <1>1, <1>9, ForceExitFromType DEF ForceExit
<1>10. ASSUME NEW u \in Users, NEW amount \in Amounts, ForceExitBySend(u, amount)
       PROVE  TypeInv'
  <2>1. amount \in Nat /\ amount <= wallet[u]
    BY <1>10 DEF ForceExitBySend
  <2>2. Credit(held, LPToken, amount) \in [Tokens -> Nat]
    BY <1>1, <2>1, CreditType, TokensOfPool
  <2>3. [wallet EXCEPT ![u] = @ - amount] \in [Users -> Nat]
    BY <1>1, <2>1
  <2>4. QED
    BY <1>10, <2>2, <2>3, ForceExitFromType DEF ForceExitBySend
<1>11. ASSUME NEW c \in Successors, NEW u \in Users, ExportState(c, u)
       PROVE  TypeInv'
  BY <1>11, ExportStateType
<1>12. ASSUME NEW c \in Predecessors, NEW u \in Users, ReceiveMigration(c, u)
       PROVE  TypeInv'
  <2>1. abroad[c][u] \in Nat
    BY <1>1
  <2>2. Credit(held, LPToken, abroad[c][u]) \in [Tokens -> Nat]
    BY <1>1, <2>1, CreditType, TokensOfPool
  <2>3. Credit(held, LPToken, abroad[c][u])[RewardToken] \in Nat
    BY <2>2, TokensOfPool
  <2>4. /\ held' \in [Tokens -> Nat] /\ wallet' \in [Users -> Nat]
        /\ abroad' \in [Successors \cup Predecessors -> [Users -> Nat]]
    BY <1>1, <1>12, <2>1, <2>2 DEF ReceiveMigration
  <2>5. QED
    BY <1>1, <1>12, <2>1, <2>3, <2>4, CommitDepositType DEF ReceiveMigration
<1>13. ASSUME NEW u \in Users, StakerCreatesPoll(u)
       PROVE  TypeInv'
  <2>1. UNCHANGED notGov /\ account[u].staked \in Nat
    BY <1>1, <1>13, RecordFields DEF StakerCreatesPoll, PoolTypeOK
  <2>2. now' = now
    BY <2>1 DEF notGov
  <2>3. GovTypeOK'
    BY <1>1, <1>13, <2>1, <2>2, CreatePollType DEF StakerCreatesPoll
  <2>4. QED
    BY <2>1, <2>3, GovernanceStepType
<1>14. ASSUME NEW u \in Users, NEW p \in PollIds, NEW c \in Choices,
              StakerVotes(u, p, c) \/ StakerChangesVote(u, p, c)
       PROVE  TypeInv'
  BY <1>14, VoterType
<1>15. ASSUME NEW u \in Users, NEW p \in PollIds, StakerUnvotes(u, p)
       PROVE  TypeInv'
  <2>1. "yes" \in Choices
    BY DEF Choices
  <2>2. QED
    BY <1>15, <2>1, VoterType
<1>16. CASE AdminRunsGovernance
  <2>1. UNCHANGED notGov /\ (UpdateGovConfig \/ CloseGovernance)
    BY <1>16 DEF AdminRunsGovernance
  <2>2. now' = now
    BY <2>1 DEF notGov
  <2>3. QED
    BY <1>1, <2>1, <2>2, AdminGovernanceType, GovernanceStepType
<1>17. CASE BeginEpoch
  <2>1. GovTypeOK' /\ total' = total /\ now' = now
    BY <1>1, <1>17, UnchangedGovType DEF BeginEpoch
  <2>2. clock' \in ClockRecord
    BY <1>1, <1>17, TotalVolumeType DEF BeginEpoch, ClockRecord, PoolTypeOK
  <2>3. QED
    BY <1>1, <1>17, <2>1, <2>2 DEF BeginEpoch, TypeInv, PoolTypeOK, tokenVars, history
<1>18. CASE Configure \/ Close \/ SetMigration \/ \E t \in Tokens : Drain(t)
  <2>1. UNCHANGED <<now, govVars, clock, total, account, tokenVars, history>>
    BY <1>18 DEF Configure, Close, SetMigration, Drain
  <2>2. GovTypeOK'
    BY <1>1, <2>1, UnchangedGovType
  <2>3. bonding' \in Bondings /\ closed' \in Nat \cup {Never}
    BY <1>1, <1>18 DEF Configure, Close, SetMigration, Drain, PoolTypeOK
  <2>4. canMigrateTo' \subseteq Successors /\ canMigrateFrom' \subseteq Predecessors
    BY <1>1, <1>18 DEF Configure, Close, SetMigration, Drain, PoolTypeOK
  <2>5. drainable' \subseteq Tokens
    BY <1>1, <1>18 DEF Configure, Close, SetMigration, Drain, PoolTypeOK
  <2>6. QED
    BY <1>1, <2>1, <2>2, <2>3, <2>4, <2>5 DEF TypeInv, PoolTypeOK, tokenVars, history
<1>19. ASSUME NEW t \in Tokens, Sweep(t)
       PROVE  TypeInv'
  <2>1. GovTypeOK'
    BY <1>1, <1>19, UnchangedGovType DEF Sweep
  <2>2. QED
    BY <1>1, <1>19, <2>1 DEF Sweep, TypeInv, PoolTypeOK, poolVars, history
<1>20. CASE UNCHANGED vars
  <2>1. GovTypeOK'
    BY <1>1, <1>20, UnchangedGovType DEF vars
  <2>2. QED
    BY <1>1, <1>20, <2>1 DEF vars, TypeInv, PoolTypeOK, poolVars, tokenVars, history
<1>21. QED
  BY <1>3, <1>4, <1>5, <1>6, <1>7, <1>8, <1>9, <1>10, <1>11, <1>12, <1>13,
     <1>14, <1>15, <1>16, <1>17, <1>18, <1>19, <1>20 DEF Next

LEMMA InitType ==
  ASSUME Init
  PROVE  TypeInv
<1> USE PoolAssumption
<1>1. GovTypeOK
  BY GovInitType DEF Init
<1>2. NewAccount \in AccountRecord
  BY DEF NewAccount, AccountRecord
<1>3. clock \in ClockRecord /\ total \in TotalRecord /\ total.updated <= now
  BY DEF Init, GovInit, ClockRecord, TotalRecord
<1>4. account \in [Users -> AccountRecord]
  BY <1>2 DEF Init
<1>5. abroad \in [Successors \cup Predecessors -> [Users -> Nat]]
  BY DEF Init
<1>6. held \in [Tokens -> Nat] /\ wallet \in [Users -> Nat] /\ vested \in Nat
  BY DEF Init
<1>7. paid \in [Users -> Nat] /\ bondedUntil \in [Users -> Nat]
  BY DEF Init
<1>8. /\ bonding \in Bondings /\ closed \in Nat \cup {Never}
      /\ canMigrateTo \subseteq Successors /\ canMigrateFrom \subseteq Predecessors
      /\ drainable \subseteq Tokens
  BY DEF Init
<1>9. QED
  BY <1>1, <1>3, <1>4, <1>5, <1>6, <1>7, <1>8 DEF TypeInv, PoolTypeOK

-----------------------------------------------------------------------------
(* total.staked is the sum of the stakes.                                  *)

LEMMA StakeChange ==
  ASSUME TypeInv, TypeInv', StakedIsSum,
         NEW u \in Users, NEW d \in Int,
         account'[u].staked = account[u].staked + d,
         \A v \in Users : v # u => account'[v] = account[v],
         total'.staked = total.staked + d
  PROVE  StakedIsSum'
<1> DEFINE f == [v \in Users |-> account[v].staked]
           g == [v \in Users |-> account'[v].staked]
<1>1. /\ f \in [1..N -> Nat] /\ g \in [1..N -> Nat]
      /\ total.staked \in Nat /\ N \in Nat /\ u \in 1..N
  BY RecordFields, NAssumption DEF TypeInv, PoolTypeOK, Users
<1>2. SumsTo(f, N, total.staked)
  BY DEF StakedIsSum
<1>3. g[u] = f[u] + d /\ \A i \in 1..N : i # u => g[i] = f[i]
  BY DEF Users
<1> HIDE DEF f, g
<1>4. SumsTo(g, N, total.staked + d)
  BY <1>1, <1>2, <1>3, ChangeOfOneEntry
<1>5. QED
  BY <1>4 DEF StakedIsSum, g

\* The stakes and their total after a transaction that leaves both alone.
LEMMA StakesUnchanged ==
  ASSUME StakedIsSum,
         \A v \in Users : account'[v].staked = account[v].staked,
         total'.staked = total.staked
  PROVE  StakedIsSum'
<1>1. [v \in Users |-> account'[v].staked] = [v \in Users |-> account[v].staked]
  OBVIOUS
<1>2. QED
  BY <1>1 DEF StakedIsSum

\* Each transaction changes the stake of at most one user, by as much as the
\* total: the amount deposited, minus the amount withdrawn, or minus all of it.
StakeChangesBy(u, d) ==
  /\ account'[u].staked = account[u].staked + d
  /\ \A v \in Users : v # u => account'[v] = account[v]
  /\ total'.staked = total.staked + d

LEMMA CommitDepositStakes ==
  ASSUME TypeInv, NEW u \in Users, NEW amount \in Nat, NEW h \in Nat,
         CommitDeposit(u, amount, h)
  PROVE  StakeChangesBy(u, amount)
<1>1. /\ PoolTypeOK /\ total.updated <= now /\ Readable(u, h)
      /\ account \in [Users -> AccountRecord]
      /\ account[u].staked \in Nat /\ total.staked \in Nat
  BY RecordFields DEF TypeInv, CommitDeposit, PoolTypeOK
<1>2. /\ account[u].staked + amount \in Nat /\ total.staked + amount \in Nat
      /\ amount \in Int
  BY <1>1
<1>3. AccountAfter(u, h, amount).staked = account[u].staked + amount
  BY <1>1, <1>2, StoredAccountTypes
<1>4. TotalAfter(amount).staked = total.staked + amount
  BY <1>1, <1>2, StoredTotalTypes
<1>5. QED
  BY <1>1, <1>3, <1>4 DEF CommitDeposit, StakeChangesBy

LEMMA WithdrawStakes ==
  ASSUME TypeInv, NEW u \in Users, NEW amount \in Nat, Withdraw(u, amount)
  PROVE  StakeChangesBy(u, -amount)
<1> DEFINE h == held[RewardToken]
           left == AccountAfter(u, h, -amount)
           claims == left.staked = 0 /\ Earned(u, h) > 0 /\ left.bonding = 0
           reward == IF claims THEN Earned(u, h) ELSE 0
<1>1. /\ PoolTypeOK /\ total.updated <= now /\ h \in Nat /\ Readable(u, h)
      /\ account \in [Users -> AccountRecord]
  BY TokensOfPool DEF TypeInv, Withdraw, PoolTypeOK
<1>2. /\ account[u].staked \in Nat /\ total.staked \in Nat
      /\ amount <= account[u].staked /\ amount <= total.staked
  BY <1>1, RecordFields DEF PoolTypeOK, Withdraw
<1>3. /\ account[u].staked + (-amount) \in Nat
      /\ total.staked + (-amount) \in Nat /\ -amount \in Int
  BY <1>2
<1>4. left.staked = account[u].staked + (-amount)
  BY <1>1, <1>3, StoredAccountTypes
<1>5. account' = [account EXCEPT ![u] = IF left.staked = 0 THEN Reset(0, h) ELSE left]
  BY DEF Withdraw
<1>6. account'[u].staked = left.staked
  BY <1>1, <1>5 DEF Reset
<1>7. total' = AfterClaim(TotalAfter(-amount), reward)
  BY DEF Withdraw
<1>8. reward \in Nat
  BY <1>1, ReadingTypes
<1>9. /\ TotalAfter(-amount) \in TotalRecord
      /\ TotalAfter(-amount).staked = total.staked + (-amount)
  BY <1>1, <1>3, StoredTotalTypes
<1>10. total'.staked = total.staked + (-amount)
  <2> HIDE DEF reward
  <2>1. QED
    BY <1>1, <1>7, <1>8, <1>9, StoredTotalTypes
<1>11. \A v \in Users : v # u => account'[v] = account[v]
  BY <1>1, <1>5
<1>12. QED
  BY <1>4, <1>6, <1>10, <1>11 DEF StakeChangesBy

LEMMA ClaimStakes ==
  ASSUME TypeInv, NEW u \in Users, NEW to \in Users, Claim(u, to)
  PROVE  StakeChangesBy(u, 0)
<1> DEFINE h == held[RewardToken]
<1>1. /\ PoolTypeOK /\ total.updated <= now /\ h \in Nat /\ Readable(u, h)
      /\ account \in [Users -> AccountRecord] /\ total \in TotalRecord
      /\ account[u].staked \in Nat /\ total.staked \in Nat
  BY RecordFields, TokensOfPool DEF TypeInv, Claim, PoolTypeOK
<1>2. Earned(u, h) \in Nat
  BY <1>1, ReadingTypes
<1>3. total'.staked = total.staked
  BY <1>1, <1>2, StoredTotalTypes DEF Claim
<1>4. account' = [account EXCEPT ![u] = Reset(account[u].staked, h)]
  BY DEF Claim
<1>5. account'[u].staked = account[u].staked
  BY <1>1, <1>4 DEF Reset
<1>6. QED
  BY <1>1, <1>3, <1>4, <1>5 DEF StakeChangesBy

LEMMA ForceExitFromStakes ==
  ASSUME TypeInv, NEW u \in Users, NEW pool \in [Tokens -> Nat], NEW wallets,
         ForceExitFrom(u, pool, wallets)
  PROVE  StakeChangesBy(u, -account[u].staked)
<1> DEFINE h == pool[RewardToken]
           staked == account[u].staked
<1>1. /\ PoolTypeOK /\ total.updated <= now /\ h \in Nat /\ Readable(u, h)
      /\ account \in [Users -> AccountRecord]
  BY TokensOfPool DEF TypeInv, ForceExitFrom, PoolTypeOK
<1>2. staked \in Nat /\ total.staked \in Nat /\ staked <= total.staked
  BY <1>1, RecordFields DEF PoolTypeOK, ForceExitFrom
<1>3. /\ staked + (-staked) \in Nat /\ staked + (-staked) = 0
      /\ total.staked + (-staked) \in Nat /\ -staked \in Int
  BY <1>2
<1>4. AccountAfter(u, h, -staked).staked = 0
  BY <1>1, <1>3, StoredAccountTypes
<1>5. account' = [account EXCEPT ![u] = IF Earned(u, h) > 0 THEN Reset(0, h)
                                        ELSE AccountAfter(u, h, -staked)]
  BY DEF ForceExitFrom
<1>6. account'[u].staked = 0
  BY <1>1, <1>4, <1>5 DEF Reset
<1>7. Earned(u, h) \in Nat
  BY <1>1, ReadingTypes
<1>8. /\ TotalAfter(-staked) \in TotalRecord
      /\ TotalAfter(-staked).staked = total.staked + (-staked)
  BY <1>1, <1>3, StoredTotalTypes
<1>9. total'.staked = total.staked + (-staked)
  BY <1>1, <1>7, <1>8, StoredTotalTypes DEF ForceExitFrom
<1>10. QED
  BY <1>1, <1>3, <1>5, <1>6, <1>9 DEF StakeChangesBy

LEMMA ExportStateStakes ==
  ASSUME TypeInv, NEW c \in Successors, NEW u \in Users, ExportState(c, u)
  PROVE  StakeChangesBy(u, -account[u].staked)
<1> DEFINE h == held[RewardToken]
           staked == account[u].staked
<1>1. /\ PoolTypeOK /\ total.updated <= now /\ h \in Nat /\ Readable(u, h)
      /\ account \in [Users -> AccountRecord]
  BY TokensOfPool DEF TypeInv, ExportState, PoolTypeOK
<1>2. staked \in Nat /\ total.staked \in Nat /\ staked <= total.staked
  BY <1>1, RecordFields DEF PoolTypeOK, ExportState
<1>3. /\ staked + (-staked) \in Nat
      /\ total.staked + (-staked) \in Nat /\ -staked \in Int
  BY <1>2
<1>4. AccountAfter(u, h, -staked).staked = staked + (-staked)
  BY <1>1, <1>3, StoredAccountTypes
<1>5. TotalAfter(-staked).staked = total.staked + (-staked)
  BY <1>1, <1>3, StoredTotalTypes
<1>6. QED
  BY <1>1, <1>4, <1>5 DEF ExportState, StakeChangesBy

StakesStay ==
  /\ \A v \in Users : account'[v].staked = account[v].staked
  /\ total'.staked = total.staked

LEMMA StepOnStakes ==
  ASSUME TypeInv, [Next]_vars
  PROVE  StakesStay \/ \E u \in Users, d \in Int : StakeChangesBy(u, d)
<1> USE PoolAssumption
<1>1. /\ held \in [Tokens -> Nat] /\ wallet \in [Users -> Nat]
      /\ abroad \in [Successors \cup Predecessors -> [Users -> Nat]]
      /\ \A u \in Users : account[u].staked \in Nat
  BY RecordFields DEF TypeInv, PoolTypeOK
<1>2. ASSUME NEW u \in Users, NEW amount \in Amounts,
             Deposit(u, amount) \/ DepositBySend(u, amount)
      PROVE  StakeChangesBy(u, amount) /\ amount \in Int
  <2>1. amount \in Nat /\ held[RewardToken] \in Nat
    BY <1>1, TokensOfPool
  <2>2. Credit(held, LPToken, amount)[RewardToken] \in Nat
    BY <1>1, <2>1, CreditType, TokensOfPool
  <2>3. QED
    BY <1>2, <2>1, <2>2, CommitDepositStakes DEF Deposit, DepositBySend
<1>3. ASSUME NEW u \in Users, NEW amount \in Amounts, Withdraw(u, amount)
      PROVE  StakeChangesBy(u, -amount) /\ -amount \in Int
  BY <1>3, WithdrawStakes
<1>4. ASSUME NEW u \in Users, NEW to \in Users, Claim(u, to)
      PROVE  StakeChangesBy(u, 0)
  BY <1>4, ClaimStakes
<1>5. ASSUME NEW u \in Users,
             ForceExit(u) \/ \E amount \in Amounts : ForceExitBySend(u, amount)
      PROVE  StakeChangesBy(u, -account[u].staked) /\ -account[u].staked \in Int
  <2>1. CASE ForceExit(u)
    BY <1>1, <2>1, ForceExitFromStakes DEF ForceExit
  <2>2. ASSUME NEW amount \in Amounts, ForceExitBySend(u, amount)
        PROVE  StakeChangesBy(u, -account[u].staked)
    <3>1. Credit(held, LPToken, amount) \in [Tokens -> Nat]
      BY <1>1, CreditType, TokensOfPool
    <3>2. QED
      BY <2>2, <3>1, ForceExitFromStakes DEF ForceExitBySend
  <2>3. QED
    BY <1>1, <1>5, <2>1, <2>2
<1>6. ASSUME NEW c \in Successors, NEW u \in Users, ExportState(c, u)
      PROVE  StakeChangesBy(u, -account[u].staked) /\ -account[u].staked \in Int
  BY <1>1, <1>6, ExportStateStakes
<1>7. ASSUME NEW c \in Predecessors, NEW u \in Users, ReceiveMigration(c, u)
      PROVE  StakeChangesBy(u, abroad[c][u]) /\ abroad[c][u] \in Int
  <2>1. abroad[c][u] \in Nat
    BY <1>1
  <2>2. Credit(held, LPToken, abroad[c][u])[RewardToken] \in Nat
    BY <1>1, <2>1, CreditType, TokensOfPool
  <2>3. QED
    BY <1>7, <2>1, <2>2, CommitDepositStakes DEF ReceiveMigration
<1>8. ASSUME UNCHANGED <<account, total>>
      PROVE  StakesStay
  BY <1>8 DEF StakesStay
<1>9. ASSUME \/ Tick \/ AdminRunsGovernance \/ BeginEpoch \/ Configure \/ Close
             \/ SetMigration
             \/ \E amount \in Vestings : Vest(amount)
             \/ \E t \in Tokens : Drain(t) \/ Sweep(t)
             \/ \E u \in Users : StakerCreatesPoll(u)
             \/ \E u \in Users, p \in PollIds, c \in Choices :
                  StakerVotes(u, p, c) \/ StakerChangesVote(u, p, c)
             \/ \E u \in Users, p \in PollIds : StakerUnvotes(u, p)
             \/ UNCHANGED vars
      PROVE  UNCHANGED <<account, total>>
  BY <1>9 DEF Tick, AdminRunsGovernance, BeginEpoch, Configure, Close,
     SetMigration, Vest, Drain, Sweep, StakerCreatesPoll, StakerVotes,
     StakerChangesVote, StakerUnvotes, vars, notGov, poolVars
<1>10. 0 \in Int
  OBVIOUS
<1>11. QED
  BY <1>2, <1>3, <1>4, <1>5, <1>6, <1>7, <1>8, <1>9, <1>10 DEF Next

\* total.staked is the sum of all stakes, for every number of users, although
\* every handler only ever adds or subtracts its own amount.
THEOREM StakedIsSumHolds == Spec => []StakedIsSum
<1>1. Init => StakedIsSum
  <2> SUFFICES ASSUME Init PROVE StakedIsSum
    OBVIOUS
  <2>1. N \in Nat
    BY NAssumption
  <2>2. \A i \in 1..N : [u \in Users |-> account[u].staked][i] = 0
    BY DEF Init, NewAccount, Users
  <2>3. total.staked = 0
    BY DEF Init
  <2>4. QED
    BY <2>1, <2>2, <2>3, ZerosSumToZero DEF StakedIsSum
<1>2. TypeInv /\ TypeInv' /\ StakedIsSum /\ [Next]_vars => StakedIsSum'
  BY StepOnStakes, StakesUnchanged, StakeChange DEF StakesStay, StakeChangesBy
<1>3. Spec => []TypeInv
  BY InitType, TypeStep, PTL DEF Spec
<1>4. QED
  BY <1>1, <1>2, <1>3, PTL DEF Spec

-----------------------------------------------------------------------------
(* Stakes are backed.                                                      *)

\* Paying out stake, and a reward within the budget, leaves the pool with what
\* the other stakes need: in a single-sided pool the budget is what the balance
\* exceeds the stakes by.
LEMMA PayOutKeepsBacking ==
  ASSUME NEW pool \in [Tokens -> Nat], NEW wallets, NEW u, NEW to,
         NEW lp \in Nat, NEW reward \in Nat, total.staked \in Nat,
         pool[LPToken] >= total.staked,
         reward <= Budget(pool[RewardToken]),
         PayOut(pool, wallets, u, lp, to, reward)
  PROVE  held'[LPToken] >= total.staked + (-lp)
<1> DEFINE less == Debit(pool, LPToken, lp)
<1>1. less[LPToken] = pool[LPToken] - lp
  BY TokensOfPool DEF Debit
<1>2. held' = Debit(less, RewardToken, reward) /\ lp <= pool[LPToken]
  BY DEF PayOut
<1>3. less \in [Tokens -> Nat]
  BY <1>2, CreditType, TokensOfPool
<1> HIDE DEF less
<1>4. CASE SingleSided
  <2>1. held'[LPToken] = less[LPToken] - reward
    BY <1>2, <1>3, <1>4, TokensOfPool DEF Debit, SingleSided
  <2>2. reward <= pool[LPToken] - total.staked
    BY <1>4 DEF Budget, SingleSided
  <2>3. pool[LPToken] \in Nat
    BY TokensOfPool
  <2>4. QED
    BY <2>1, <2>2, <2>3, <1>1
<1>5. CASE ~SingleSided
  <2>1. held'[LPToken] = less[LPToken]
    BY <1>2, <1>3, <1>5, TokensOfPool DEF Debit, SingleSided
  <2>2. pool[LPToken] \in Nat
    BY TokensOfPool
  <2>3. QED
    BY <2>1, <2>2, <1>1
<1>6. QED
  BY <1>4, <1>5

LEMMA CreditOfLP ==
  ASSUME NEW pool \in [Tokens -> Nat], NEW amount \in Nat
  PROVE  Credit(pool, LPToken, amount)[LPToken] = pool[LPToken] + amount
BY TokensOfPool DEF Credit

LEMMA BackingStep ==
  ASSUME TypeInv, StakesAreBacked, [Next]_vars
  PROVE  StakesAreBacked'
<1> USE PoolAssumption
<1> SUFFICES ASSUME LPToken \notin drainable'
             PROVE  held'[LPToken] >= total'.staked
  BY DEF StakesAreBacked
<1>1. /\ PoolTypeOK /\ held \in [Tokens -> Nat] /\ wallet \in [Users -> Nat]
      /\ abroad \in [Successors \cup Predecessors -> [Users -> Nat]]
      /\ total.staked \in Nat /\ held[LPToken] \in Nat /\ held[RewardToken] \in Nat
      /\ \A u \in Users : account[u].staked \in Nat
  BY RecordFields, TokensOfPool DEF TypeInv, PoolTypeOK
<1>2. ASSUME drainable' = drainable
      PROVE  held[LPToken] >= total.staked
  BY <1>2 DEF StakesAreBacked
<1>3. ASSUME NEW u \in Users, NEW amount \in Amounts,
             Deposit(u, amount) \/ DepositBySend(u, amount)
      PROVE  held'[LPToken] >= total'.staked
  <2>1. amount \in Nat /\ Credit(held, LPToken, amount)[RewardToken] \in Nat
    BY <1>1, CreditType, TokensOfPool
  <2>2. total'.staked = total.staked + amount
    BY <1>1, <1>3, <2>1, CommitDepositStakes
       DEF Deposit, DepositBySend, StakeChangesBy
  <2>3. held' = Credit(held, LPToken, amount) /\ drainable' = drainable
    BY <1>3 DEF Deposit, DepositBySend, SendLP, CommitDeposit
  <2>4. QED
    BY <1>1, <1>2, <2>1, <2>2, <2>3, CreditOfLP
<1>4. ASSUME NEW u \in Users, NEW amount \in Amounts, Withdraw(u, amount)
      PROVE  held'[LPToken] >= total'.staked
  <2> DEFINE h == held[RewardToken]
             left == AccountAfter(u, h, -amount)
             claims == left.staked = 0 /\ Earned(u, h) > 0 /\ left.bonding = 0
             reward == IF claims THEN Earned(u, h) ELSE 0
  <2>1. Readable(u, h) /\ drainable' = drainable /\ amount \in Nat
    BY <1>4 DEF Withdraw
  <2>2. Earned(u, h) \in Nat /\ Earned(u, h) <= Budget(h) /\ Budget(h) \in Nat
    BY <1>1, <2>1, ReadingTypes
  <2>3. reward \in Nat /\ reward <= Budget(h)
    BY <2>2
  <2>4. PayOut(held, wallet, u, amount, u, reward)
    BY <1>4 DEF Withdraw
  <2>5. held'[LPToken] >= total.staked + (-amount)
    <3> HIDE DEF reward
    <3>1. QED
      BY <1>1, <1>2, <2>1, <2>3, <2>4, PayOutKeepsBacking
  <2>6. total'.staked = total.staked + (-amount)
    BY <1>4, <2>1, WithdrawStakes DEF StakeChangesBy
  <2>7. QED
    BY <2>5, <2>6
<1>5. ASSUME NEW u \in Users, NEW to \in Users, Claim(u, to)
      PROVE  held'[LPToken] >= total'.staked
  <2> DEFINE h == held[RewardToken]
  <2>1. Readable(u, h) /\ drainable' = drainable
    BY <1>5 DEF Claim
  <2>2. Earned(u, h) \in Nat /\ Earned(u, h) <= Budget(h)
    BY <1>1, <2>1, ReadingTypes
  <2>3. PayOut(held, wallet, u, 0, to, Earned(u, h))
    BY <1>5 DEF Claim
  <2>4. held'[LPToken] >= total.staked + (-0)
    BY <1>1, <1>2, <2>1, <2>2, <2>3, PayOutKeepsBacking
  <2>5. total'.staked = total.staked + 0
    BY <1>5, ClaimStakes DEF StakeChangesBy
  <2>6. QED
    BY <1>1, <2>4, <2>5
<1>6. ASSUME NEW u \in Users, NEW pool \in [Tokens -> Nat], NEW wallets,
             pool[LPToken] >= held[LPToken], ForceExitFrom(u, pool, wallets)
      PROVE  held'[LPToken] >= total'.staked
  <2> DEFINE h == pool[RewardToken]
  <2>1. Readable(u, h) /\ drainable' = drainable /\ h \in Nat /\ pool[LPToken] \in Nat
    BY <1>6, TokensOfPool DEF ForceExitFrom
  <2>2. Earned(u, h) \in Nat /\ Earned(u, h) <= Budget(h)
    BY <1>1, <2>1, ReadingTypes
  <2>3. PayOut(pool, wallets, u, account[u].staked, u, Earned(u, h))
    BY <1>6 DEF ForceExitFrom
  <2>4. pool[LPToken] >= total.staked
    BY <1>1, <1>2, <1>6, <2>1
  <2>5. held'[LPToken] >= total.staked + (-account[u].staked)
    BY <1>1, <2>2, <2>3, <2>4, PayOutKeepsBacking
  <2>6. total'.staked = total.staked + (-account[u].staked)
    BY <1>6, ForceExitFromStakes DEF StakeChangesBy
  <2>7. QED
    BY <2>5, <2>6
<1>7. ASSUME NEW u \in Users, ForceExit(u)
      PROVE  held'[LPToken] >= total'.staked
  BY <1>1, <1>6, <1>7 DEF ForceExit
<1>8. ASSUME NEW u \in Users, NEW amount \in Amounts, ForceExitBySend(u, amount)
      PROVE  held'[LPToken] >= total'.staked
  <2>1. /\ Credit(held, LPToken, amount) \in [Tokens -> Nat]
        /\ Credit(held, LPToken, amount)[LPToken] >= held[LPToken]
    <3>1. amount \in Nat
      OBVIOUS
    <3>2. Credit(held, LPToken, amount)[LPToken] = held[LPToken] + amount
      BY <1>1, <3>1, CreditOfLP
    <3>3. Credit(held, LPToken, amount) \in [Tokens -> Nat]
      BY <1>1, <3>1, CreditType, TokensOfPool
    <3>4. held[LPToken] \in Nat
      BY <1>1, TokensOfPool
    <3>5. QED
      BY <3>1, <3>2, <3>3, <3>4
  <2>2. QED
    BY <1>6, <1>8, <2>1 DEF ForceExitBySend
<1>9. ASSUME NEW c \in Successors, NEW u \in Users, ExportState(c, u)
      PROVE  held'[LPToken] >= total'.staked
  <2>1. held' = Debit(held, LPToken, account[u].staked) /\ drainable' = drainable
    BY <1>9 DEF ExportState
  <2>2. held'[LPToken] = held[LPToken] - account[u].staked
    BY <1>1, <2>1, TokensOfPool DEF Debit
  <2>3. total'.staked = total.staked + (-account[u].staked)
    BY <1>9, ExportStateStakes DEF StakeChangesBy
  <2>4. QED
    BY <1>1, <1>2, <2>1, <2>2, <2>3
<1>10. ASSUME NEW c \in Predecessors, NEW u \in Users, ReceiveMigration(c, u)
       PROVE  held'[LPToken] >= total'.staked
  <2> DEFINE amount == abroad[c][u]
  <2>1. amount \in Nat
    BY <1>1
  <2>2. Credit(held, LPToken, amount)[RewardToken] \in Nat
    BY <1>1, <2>1, CreditType, TokensOfPool
  <2>3. total'.staked = total.staked + amount
    BY <1>10, <2>1, <2>2, CommitDepositStakes DEF ReceiveMigration, StakeChangesBy
  <2>4. held' = Credit(held, LPToken, amount) /\ drainable' = drainable
    BY <1>10 DEF ReceiveMigration, CommitDeposit
  <2>5. QED
    BY <1>1, <1>2, <2>1, <2>3, <2>4, CreditOfLP
<1>11. ASSUME NEW amount \in Vestings, Vest(amount)
       PROVE  held'[LPToken] >= total'.staked
  <2>1. /\ held' = Credit(held, RewardToken, amount) /\ total' = total
        /\ drainable' = drainable
    BY <1>11 DEF Vest, poolVars
  <2>2. held'[LPToken] = held[LPToken] \/ held'[LPToken] = held[LPToken] + amount
    BY <1>1, <2>1, TokensOfPool DEF Credit
  <2>3. amount \in Nat /\ held[LPToken] >= total.staked
    BY <1>2, <2>1
  <2>4. QED
    BY <1>1, <2>1, <2>2, <2>3
<1>12. ASSUME NEW t \in Tokens, Sweep(t)
       PROVE  held'[LPToken] >= total'.staked
  <2>1. /\ t \in drainable /\ held' = [held EXCEPT ![t] = 0] /\ total' = total
        /\ drainable' = drainable
    BY <1>12 DEF Sweep, poolVars
  <2>2. t # LPToken
    BY <2>1
  <2>3. QED
    BY <1>1, <1>2, <2>1, <2>2, TokensOfPool
<1>13. ASSUME \/ Tick \/ AdminRunsGovernance \/ BeginEpoch \/ Configure \/ Close
              \/ SetMigration \/ \E t \in Tokens : Drain(t)
              \/ \E u \in Users : StakerCreatesPoll(u)
              \/ \E u \in Users, p \in PollIds, c \in Choices :
                   StakerVotes(u, p, c) \/ StakerChangesVote(u, p, c)
              \/ \E u \in Users, p \in PollIds : StakerUnvotes(u, p)
              \/ UNCHANGED vars
       PROVE  held'[LPToken] >= total'.staked
  <2>1. UNCHANGED <<held, total>> /\ drainable \subseteq drainable'
    BY <1>13 DEF Tick, AdminRunsGovernance, BeginEpoch, Configure, Close,
       SetMigration, Drain, StakerCreatesPoll, StakerVotes, StakerChangesVote,
       StakerUnvotes, vars, notGov, poolVars, tokenVars
  <2>2. LPToken \notin drainable
    BY <2>1
  <2>3. QED
    BY <2>1, <2>2 DEF StakesAreBacked
<1>14. QED
  BY <1>3, <1>4, <1>5, <1>7, <1>8, <1>9, <1>10, <1>11, <1>12, <1>13 DEF Next

\* Until the LP token is drained the pool holds at least what its users have
\* staked, single-sided or not, whatever rewards were paid.
THEOREM StakesAreBackedHolds == Spec => []StakesAreBacked
<1>1. Init => StakesAreBacked
  BY TokensOfPool DEF Init, StakesAreBacked
<1>2. TypeInv /\ StakesAreBacked /\ [Next]_vars => StakesAreBacked'
  BY BackingStep
<1>3. Spec => []TypeInv
  BY InitType, TypeStep, PTL DEF Spec
<1>4. QED
  BY <1>1, <1>2, <1>3, PTL DEF Spec

-----------------------------------------------------------------------------
(* The promise is kept.                                                    *)

LEMMA StakeOfChanges ==
  ASSUME TypeInv, TypeInv', NEW u \in Users, NEW d \in Int, StakeChangesBy(u, d)
  PROVE  /\ StakeOf' = [StakeOf EXCEPT ![u] = @ + d]
         /\ StakeOf[u] = account[u].staked /\ StakeOf[u] \in Nat
<1>1. \A v \in Users : account'[v].staked = IF v = u THEN account[v].staked + d
                                                     ELSE account[v].staked
  BY DEF StakeChangesBy
<1>2. StakeOf' = [v \in Users |-> IF v = u THEN account[v].staked + d ELSE account[v].staked]
  BY <1>1 DEF StakeOf
<1>3. [StakeOf EXCEPT ![u] = @ + d]
        = [v \in Users |-> IF v = u THEN account[v].staked + d ELSE account[v].staked]
  BY DEF StakeOf
<1>4. StakeOf[u] = account[u].staked /\ StakeOf[u] \in Nat
  BY RecordFields DEF StakeOf, TypeInv, PoolTypeOK
<1>5. QED
  BY <1>2, <1>3, <1>4

\* A payment of stake and reward leaves what the pool could give, less the reward.
LEMMA PayOutFunds ==
  ASSUME NEW pool \in [Tokens -> Nat], NEW wallets, NEW u, NEW to, NEW lp \in Nat,
         NEW reward \in Nat, total.staked \in Nat, total'.staked = total.staked + (-lp),
         PayOut(pool, wallets, u, lp, to, reward)
  PROVE  Funds' = Budget(pool[RewardToken]) - reward
<1> DEFINE less == Debit(pool, LPToken, lp)
<1>1. lp <= pool[LPToken] /\ held' = Debit(less, RewardToken, reward)
  BY DEF PayOut
<1>2. less \in [Tokens -> Nat] /\ pool[RewardToken] \in Nat /\ pool[LPToken] \in Nat
  BY <1>1, CreditType, TokensOfPool
<1>3. less[RewardToken] = IF SingleSided THEN pool[RewardToken] - lp ELSE pool[RewardToken]
  BY TokensOfPool DEF Debit, SingleSided
<1> HIDE DEF less
<1>4. held'[RewardToken] = less[RewardToken] - reward
  BY <1>1, <1>2, TokensOfPool DEF Debit
<1>5. Funds' = IF SingleSided THEN held'[RewardToken] - total'.staked ELSE held'[RewardToken]
  BY DEF Funds, Budget
<1>6. CASE SingleSided
  <2>1. Budget(pool[RewardToken]) = pool[RewardToken] - total.staked
    BY <1>6 DEF Budget
  <2>2. Funds' = (pool[RewardToken] - lp) - reward - (total.staked + (-lp))
    BY <1>3, <1>4, <1>5, <1>6
  <2>3. QED
    BY <1>2, <2>1, <2>2
<1>7. CASE ~SingleSided
  BY <1>3, <1>4, <1>5, <1>7 DEF Budget
<1>8. QED
  BY <1>6, <1>7

\* LP tokens that come in with the stake they are recorded as, or leave with it, are not funds.
LEMMA StakeIsNoFunds ==
  ASSUME TypeInv, NEW d \in Int, total'.staked = total.staked + d,
         held' = [held EXCEPT ![LPToken] = @ + d]
  PROVE  Funds' = Funds
<1>1. /\ total.staked \in Nat /\ held \in [Tokens -> Nat] /\ held[RewardToken] \in Nat
      /\ held[LPToken] \in Nat
  BY TokensOfPool, RecordFields DEF TypeInv, PoolTypeOK
<1>2. held'[RewardToken] = IF SingleSided THEN held[RewardToken] + d ELSE held[RewardToken]
  BY <1>1, TokensOfPool DEF SingleSided
<1>3. Funds' = IF SingleSided THEN held'[RewardToken] - total'.staked ELSE held'[RewardToken]
  BY DEF Funds, Budget
<1>4. Funds = IF SingleSided THEN held[RewardToken] - total.staked ELSE held[RewardToken]
  BY DEF Funds, Budget
<1>5. QED
  BY <1>1, <1>2, <1>3, <1>4

LEMMA FundsType ==
  ASSUME TypeInv
  PROVE  Funds \in Int /\ \A x : Spendable(x) = Promise!Spendable(x)
<1>1. total.staked \in Nat /\ held[RewardToken] \in Nat
  BY TokensOfPool, RecordFields DEF TypeInv, PoolTypeOK
<1>2. QED
  BY <1>1 DEF Funds, Budget, Spendable, Promise!Spendable

LEMMA DepositIsStake ==
  ASSUME TypeInv, TypeInv', NEW u \in Users, NEW amount \in Amounts,
         Deposit(u, amount) \/ DepositBySend(u, amount)
  PROVE  Promise!Stake(u)
<1>1. amount \in Nat /\ amount \in Int /\ wallet \in [Users -> Nat] /\ held \in [Tokens -> Nat]
      /\ held[RewardToken] \in Nat
  BY PoolAssumption, TokensOfPool DEF TypeInv, PoolTypeOK
<1>2. /\ ~IsClosed /\ amount <= wallet[u] /\ wallet' = [wallet EXCEPT ![u] = @ - amount]
      /\ held' = Credit(held, LPToken, amount) /\ abroad' = abroad
      /\ paid' = paid /\ closed' = closed
  BY DEF Deposit, DepositBySend, SendLP, CommitDeposit
<1>3. StakeChangesBy(u, amount)
  <2>1. Credit(held, LPToken, amount) \in [Tokens -> Nat]
    BY <1>1, CreditType, TokensOfPool
  <2>2. Credit(held, LPToken, amount)[RewardToken] \in Nat
    BY <2>1, TokensOfPool
  <2>3. QED
    BY <1>1, <2>2, CommitDepositStakes DEF Deposit, DepositBySend
<1>4. StakeOf' = [StakeOf EXCEPT ![u] = @ + amount]
  BY <1>1, <1>3, StakeOfChanges
<1>5. Funds' = Funds
  BY <1>1, <1>2, <1>3, StakeIsNoFunds DEF StakeChangesBy, Credit
<1>6. amount \in 0..wallet[u]
  BY <1>1, <1>2
<1>7. QED
  BY <1>2, <1>4, <1>5, <1>6 DEF Promise!Stake, IsClosed

\* Withdrawals, claims and exits release stake and a reward within the funds.
LEMMA PaymentIsRelease ==
  ASSUME TypeInv, TypeInv', NEW u \in Users, NEW to \in Users,
         NEW lp \in Nat, NEW reward \in Nat, lp <= account[u].staked, reward <= Funds,
         NEW d \in Int, d + lp = 0, StakeChangesBy(u, d), PayOut(held, wallet, u, lp, to, reward),
         paid' = [paid EXCEPT ![u] = @ + reward], UNCHANGED <<abroad, closed>>
  PROVE  Promise!Release(u, to)
<1>1. d = -lp /\ held \in [Tokens -> Nat] /\ total.staked \in Nat
  BY RecordFields DEF TypeInv, PoolTypeOK
<1>2. /\ StakeOf' = [StakeOf EXCEPT ![u] = @ + d]
      /\ StakeOf[u] = account[u].staked /\ StakeOf[u] \in Nat
  BY <1>1, StakeOfChanges
<1>3. StakeOf[u] + d = StakeOf[u] - lp /\ lp \in 0..StakeOf[u]
  BY <1>2
<1>4. Funds' = Funds - reward
  BY <1>1, PayOutFunds DEF StakeChangesBy, Funds
<1>5. reward \in 0..Funds
  BY FundsType
<1>6. wallet' = LET w == [wallet EXCEPT ![u] = @ + lp]
                IN [w EXCEPT ![to] = @ + Promise!Spendable(reward)]
  BY FundsType DEF PayOut
<1>7. QED
  BY <1>2, <1>3, <1>4, <1>5, <1>6 DEF Promise!Release, IsClosed

\* What is sent to a closed pool becomes funds; the sender is released.
LEMMA ExitBySendIsSendToSealed ==
  ASSUME TypeInv, TypeInv', NEW u \in Users, NEW amount \in Amounts, ForceExitBySend(u, amount)
  PROVE  Promise!SendToSealed(u)
<1> DEFINE pool == Credit(held, LPToken, amount)
           wallets == [wallet EXCEPT ![u] = @ - amount]
           staked == account[u].staked
           h == pool[RewardToken]
           reward == Earned(u, h)
<1>1. /\ PoolTypeOK /\ amount \in Nat /\ wallet \in [Users -> Nat] /\ wallet[u] \in Nat
      /\ held \in [Tokens -> Nat] /\ staked \in Nat /\ total.staked \in Nat
      /\ account \in [Users -> AccountRecord]
  BY PoolAssumption, RecordFields DEF TypeInv, PoolTypeOK
<1>2. pool \in [Tokens -> Nat] /\ h \in Nat
  <2>1. pool \in [Tokens -> Nat]
    BY <1>1, CreditType, TokensOfPool
  <2>2. QED
    BY <2>1, TokensOfPool
<1>3. /\ amount <= wallet[u] /\ IsClosed /\ Readable(u, h)
      /\ PayOut(pool, wallets, u, staked, u, reward)
      /\ paid' = [paid EXCEPT ![u] = @ + reward] /\ UNCHANGED <<abroad, closed>>
  BY DEF ForceExitBySend, ForceExitFrom
<1>4. reward \in Nat /\ reward <= Budget(h)
  BY <1>1, <1>2, <1>3, ReadingTypes
<1>5. StakeChangesBy(u, -staked)
  BY <1>2, ForceExitFromStakes DEF ForceExitBySend
<1>6. Budget(h) = Funds + Spendable(amount)
  <2>1. h = IF SingleSided THEN held[RewardToken] + amount ELSE held[RewardToken]
    BY <1>1, TokensOfPool DEF Credit, SingleSided
  <2>2. held[RewardToken] \in Nat
    BY <1>1, TokensOfPool
  <2>3. QED
    BY <1>1, <2>1, <2>2 DEF Funds, Budget, Spendable
<1>7. Funds' = Funds + Spendable(amount) - reward
  <2>1. Funds' = Budget(h) - reward
    BY <1>1, <1>2, <1>3, <1>4, <1>5, PayOutFunds DEF StakeChangesBy
  <2>2. Spendable(amount) \in Nat
    BY <1>1 DEF Spendable
  <2> HIDE DEF h, reward, pool
  <2>3. QED
    BY <1>4, <1>6, <2>1, <2>2, FundsType
<1>8. StakeOf' = [StakeOf EXCEPT ![u] = 0] /\ StakeOf[u] = staked
  <2>1. -staked \in Int
    BY <1>1
  <2>2. StakeOf' = [StakeOf EXCEPT ![u] = @ + (-staked)] /\ StakeOf[u] = staked
    BY <1>5, <2>1, StakeOfChanges
  <2>3. StakeOf[u] + (-staked) = 0
    BY <1>1, <2>2
  <2>4. QED
    BY <2>2, <2>3
<1>9. wallet' = [wallet EXCEPT ![u] = @ - amount + StakeOf[u] + Promise!Spendable(reward)]
  <2>1. wallet' = LET w == [wallets EXCEPT ![u] = @ + staked]
                  IN [w EXCEPT ![u] = @ + Spendable(reward)]
    BY <1>3 DEF PayOut
  <2>2. wallets[u] = wallet[u] - amount
    BY <1>1
  <2>3. wallet' = [wallet EXCEPT ![u] = wallet[u] - amount + staked + Spendable(reward)]
    BY <1>1, <2>1, <2>2
  <2>4. QED
    BY <1>8, <2>3, FundsType
<1>10. /\ amount \in 0..wallet[u]
       /\ reward \in 0..(Funds + Promise!Spendable(wallet[u]))
       /\ reward <= Funds + Promise!Spendable(amount)
  <2>1. Spendable(amount) <= Spendable(wallet[u])
    BY <1>1, <1>3 DEF Spendable
  <2>2. Spendable(amount) \in Nat /\ Spendable(wallet[u]) \in Nat
    BY <1>1 DEF Spendable
  <2>3. reward <= Funds + Spendable(wallet[u])
    BY <1>4, <1>6, <2>1, <2>2, FundsType
  <2>4. QED
    BY <1>1, <1>3, <1>4, <1>6, <2>2, <2>3, FundsType
<1> HIDE DEF reward
<1>11. Funds' = Funds + Promise!Spendable(amount) - reward
  BY <1>7, FundsType
<1>12. QED
  BY <1>3, <1>8, <1>9, <1>10, <1>11 DEF Promise!SendToSealed, IsClosed

LEMMA ExportIsMoveOut ==
  ASSUME TypeInv, TypeInv', NEW c \in Successors, NEW u \in Users, ExportState(c, u)
  PROVE  Promise!MoveOut(u, c)
<1> DEFINE staked == account[u].staked
<1>1. staked \in Nat /\ held \in [Tokens -> Nat] /\ held[LPToken] \in Nat
  BY RecordFields, TokensOfPool DEF TypeInv, PoolTypeOK
<1>2. /\ held' = Debit(held, LPToken, staked) /\ abroad' = [abroad EXCEPT ![c][u] = @ + staked]
      /\ wallet' = wallet /\ paid' = paid /\ closed' = closed
  BY DEF ExportState, history
<1>3. StakeChangesBy(u, -staked) /\ -staked \in Int
  BY <1>1, ExportStateStakes
<1>4. StakeOf' = [StakeOf EXCEPT ![u] = 0] /\ StakeOf[u] = staked
  <2>1. StakeOf' = [StakeOf EXCEPT ![u] = @ + (-staked)] /\ StakeOf[u] = staked
    BY <1>3, StakeOfChanges
  <2>2. StakeOf[u] + (-staked) = 0
    BY <1>1, <2>1
  <2>3. QED
    BY <2>1, <2>2
<1>5. held' = [held EXCEPT ![LPToken] = @ + (-staked)]
  <2>1. held[LPToken] + (-staked) = held[LPToken] - staked
    BY <1>1
  <2>2. QED
    BY <1>2, <2>1 DEF Debit
<1>6. Funds' = Funds
  BY <1>3, <1>5, StakeIsNoFunds DEF StakeChangesBy
<1>7. QED
  BY <1>2, <1>4, <1>6 DEF Promise!MoveOut, IsClosed

LEMMA ReceiveIsMoveIn ==
  ASSUME TypeInv, TypeInv', NEW c \in Predecessors, NEW u \in Users, ReceiveMigration(c, u)
  PROVE  Promise!MoveIn(u, c)
<1> DEFINE staked == abroad[c][u]
<1>1. staked \in Nat /\ held \in [Tokens -> Nat]
  BY DEF TypeInv, PoolTypeOK
<1>2. /\ held' = Credit(held, LPToken, staked) /\ abroad' = [abroad EXCEPT ![c][u] = 0]
      /\ wallet' = wallet /\ paid' = paid /\ closed' = closed
      /\ CommitDeposit(u, staked, Credit(held, LPToken, staked)[RewardToken])
  BY DEF ReceiveMigration, CommitDeposit
<1>3. Credit(held, LPToken, staked)[RewardToken] \in Nat
  <2>1. Credit(held, LPToken, staked) \in [Tokens -> Nat]
    BY <1>1, CreditType, TokensOfPool
  <2>2. QED
    BY <2>1, TokensOfPool
<1>4. StakeChangesBy(u, staked) /\ staked \in Int
  BY <1>1, <1>2, <1>3, CommitDepositStakes
<1>5. StakeOf' = [StakeOf EXCEPT ![u] = @ + staked]
  BY <1>4, StakeOfChanges
<1>6. Funds' = Funds
  BY <1>2, <1>4, StakeIsNoFunds DEF StakeChangesBy, Credit
<1>7. QED
  BY <1>2, <1>5, <1>6 DEF Promise!MoveIn, IsClosed

\* Tokens are taken only from a pool that was closed, which stays closed.
DrainedWhenClosed == drainable # {} => IsClosed

LEMMA DrainedWhenClosedStep ==
  ASSUME TypeInv, DrainedWhenClosed, [Next]_vars
  PROVE  DrainedWhenClosed'
<1>1. now \in Nat
  BY DEF TypeInv, PoolTypeOK, GovTypeOK
<1>2. /\ closed' = closed \/ closed' = now
      /\ drainable' = drainable \/ IsClosed
  BY DEF Next, vars, Tick, Vest, Deposit, DepositBySend, CommitDeposit, Withdraw, Claim,
     ForceExit, ForceExitBySend, ForceExitFrom, ExportState, ReceiveMigration,
     StakerCreatesPoll, StakerVotes, StakerChangesVote, StakerUnvotes, AdminRunsGovernance,
     BeginEpoch, Configure, Close, SetMigration, Drain, Sweep, notGov, poolVars
<1>3. QED
  BY <1>1, <1>2 DEF DrainedWhenClosed, IsClosed, Never

LEMMA StepKeepsPromise ==
  ASSUME TypeInv, TypeInv', DrainedWhenClosed, [Next]_vars
  PROVE  Promise!PromiseNext \/ UNCHANGED Promise!promise
<1> USE PoolAssumption
<1>1. /\ PoolTypeOK /\ held \in [Tokens -> Nat] /\ total.staked \in Nat /\ now \in Nat
      /\ held[LPToken] \in Nat /\ held[RewardToken] \in Nat
      /\ \A u \in Users : account[u].staked \in Nat
  BY TokensOfPool, RecordFields DEF TypeInv, PoolTypeOK, GovTypeOK
<1>2. ASSUME NEW u \in Users, NEW amount \in Amounts,
             Deposit(u, amount) \/ DepositBySend(u, amount)
      PROVE  Promise!PromiseNext
  BY <1>2, DepositIsStake DEF Promise!PromiseNext
<1>3. ASSUME NEW u \in Users, NEW amount \in Amounts, Withdraw(u, amount)
      PROVE  Promise!PromiseNext
  <2> DEFINE h == held[RewardToken]
             left == AccountAfter(u, h, -amount)
             claims == left.staked = 0 /\ Earned(u, h) > 0 /\ left.bonding = 0
             reward == IF claims THEN Earned(u, h) ELSE 0
  <2>1. /\ Readable(u, h) /\ amount \in Nat /\ amount <= account[u].staked
        /\ PayOut(held, wallet, u, amount, u, reward)
        /\ paid' = [paid EXCEPT ![u] = @ + reward] /\ UNCHANGED <<abroad, closed>>
    BY <1>3 DEF Withdraw
  <2>2. Earned(u, h) \in Nat /\ Earned(u, h) <= Funds /\ Funds \in Nat
    BY <1>1, <2>1, ReadingTypes DEF Funds
  <2>3. reward \in Nat /\ reward <= Funds
    BY <2>2
  <2>4. StakeChangesBy(u, -amount) /\ -amount \in Int /\ -amount + amount = 0
    BY <1>3, <2>1, WithdrawStakes
  <2> HIDE DEF reward
  <2>5. Promise!Release(u, u)
    BY <2>1, <2>3, <2>4, PaymentIsRelease
  <2>6. QED
    BY <2>5 DEF Promise!PromiseNext
<1>4. ASSUME NEW u \in Users, NEW to \in Users, Claim(u, to)
      PROVE  Promise!PromiseNext
  <2> DEFINE reward == Earned(u, held[RewardToken])
  <2>1. /\ Readable(u, held[RewardToken]) /\ PayOut(held, wallet, u, 0, to, reward)
        /\ paid' = [paid EXCEPT ![u] = @ + reward] /\ UNCHANGED <<abroad, closed>>
    BY <1>4 DEF Claim
  <2>2. reward \in Nat /\ reward <= Funds
    BY <1>1, <2>1, ReadingTypes DEF Funds
  <2>3. StakeChangesBy(u, 0) /\ 0 \in Nat /\ 0 \in Int /\ 0 + 0 = 0 /\ 0 <= account[u].staked
    BY <1>1, <1>4, ClaimStakes
  <2> HIDE DEF reward
  <2>4. Promise!Release(u, to)
    BY <2>1, <2>2, <2>3, PaymentIsRelease
  <2>5. QED
    BY <2>4 DEF Promise!PromiseNext
<1>5. ASSUME NEW u \in Users, ForceExit(u)
      PROVE  Promise!PromiseNext
  <2> DEFINE reward == Earned(u, held[RewardToken])
  <2>1. /\ Readable(u, held[RewardToken])
        /\ PayOut(held, wallet, u, account[u].staked, u, reward)
        /\ paid' = [paid EXCEPT ![u] = @ + reward] /\ UNCHANGED <<abroad, closed>>
    BY <1>5 DEF ForceExit, ForceExitFrom
  <2>2. reward \in Nat /\ reward <= Funds /\ account[u].staked <= account[u].staked
    BY <1>1, <2>1, ReadingTypes DEF Funds
  <2>3. /\ StakeChangesBy(u, -account[u].staked)
        /\ -account[u].staked \in Int /\ -account[u].staked + account[u].staked = 0
    BY <1>1, <1>5, ForceExitFromStakes DEF ForceExit
  <2> HIDE DEF reward
  <2>4. Promise!Release(u, u)
    BY <1>1, <2>1, <2>2, <2>3, PaymentIsRelease
  <2>5. QED
    BY <2>4 DEF Promise!PromiseNext
<1>6. ASSUME NEW u \in Users, NEW amount \in Amounts, ForceExitBySend(u, amount)
      PROVE  Promise!PromiseNext
  BY <1>6, ExitBySendIsSendToSealed DEF Promise!PromiseNext
<1>7. ASSUME NEW c \in Successors, NEW u \in Users, ExportState(c, u)
      PROVE  Promise!PromiseNext
  BY <1>7, ExportIsMoveOut DEF Promise!PromiseNext
<1>8. ASSUME NEW c \in Predecessors, NEW u \in Users, ReceiveMigration(c, u)
      PROVE  Promise!PromiseNext
  BY <1>8, ReceiveIsMoveIn DEF Promise!PromiseNext
<1>9. ASSUME NEW amount \in Vestings, Vest(amount)
      PROVE  Promise!PromiseNext \/ UNCHANGED Promise!promise
  <2>1. /\ held' = Credit(held, RewardToken, amount) /\ amount \in Nat
        /\ UNCHANGED <<wallet, account, total, abroad, paid, closed>>
    BY <1>9 DEF Vest, poolVars
  <2>2. held'[RewardToken] = held[RewardToken] + amount
    BY <1>1, <2>1, TokensOfPool DEF Credit
  <2>3. Funds' = Funds + amount /\ Funds \in Int
    BY <1>1, <2>1, <2>2 DEF Funds, Budget
  <2>4. StakeOf' = StakeOf /\ IsClosed' = IsClosed
    BY <2>1 DEF StakeOf, IsClosed
  <2>5. CASE amount = 0
    BY <2>1, <2>3, <2>4, <2>5 DEF Promise!promise
  <2>6. CASE amount > 0
    BY <2>1, <2>3, <2>4, <2>6 DEF Promise!Fund, Promise!PromiseNext
  <2>7. QED
    BY <2>1, <2>5, <2>6
<1>10. ASSUME Close
       PROVE  Promise!PromiseNext
  <2>1. closed' = now /\ UNCHANGED <<wallet, account, held, total, abroad, paid>>
    BY <1>10 DEF Close, tokenVars, history
  <2>2. IsClosed'
    BY <1>1, <2>1 DEF IsClosed, Never
  <2>3. StakeOf' = StakeOf /\ Funds' = Funds
    BY <2>1 DEF StakeOf, Funds, Budget
  <2>4. QED
    BY <2>1, <2>2, <2>3 DEF Promise!Seal, Promise!PromiseNext
<1>11. ASSUME NEW t \in Tokens, Sweep(t)
       PROVE  Promise!PromiseNext \/ UNCHANGED Promise!promise
  <2>1. /\ t \in drainable /\ held[t] > 0 /\ held' = [held EXCEPT ![t] = 0]
        /\ UNCHANGED <<wallet, account, total, abroad, paid, closed>>
    BY <1>11 DEF Sweep, poolVars, history
  <2>2. IsClosed /\ IsClosed' /\ StakeOf' = StakeOf
    BY <2>1 DEF DrainedWhenClosed, StakeOf, IsClosed
  <2>3. CASE t = RewardToken
    <3>1. Funds' < Funds
      <4>1. held'[RewardToken] = 0 /\ held[RewardToken] > 0
        BY <1>1, <2>1, <2>3
      <4>2. QED
        BY <1>1, <2>1, <4>1 DEF Funds, Budget
    <3>2. QED
      BY <2>1, <2>2, <3>1 DEF Promise!Confiscate, Promise!PromiseNext
  <2>4. CASE t # RewardToken
    <3>1. Funds' = Funds
      BY <1>1, <2>1, <2>4, TokensOfPool DEF Funds, Budget
    <3>2. QED
      BY <2>1, <2>2, <3>1 DEF Promise!promise
  <2>5. QED
    BY <2>3, <2>4
<1>12. ASSUME \/ Tick \/ AdminRunsGovernance \/ BeginEpoch \/ Configure
              \/ SetMigration \/ \E t \in Tokens : Drain(t)
              \/ \E u \in Users : StakerCreatesPoll(u)
              \/ \E u \in Users, p \in PollIds, c \in Choices :
                   StakerVotes(u, p, c) \/ StakerChangesVote(u, p, c)
              \/ \E u \in Users, p \in PollIds : StakerUnvotes(u, p)
              \/ UNCHANGED vars
       PROVE  UNCHANGED Promise!promise
  <2>1. UNCHANGED <<wallet, account, held, total, abroad, paid, closed>>
    BY <1>12 DEF Tick, AdminRunsGovernance, BeginEpoch, Configure, SetMigration, Drain,
       StakerCreatesPoll, StakerVotes, StakerChangesVote, StakerUnvotes, vars, notGov,
       poolVars, tokenVars, history
  <2>2. StakeOf' = StakeOf /\ Funds' = Funds /\ IsClosed' = IsClosed
    BY <2>1 DEF StakeOf, Funds, Budget, IsClosed
  <2>3. QED
    BY <2>1, <2>2 DEF Promise!promise
<1>13. QED
  BY <1>2, <1>3, <1>4, <1>5, <1>6, <1>7, <1>8, <1>9, <1>10, <1>11, <1>12 DEF Next

\* The pool implements StakingPromise: every transaction is one of its steps or does not
\* concern it, whatever the timing of deposits, claims, closing, migration and draining.
THEOREM PromiseKeptHolds == Spec => PromiseKept
<1>1. Init => Promise!PromiseInit
  <2> SUFFICES ASSUME Init PROVE Promise!PromiseInit
    OBVIOUS
  <2>1. wallet \in [Users -> Nat] /\ abroad \in [Successors \cup Predecessors -> [Users -> Nat]]
    BY PoolAssumption DEF Init
  <2>2. StakeOf = [u \in Users |-> 0]
    BY DEF Init, StakeOf, NewAccount
  <2>3. Funds = 0
    BY TokensOfPool DEF Init, Funds, Budget
  <2>4. ~IsClosed /\ paid = [u \in Users |-> 0]
    BY DEF Init, IsClosed
  <2>5. QED
    BY <2>1, <2>2, <2>3, <2>4 DEF Promise!PromiseInit
<1>2. Init => DrainedWhenClosed
  BY DEF Init, DrainedWhenClosed
<1>3. TypeInv /\ TypeInv' /\ DrainedWhenClosed /\ [Next]_vars
        => DrainedWhenClosed' /\ [Promise!PromiseNext]_Promise!promise
  BY DrainedWhenClosedStep, StepKeepsPromise
<1>4. Spec => []TypeInv
  BY InitType, TypeStep, PTL DEF Spec
<1>5. QED
  BY <1>1, <1>2, <1>3, <1>4, PTL DEF Spec, PromiseKept, Promise!PromiseSpec

-----------------------------------------------------------------------------
(* What stakers are entitled to: shares of what has accumulated, of        *)
(* rewards that were vested, from accounts that can be read, once their    *)
(* bonding is served; and votes that weigh what they have staked.          *)

\* The share of an account `a` now is at most one.
Fraction(a) ==
  /\ a.updated <= now
  /\ a.entryVol + Accumulate(a.volume, now - a.updated, a.staked) <= TotalVolume

\* An epoch begins with the pool's volume, which never shrinks, so that an account
\* may enter at the clock's volume as well.
SharesInv == clock.volume <= TotalVolume /\ \A u \in Users : Fraction(account[u])

PaidInv == SumsTo(paid, N, total.distributed)

RewardsInv ==
  drainable = {} /\ ~SingleSided =>
    /\ Unlocked(held[RewardToken]) = vested
    /\ \A u \in Users : account[u].entryRew <= vested

PoolInv == SharesInv /\ PaidInv /\ RewardsInv

-----------------------------------------------------------------------------
(* What a transaction stores.                                              *)

LEMMA OwnStake ==
  ASSUME TypeInv, StakedIsSum, NEW u \in Users
  PROVE  account[u].staked <= total.staked
<1> DEFINE f == [v \in Users |-> account[v].staked]
<1>1. /\ f \in [1..N -> Int] /\ total.staked \in Nat /\ N \in Nat /\ u \in 1..N
      /\ f[u] = account[u].staked
  BY RecordFields, NAssumption DEF TypeInv, PoolTypeOK, Users
<1>2. SumsTo(f, N, total.staked)
  BY DEF StakedIsSum
<1> HIDE DEF f
<1>3. QED
  BY <1>1, <1>2, EntryIsPartOfSum

\* A reset account enters with what has accumulated so far, and one that goes on keeps
\* its volume: neither adds to its share.
LEMMA StoredFractions ==
  ASSUME TypeInv, SharesInv, NEW u \in Users, NEW h \in Nat, Readable(u, h)
  PROVE  /\ \A s \in Nat : Fraction(Reset(s, h)) /\ Reset(s, h).entryRew = Unlocked(h)
         /\ \A d \in Int : account[u].staked + d \in Nat =>
              /\ Fraction(AccountAfter(u, h, d))
              /\ AccountAfter(u, h, d).entryRew \in {account[u].entryRew, Unlocked(h)}
<1>1. /\ TotalVolume \in Nat /\ UserVolume(u) \in Nat /\ now \in Nat
      /\ account[u] \in AccountRecord /\ clock.volume \in Nat
  BY ReadingTypes, RecordFields DEF TypeInv, PoolTypeOK, GovTypeOK
<1>2. \A s \in Int : (now - now) * s = 0
  BY <1>1
<1>3. ASSUME NEW s \in Nat
      PROVE  Fraction(Reset(s, h)) /\ Reset(s, h).entryRew = Unlocked(h)
  <2>1. /\ Reset(s, h).updated = now /\ Reset(s, h).volume = 0 /\ Reset(s, h).staked = s
        /\ Reset(s, h).entryVol \in {clock.volume, TotalVolume}
        /\ Reset(s, h).entryRew = Unlocked(h)
    BY DEF Reset
  <2>2. QED
    BY <1>1, <1>2, <2>1 DEF Fraction, Accumulate, SharesInv
<1>4. ASSUME NEW d \in Int, account[u].staked + d \in Nat
      PROVE  /\ Fraction(AccountAfter(u, h, d))
             /\ AccountAfter(u, h, d).entryRew \in {account[u].entryRew, Unlocked(h)}
  <2> DEFINE a == CommitElapsed(u, h)
  <2>1. a \in AccountRecord /\ a.staked = account[u].staked
    BY StoredAccountTypes DEF TypeInv
  <2>2. a.updated = now /\ a.entryVol + a.volume <= TotalVolume
        /\ a.entryRew \in {account[u].entryRew, Unlocked(h)}
    <3>1. CASE account[u].staked = 0
      BY <1>1, <3>1 DEF CommitElapsed, Reset, SharesInv
    <3>2. CASE account[u].staked # 0
      <4>1. /\ a.updated = now /\ a.volume = UserVolume(u)
            /\ a.entryVol = account[u].entryVol /\ a.entryRew = account[u].entryRew
        BY <1>1, <3>2 DEF CommitElapsed, AccountRecord
      <4>2. account[u].entryVol + UserVolume(u) <= TotalVolume
        BY DEF SharesInv, Fraction, UserVolume, Elapsed
      <4>3. QED
        BY <4>1, <4>2
    <3>3. QED
      BY <3>1, <3>2
  <2> HIDE DEF a
  <2>3. AccountAfter(u, h, d) = [a EXCEPT !.staked = @ + d]
    BY DEF AccountAfter, a
  <2>4. /\ AccountAfter(u, h, d).updated = now
        /\ AccountAfter(u, h, d).volume = a.volume
        /\ AccountAfter(u, h, d).entryVol = a.entryVol
        /\ AccountAfter(u, h, d).entryRew = a.entryRew
        /\ AccountAfter(u, h, d).staked = account[u].staked + d
    BY <2>1, <2>2, <2>3 DEF AccountRecord
  <2>5. a.entryVol \in Nat /\ a.volume \in Nat
    BY <2>1, RecordFields
  <2>6. Accumulate(a.volume, now - now, account[u].staked + d) = a.volume
    BY <1>1, <1>2, <1>4, <2>5 DEF Accumulate
  <2>7. QED
    BY <1>1, <2>2, <2>4, <2>6 DEF Fraction
<1>5. QED
  BY <1>3, <1>4

\* Committing the totals leaves the volume as it reads.
LEMMA CommittedVolume ==
  ASSUME TypeInv, TypeInv', now' = now, total'.volume = TotalVolume, total'.updated = now
  PROVE  TotalVolume' = TotalVolume
<1>1. now \in Nat /\ total'.staked \in Nat /\ TotalVolume \in Nat
  BY TotalVolumeType, RecordFields DEF TypeInv, PoolTypeOK, GovTypeOK
<1>2. (now - now) * total'.staked = 0
  BY <1>1
<1>3. QED
  BY <1>1, <1>2 DEF TotalVolume, Accumulate

LEMMA StoredTotals ==
  ASSUME TypeInv
  PROVE  /\ \A d \in Int : /\ TotalAfter(d).volume = TotalVolume
                           /\ TotalAfter(d).updated = now
                           /\ TotalAfter(d).distributed = total.distributed
         /\ \A d \in Int, r \in Nat :
              /\ AfterClaim(TotalAfter(d), r).volume = TotalVolume
              /\ AfterClaim(TotalAfter(d), r).updated = now
              /\ AfterClaim(TotalAfter(d), r).distributed = total.distributed + r
         /\ \A r \in Nat :
              /\ AfterClaim(total, r).volume = total.volume
              /\ AfterClaim(total, r).updated = total.updated
              /\ AfterClaim(total, r).staked = total.staked
              /\ AfterClaim(total, r).distributed = total.distributed + r
BY DEF TypeInv, PoolTypeOK, TotalRecord, TotalAfter, AfterClaim

\* What a payment takes from the pool's budget, where stakes are another token.
LEMMA PayOutOfBudget ==
  ASSUME NEW pool \in [Tokens -> Nat], NEW wallets, NEW u, NEW lp, NEW to, NEW r,
         PayOut(pool, wallets, u, lp, to, r), ~SingleSided
  PROVE  held'[RewardToken] = pool[RewardToken] - r
BY TokensOfPool DEF PayOut, Debit, SingleSided

LEMMA CreditOfOther ==
  ASSUME NEW pool \in [Tokens -> Nat], NEW amount, ~SingleSided
  PROVE  Credit(pool, LPToken, amount)[RewardToken] = pool[RewardToken]
BY TokensOfPool DEF Credit, SingleSided

-----------------------------------------------------------------------------
(* The transactions of a user: u, who is paid r, is stored as it reads     *)
(* with the reward balance h.                                              *)

Transacts(u, h, r) ==
  /\ UNCHANGED <<now, clock, drainable, vested>>
  /\ SingleSided \/ h = held[RewardToken]
  /\ Fraction(account'[u])
  /\ account'[u].entryRew \in {account[u].entryRew, Unlocked(h)}
  /\ \A v \in Users : v # u => account'[v] = account[v]
  /\ TotalVolume' = TotalVolume
  /\ total'.distributed = total.distributed + r
  /\ paid' = [paid EXCEPT ![u] = @ + r]
  /\ SingleSided \/ held'[RewardToken] = held[RewardToken] - r

LEMMA TransactsKeepsPoolInv ==
  ASSUME TypeInv, TypeInv', PoolInv, NEW u \in Users, NEW h \in Nat, NEW r \in Nat,
         Transacts(u, h, r)
  PROVE  PoolInv'
<1>1. SharesInv'
  <2>1. ASSUME NEW a PROVE Fraction(a) => Fraction(a)'
    BY DEF Fraction, Transacts
  <2>2. ASSUME NEW v \in Users PROVE Fraction(account'[v])
    BY DEF Transacts, PoolInv, SharesInv
  <2>3. \A v \in Users : Fraction(account[v])'
    BY <2>2 DEF Fraction, Transacts
  <2>4. QED
    BY <2>3 DEF Transacts, PoolInv, SharesInv
<1>2. PaidInv'
  <2>1. /\ paid \in [1..N -> Nat] /\ paid' \in [1..N -> Nat]
        /\ total.distributed \in Nat /\ N \in Nat /\ u \in 1..N
    BY RecordFields, NAssumption DEF TypeInv, PoolTypeOK, Users
  <2>2. paid'[u] = paid[u] + r /\ \A i \in 1..N : i # u => paid'[i] = paid[i]
    BY <2>1 DEF Transacts
  <2>3. r \in Int /\ SumsTo(paid, N, total.distributed)
    BY DEF PoolInv, PaidInv
  <2>4. SumsTo(paid', N, total.distributed + r)
    BY <2>1, <2>2, <2>3, ChangeOfOneEntry
  <2>5. QED
    BY <2>4 DEF PaidInv, Transacts
<1>3. RewardsInv'
  <2> SUFFICES ASSUME drainable = {}, ~SingleSided
               PROVE  /\ Unlocked(held[RewardToken])' = vested
                      /\ \A v \in Users : account'[v].entryRew <= vested
    BY DEF RewardsInv, Transacts, SingleSided
  <2>1. /\ Unlocked(held[RewardToken]) = vested /\ h = held[RewardToken]
        /\ \A v \in Users : account[v].entryRew <= vested
    BY DEF PoolInv, RewardsInv, Transacts
  <2>2. /\ held[RewardToken] \in Nat /\ total.distributed \in Nat /\ vested \in Nat
    BY TokensOfPool, RecordFields DEF TypeInv, PoolTypeOK
  <2>3. /\ held'[RewardToken] = held[RewardToken] - r
        /\ total'.distributed = total.distributed + r
    BY DEF Transacts
  <2>4. Unlocked(held[RewardToken])' = vested
    BY <2>1, <2>2, <2>3 DEF Unlocked, Budget, SingleSided
  <2>5. ASSUME NEW v \in Users PROVE account'[v].entryRew <= vested
    BY <2>1, <2>2 DEF Transacts
  <2>6. QED
    BY <2>4, <2>5
<1>4. QED
  BY <1>1, <1>2, <1>3 DEF PoolInv

LEMMA CommitDepositTransacts ==
  ASSUME TypeInv, TypeInv', PoolInv, NEW u \in Users, NEW amount \in Nat, NEW h \in Nat,
         CommitDeposit(u, amount, h), SingleSided \/ h = held[RewardToken],
         SingleSided \/ held'[RewardToken] = held[RewardToken]
  PROVE  Transacts(u, h, 0)
<1>1. /\ Readable(u, h) /\ UNCHANGED <<now, clock, drainable, vested, paid>>
      /\ account' = [account EXCEPT ![u] = AccountAfter(u, h, amount)]
      /\ total' = TotalAfter(amount)
  BY DEF CommitDeposit
<1>2. /\ account \in [Users -> AccountRecord] /\ account[u].staked \in Nat
      /\ held[RewardToken] \in Nat /\ total.distributed \in Nat /\ paid \in [Users -> Nat]
  BY TokensOfPool, RecordFields DEF TypeInv, PoolTypeOK
<1>3. account[u].staked + amount \in Nat /\ amount \in Int
  BY <1>2
<1>4. /\ Fraction(AccountAfter(u, h, amount))
      /\ AccountAfter(u, h, amount).entryRew \in {account[u].entryRew, Unlocked(h)}
  BY <1>1, <1>3, StoredFractions DEF PoolInv
<1>5. /\ account'[u] = AccountAfter(u, h, amount)
      /\ \A v \in Users : v # u => account'[v] = account[v]
  BY <1>1, <1>2
<1>6. /\ total'.volume = TotalVolume /\ total'.updated = now
      /\ total'.distributed = total.distributed
  BY <1>1, <1>3, StoredTotals
<1>7. TotalVolume' = TotalVolume
  BY <1>1, <1>6, CommittedVolume
<1>8. /\ total'.distributed = total.distributed + 0
      /\ paid' = [paid EXCEPT ![u] = @ + 0]
      /\ SingleSided \/ held'[RewardToken] = held[RewardToken] - 0
  BY <1>1, <1>2, <1>6
<1>9. QED
  BY <1>1, <1>4, <1>5, <1>7, <1>8 DEF Transacts

LEMMA WithdrawTransacts ==
  ASSUME TypeInv, TypeInv', PoolInv, NEW u \in Users, NEW amount \in Nat,
         Withdraw(u, amount)
  PROVE  \E r \in Nat : Transacts(u, held[RewardToken], r)
<1> DEFINE h == held[RewardToken]
           left == AccountAfter(u, h, -amount)
           claims == left.staked = 0 /\ Earned(u, h) > 0 /\ left.bonding = 0
           reward == IF claims THEN Earned(u, h) ELSE 0
<1>1. /\ Readable(u, h) /\ UNCHANGED <<now, clock, drainable, vested>>
      /\ account' = [account EXCEPT ![u] = IF left.staked = 0 THEN Reset(0, h) ELSE left]
      /\ total' = AfterClaim(TotalAfter(-amount), reward)
      /\ PayOut(held, wallet, u, amount, u, reward)
      /\ paid' = [paid EXCEPT ![u] = @ + reward]
      /\ amount <= account[u].staked
  BY DEF Withdraw
<1>2. /\ account \in [Users -> AccountRecord] /\ account[u].staked \in Nat
      /\ held \in [Tokens -> Nat] /\ h \in Nat
  BY TokensOfPool, RecordFields DEF TypeInv, PoolTypeOK
<1>3. reward \in Nat
  BY <1>1, <1>2, ReadingTypes DEF TypeInv
<1> HIDE DEF reward
<1>4. account[u].staked + (-amount) \in Nat /\ -amount \in Int
  BY <1>1, <1>2
<1>5. /\ Fraction(account'[u]) /\ account'[u].entryRew \in {account[u].entryRew, Unlocked(h)}
      /\ \A v \in Users : v # u => account'[v] = account[v]
  <2>1. /\ Fraction(left) /\ left.entryRew \in {account[u].entryRew, Unlocked(h)}
        /\ Fraction(Reset(0, h)) /\ Reset(0, h).entryRew = Unlocked(h)
    BY <1>1, <1>2, <1>4, StoredFractions DEF PoolInv
  <2>2. account'[u] = Reset(0, h) \/ account'[u] = left
    BY <1>1, <1>2
  <2> HIDE DEF left
  <2>3. QED
    BY <1>1, <1>2, <2>1, <2>2
<1>6. /\ total'.volume = TotalVolume /\ total'.updated = now
      /\ total'.distributed = total.distributed + reward
  BY <1>1, <1>3, <1>4, StoredTotals
<1>7. TotalVolume' = TotalVolume
  BY <1>1, <1>6, CommittedVolume
<1>8. SingleSided \/ held'[RewardToken] = held[RewardToken] - reward
  BY <1>1, <1>2, PayOutOfBudget
<1>9. Transacts(u, h, reward)
  BY <1>1, <1>5, <1>6, <1>7, <1>8 DEF Transacts
<1>10. QED
  BY <1>3, <1>9

LEMMA ClaimTransacts ==
  ASSUME TypeInv, TypeInv', PoolInv, NEW u \in Users, NEW to \in Users, Claim(u, to)
  PROVE  \E r \in Nat : Transacts(u, held[RewardToken], r)
<1> DEFINE h == held[RewardToken]
           reward == Earned(u, h)
<1>1. /\ Readable(u, h) /\ UNCHANGED <<now, clock, drainable, vested>>
      /\ account' = [account EXCEPT ![u] = Reset(account[u].staked, h)]
      /\ total' = AfterClaim(total, reward)
      /\ PayOut(held, wallet, u, 0, to, reward)
      /\ paid' = [paid EXCEPT ![u] = @ + reward]
  BY DEF Claim
<1>2. /\ account \in [Users -> AccountRecord] /\ account[u].staked \in Nat
      /\ held \in [Tokens -> Nat] /\ h \in Nat
  BY TokensOfPool, RecordFields DEF TypeInv, PoolTypeOK
<1>3. reward \in Nat
  BY <1>1, <1>2, ReadingTypes DEF TypeInv
<1> HIDE DEF reward
<1>4. /\ Fraction(account'[u]) /\ account'[u].entryRew \in {account[u].entryRew, Unlocked(h)}
      /\ \A v \in Users : v # u => account'[v] = account[v]
  <2>1. Fraction(Reset(account[u].staked, h))
        /\ Reset(account[u].staked, h).entryRew = Unlocked(h)
    BY <1>1, <1>2, StoredFractions DEF PoolInv
  <2>2. QED
    BY <1>1, <1>2, <2>1
<1>5. /\ total'.volume = total.volume /\ total'.updated = total.updated
      /\ total'.staked = total.staked /\ total'.distributed = total.distributed + reward
  BY <1>1, <1>3, StoredTotals
<1>6. TotalVolume' = TotalVolume
  BY <1>1, <1>5 DEF TotalVolume
<1>7. SingleSided \/ held'[RewardToken] = held[RewardToken] - reward
  BY <1>1, <1>2, PayOutOfBudget
<1>8. Transacts(u, h, reward)
  BY <1>1, <1>4, <1>5, <1>6, <1>7 DEF Transacts
<1>9. QED
  BY <1>3, <1>8

LEMMA ForceExitFromTransacts ==
  ASSUME TypeInv, TypeInv', PoolInv, NEW u \in Users, NEW pool \in [Tokens -> Nat],
         NEW wallets, ForceExitFrom(u, pool, wallets),
         SingleSided \/ pool[RewardToken] = held[RewardToken]
  PROVE  \E r \in Nat : Transacts(u, pool[RewardToken], r)
<1> DEFINE h == pool[RewardToken]
           staked == account[u].staked
           reward == Earned(u, h)
<1>1. /\ Readable(u, h) /\ UNCHANGED <<now, clock, drainable, vested>>
      /\ account' = [account EXCEPT ![u] = IF reward > 0 THEN Reset(0, h)
                                           ELSE AccountAfter(u, h, -staked)]
      /\ total' = AfterClaim(TotalAfter(-staked), reward)
      /\ PayOut(pool, wallets, u, staked, u, reward)
      /\ paid' = [paid EXCEPT ![u] = @ + reward]
  BY DEF ForceExitFrom
<1>2. /\ account \in [Users -> AccountRecord] /\ staked \in Nat /\ h \in Nat
  BY TokensOfPool, RecordFields DEF TypeInv, PoolTypeOK
<1>3. reward \in Nat
  BY <1>1, <1>2, ReadingTypes DEF TypeInv
<1> HIDE DEF reward
<1>4. staked + (-staked) \in Nat /\ -staked \in Int
  BY <1>2
<1>5. /\ Fraction(account'[u]) /\ account'[u].entryRew \in {account[u].entryRew, Unlocked(h)}
      /\ \A v \in Users : v # u => account'[v] = account[v]
  <2> DEFINE left == AccountAfter(u, h, -staked)
  <2>1. /\ Fraction(left) /\ left.entryRew \in {account[u].entryRew, Unlocked(h)}
        /\ Fraction(Reset(0, h)) /\ Reset(0, h).entryRew = Unlocked(h)
    BY <1>1, <1>2, <1>4, StoredFractions DEF PoolInv
  <2>2. account'[u] = Reset(0, h) \/ account'[u] = left
    BY <1>1, <1>2
  <2> HIDE DEF left
  <2>3. QED
    BY <1>1, <1>2, <2>1, <2>2
<1>6. /\ total'.volume = TotalVolume /\ total'.updated = now
      /\ total'.distributed = total.distributed + reward
  BY <1>1, <1>3, <1>4, StoredTotals
<1>7. TotalVolume' = TotalVolume
  BY <1>1, <1>6, CommittedVolume
<1>8. SingleSided \/ held'[RewardToken] = held[RewardToken] - reward
  BY <1>1, PayOutOfBudget
<1>9. Transacts(u, h, reward)
  BY <1>1, <1>5, <1>6, <1>7, <1>8 DEF Transacts
<1>10. QED
  BY <1>3, <1>9

LEMMA ExportStateTransacts ==
  ASSUME TypeInv, TypeInv', PoolInv, NEW c \in Successors, NEW u \in Users,
         ExportState(c, u)
  PROVE  Transacts(u, held[RewardToken], 0)
<1> DEFINE h == held[RewardToken]
           staked == account[u].staked
<1>1. /\ Readable(u, h) /\ UNCHANGED <<now, clock, drainable, vested, paid>>
      /\ account' = [account EXCEPT ![u] = AccountAfter(u, h, -staked)]
      /\ total' = TotalAfter(-staked) /\ held' = Debit(held, LPToken, staked)
  BY DEF ExportState, history
<1>2. /\ account \in [Users -> AccountRecord] /\ staked \in Nat
      /\ held \in [Tokens -> Nat] /\ h \in Nat
      /\ total.distributed \in Nat /\ paid \in [Users -> Nat]
  BY TokensOfPool, RecordFields DEF TypeInv, PoolTypeOK
<1>3. staked + (-staked) \in Nat /\ -staked \in Int
  BY <1>2
<1>4. /\ Fraction(AccountAfter(u, h, -staked))
      /\ AccountAfter(u, h, -staked).entryRew \in {account[u].entryRew, Unlocked(h)}
  BY <1>1, <1>2, <1>3, StoredFractions DEF PoolInv
<1>5. /\ account'[u] = AccountAfter(u, h, -staked)
      /\ \A v \in Users : v # u => account'[v] = account[v]
  BY <1>1, <1>2
<1>6. /\ total'.volume = TotalVolume /\ total'.updated = now
      /\ total'.distributed = total.distributed
  BY <1>1, <1>3, StoredTotals
<1>7. TotalVolume' = TotalVolume
  BY <1>1, <1>6, CommittedVolume
<1>8. SingleSided \/ held'[RewardToken] = held[RewardToken]
  BY <1>1, <1>2, TokensOfPool DEF Debit, SingleSided
<1>9. /\ total'.distributed = total.distributed + 0
      /\ paid' = [paid EXCEPT ![u] = @ + 0]
      /\ SingleSided \/ held'[RewardToken] = held[RewardToken] - 0
  BY <1>1, <1>2, <1>6, <1>8
<1>10. QED
  BY <1>1, <1>4, <1>5, <1>7, <1>9 DEF Transacts

-----------------------------------------------------------------------------
(* The other steps.                                                        *)

\* Time adds to the pool's volume what is staked, and to a user's no more than that.
LEMMA TickKeepsPoolInv ==
  ASSUME TypeInv, StakedIsSum, PoolInv, Tick PROVE PoolInv'
<1>1. /\ now' = now + 1 /\ now \in Nat
      /\ UNCHANGED <<clock, total, account, drainable, held, vested, paid>>
  BY DEF Tick, poolVars, tokenVars, history, TypeInv, PoolTypeOK, GovTypeOK
<1>2. /\ total.volume \in Nat /\ total.updated \in Nat /\ total.staked \in Nat
      /\ clock.volume \in Nat /\ TotalVolume \in Nat /\ total.updated <= now
  BY TotalVolumeType, RecordFields DEF TypeInv, PoolTypeOK
<1>3. \A e, x \in Int : ((now + 1) - e) * x = (now - e) * x + x
  BY <1>1
<1>4. TotalVolume' = TotalVolume + total.staked
  <2>1. (now - total.updated) * total.staked \in Nat
    BY <1>1, <1>2, NatProduct
  <2>2. ((now + 1) - total.updated) * total.staked
          = (now - total.updated) * total.staked + total.staked
    BY <1>2, <1>3
  <2>3. QED
    BY <1>1, <1>2, <2>1, <2>2 DEF TotalVolume, Accumulate
<1>5. ASSUME NEW u \in Users PROVE Fraction(account[u])'
  <2> DEFINE a == account[u]
             grown == (now - a.updated) * a.staked
  <2>1. /\ a.staked \in Nat /\ a.volume \in Nat /\ a.updated \in Nat /\ a.entryVol \in Nat
    BY RecordFields DEF TypeInv, PoolTypeOK
  <2>2. Fraction(a)
    BY DEF PoolInv, SharesInv
  <2>3. a.staked <= total.staked
    BY OwnStake
  <2>4. grown \in Nat
    BY <1>1, <2>1, <2>2, NatProduct DEF Fraction
  <2>5. ((now + 1) - a.updated) * a.staked = grown + a.staked
    BY <1>3, <2>1
  <2>6. a.entryVol + (a.volume + grown) <= TotalVolume /\ a.updated <= now
    BY <2>2 DEF Fraction, Accumulate
  <2> HIDE DEF grown
  <2>7. a.entryVol + (a.volume + (grown + a.staked)) <= TotalVolume + total.staked
    BY <1>2, <2>1, <2>3, <2>4, <2>6
  <2>8. a.updated <= now + 1
    BY <1>1, <2>1, <2>6
  <2>9. QED
    BY <1>1, <1>4, <2>5, <2>7, <2>8 DEF Fraction, Accumulate
<1>6. SharesInv'
  BY <1>1, <1>2, <1>4, <1>5 DEF PoolInv, SharesInv
<1>7. PaidInv' /\ RewardsInv'
  BY <1>1 DEF PoolInv, PaidInv, RewardsInv, Unlocked, Budget, SingleSided
<1>8. QED
  BY <1>6, <1>7 DEF PoolInv

LEMMA VestKeepsPoolInv ==
  ASSUME TypeInv, PoolInv, NEW amount \in Vestings, Vest(amount) PROVE PoolInv'
<1>1. /\ UNCHANGED <<now, clock, total, account, drainable, paid>>
      /\ held' = Credit(held, RewardToken, amount) /\ vested' = vested + amount
  BY DEF Vest, poolVars
<1>2. /\ held \in [Tokens -> Nat] /\ held[RewardToken] \in Nat /\ vested \in Nat
      /\ total.distributed \in Nat /\ amount \in Nat
      /\ \A u \in Users : account[u].entryRew \in Nat
  BY TokensOfPool, RecordFields, PoolAssumption DEF TypeInv, PoolTypeOK
<1>3. held'[RewardToken] = held[RewardToken] + amount
  BY <1>1, <1>2, TokensOfPool DEF Credit
<1>4. SharesInv' /\ PaidInv'
  BY <1>1 DEF PoolInv, SharesInv, PaidInv, Fraction, TotalVolume
<1>5. RewardsInv'
  <2> SUFFICES ASSUME drainable = {}, ~SingleSided
               PROVE  /\ Unlocked(held[RewardToken])' = vested'
                      /\ \A u \in Users : account[u].entryRew <= vested'
    BY <1>1 DEF RewardsInv, SingleSided
  <2>1. /\ total.distributed + held[RewardToken] = vested
        /\ \A u \in Users : account[u].entryRew <= vested
    BY DEF PoolInv, RewardsInv, Unlocked, Budget
  <2>2. Unlocked(held[RewardToken])' = vested'
    BY <1>1, <1>2, <1>3, <2>1 DEF Unlocked, Budget, SingleSided
  <2>3. QED
    BY <1>1, <1>2, <2>1, <2>2
<1>6. QED
  BY <1>4, <1>5 DEF PoolInv

\* What stays as it is for the accounts: at most an epoch begins, a token is drained,
\* and what was drained is taken.
LEMMA OthersKeepPoolInv ==
  ASSUME TypeInv, PoolInv,
         UNCHANGED <<now, total, account, vested, paid>>,
         clock'.volume \in {clock.volume, TotalVolume},
         drainable \subseteq drainable',
         drainable = {} => held' = held
  PROVE  PoolInv'
<1>1. TotalVolume \in Nat
  BY TotalVolumeType DEF TypeInv
<1>2. TotalVolume' = TotalVolume
  BY DEF TotalVolume
<1>3. SharesInv'
  BY <1>1, <1>2 DEF PoolInv, SharesInv, Fraction
<1>4. PaidInv'
  BY DEF PoolInv, PaidInv
<1>5. RewardsInv'
  BY DEF PoolInv, RewardsInv, Unlocked, Budget, SingleSided
<1>6. QED
  BY <1>3, <1>4, <1>5 DEF PoolInv

LEMMA StepKeepsPoolInv ==
  ASSUME TypeInv, TypeInv', StakedIsSum, PoolInv, [Next]_vars
  PROVE  PoolInv'
<1> USE PoolAssumption
<1>1. /\ held \in [Tokens -> Nat] /\ held[RewardToken] \in Nat
      /\ abroad \in [Successors \cup Predecessors -> [Users -> Nat]]
  BY TokensOfPool DEF TypeInv, PoolTypeOK
<1>2. ASSUME NEW amount \in Nat
      PROVE  /\ Credit(held, LPToken, amount) \in [Tokens -> Nat]
             /\ Credit(held, LPToken, amount)[RewardToken] \in Nat
             /\ SingleSided \/ Credit(held, LPToken, amount)[RewardToken] = held[RewardToken]
  <2>1. Credit(held, LPToken, amount) \in [Tokens -> Nat]
    BY <1>1, CreditType, TokensOfPool
  <2>2. Credit(held, LPToken, amount)[RewardToken] \in Nat
    BY <2>1, TokensOfPool
  <2>3. CASE ~SingleSided
    BY <1>1, <2>1, <2>2, <2>3, CreditOfOther
  <2>4. CASE SingleSided
    BY <2>1, <2>2, <2>4
  <2>5. QED
    BY <2>3, <2>4
<1>3. ASSUME NEW u \in Users, NEW amount \in Amounts,
             Deposit(u, amount) \/ DepositBySend(u, amount)
      PROVE  PoolInv'
  <2>1. amount \in Nat /\ held' = Credit(held, LPToken, amount)
    BY <1>3 DEF Deposit, DepositBySend, SendLP
  <2>2. PICK h \in Nat : CommitDeposit(u, amount, h) /\ (SingleSided \/ h = held[RewardToken])
    BY <1>1, <1>2, <1>3, <2>1 DEF Deposit, DepositBySend
  <2>3. Transacts(u, h, 0)
    BY <1>2, <2>1, <2>2, CommitDepositTransacts
  <2>4. QED
    BY <2>3, TransactsKeepsPoolInv
<1>4. ASSUME NEW u \in Users, NEW amount \in Amounts, Withdraw(u, amount)
      PROVE  PoolInv'
  BY <1>1, <1>4, WithdrawTransacts, TransactsKeepsPoolInv
<1>5. ASSUME NEW u \in Users, NEW to \in Users, Claim(u, to) PROVE PoolInv'
  BY <1>1, <1>5, ClaimTransacts, TransactsKeepsPoolInv
<1>6. ASSUME NEW u \in Users, ForceExit(u) PROVE PoolInv'
  BY <1>1, <1>6, ForceExitFromTransacts, TransactsKeepsPoolInv DEF ForceExit
<1>7. ASSUME NEW u \in Users, NEW amount \in Amounts, ForceExitBySend(u, amount)
      PROVE  PoolInv'
  <2>1. amount \in Nat
    OBVIOUS
  <2>2. ForceExitFrom(u, Credit(held, LPToken, amount), [wallet EXCEPT ![u] = @ - amount])
    BY <1>7 DEF ForceExitBySend
  <2>3. PICK r \in Nat : Transacts(u, Credit(held, LPToken, amount)[RewardToken], r)
    BY <1>2, <2>1, <2>2, ForceExitFromTransacts
  <2>4. QED
    BY <1>2, <2>1, <2>3, TransactsKeepsPoolInv
<1>8. ASSUME NEW c \in Successors, NEW u \in Users, ExportState(c, u) PROVE PoolInv'
  BY <1>1, <1>8, ExportStateTransacts, TransactsKeepsPoolInv
<1>9. ASSUME NEW c \in Predecessors, NEW u \in Users, ReceiveMigration(c, u) PROVE PoolInv'
  <2> DEFINE amount == abroad[c][u]
             h == Credit(held, LPToken, amount)[RewardToken]
  <2>1. amount \in Nat
    BY <1>1
  <2>2. held' = Credit(held, LPToken, amount) /\ CommitDeposit(u, amount, h)
    BY <1>9 DEF ReceiveMigration
  <2>3. h \in Nat /\ (SingleSided \/ h = held[RewardToken])
    BY <1>2, <2>1
  <2>4. Transacts(u, h, 0)
    BY <2>1, <2>2, <2>3, CommitDepositTransacts
  <2>5. QED
    BY <2>3, <2>4, TransactsKeepsPoolInv
<1>10. CASE BeginEpoch
  <2>1. /\ UNCHANGED <<now, total, account, vested, paid, drainable, held>>
        /\ clock'.volume = TotalVolume
    BY <1>10 DEF BeginEpoch, tokenVars, history
  <2>2. QED
    BY <2>1, OthersKeepPoolInv
<1>11. ASSUME NEW t \in Tokens, Drain(t) \/ Sweep(t) PROVE PoolInv'
  <2>1. /\ UNCHANGED <<now, total, account, vested, paid, clock>>
        /\ drainable \subseteq drainable' /\ (drainable = {} => held' = held)
    BY <1>11 DEF Drain, Sweep, poolVars, tokenVars, history
  <2>2. QED
    BY <2>1, OthersKeepPoolInv
<1>12. ASSUME \/ AdminRunsGovernance \/ Configure \/ Close \/ SetMigration
              \/ \E u \in Users : StakerCreatesPoll(u)
              \/ \E u \in Users, p \in PollIds, c \in Choices :
                   StakerVotes(u, p, c) \/ StakerChangesVote(u, p, c)
              \/ \E u \in Users, p \in PollIds : StakerUnvotes(u, p)
              \/ UNCHANGED vars
       PROVE  PoolInv'
  <2>1. UNCHANGED <<now, clock, total, account, drainable, held, vested, paid>>
    BY <1>12 DEF AdminRunsGovernance, Configure, Close, SetMigration, StakerCreatesPoll,
       StakerVotes, StakerChangesVote, StakerUnvotes, vars, notGov, poolVars, tokenVars, history
  <2>2. QED
    BY <2>1, OthersKeepPoolInv
<1>13. QED
  BY <1>3, <1>4, <1>5, <1>6, <1>7, <1>8, <1>9, <1>10, <1>11, <1>12,
     TickKeepsPoolInv, VestKeepsPoolInv DEF Next

LEMMA InitPoolInv == Init => PoolInv
<1> SUFFICES ASSUME Init PROVE PoolInv
  OBVIOUS
<1>1. now = 0 /\ vested = 0 /\ held[RewardToken] = 0
  BY TokensOfPool DEF Init, GovInit
<1>2. /\ clock.volume = 0 /\ total.volume = 0 /\ total.updated = 0 /\ total.staked = 0
      /\ total.distributed = 0
  BY DEF Init
<1>3. TotalVolume = 0
  BY <1>1, <1>2 DEF TotalVolume, Accumulate
<1>4. \A u \in Users : Fraction(account[u]) /\ account[u].entryRew = 0
  BY <1>1, <1>3 DEF Init, NewAccount, Fraction, Accumulate
<1>5. SharesInv
  BY <1>2, <1>3, <1>4 DEF SharesInv
<1>6. PaidInv
  <2>1. N \in Nat /\ \A i \in 1..N : paid[i] = 0
    BY NAssumption DEF Init, Users
  <2>2. QED
    BY <1>2, <2>1, ZerosSumToZero DEF PaidInv
<1>7. RewardsInv
  BY <1>1, <1>2, <1>4 DEF RewardsInv, Unlocked, Budget
<1>8. QED
  BY <1>5, <1>6, <1>7 DEF PoolInv

LEMMA PoolInvHolds == Spec => [](TypeInv /\ PoolInv)
<1>1. Spec => []TypeInv
  BY InitType, TypeStep, PTL DEF Spec
<1>2. TypeInv /\ TypeInv' /\ StakedIsSum /\ PoolInv /\ [Next]_vars => PoolInv'
  BY StepKeepsPoolInv
<1>3. QED
  BY <1>1, <1>2, InitPoolInv, StakedIsSumHolds, PTL DEF Spec

-----------------------------------------------------------------------------
\* Nobody's liquidity since entry ever exceeds the pool's, so that every share of the
\* rewards is at most one (account.rs).
THEOREM SharesAreFractionsHolds == Spec => []SharesAreFractions
<1>1. PoolInv => SharesAreFractions
  BY DEF PoolInv, SharesInv, Fraction, SharesAreFractions, UserVolume, Elapsed
<1>2. QED
  BY <1>1, PoolInvHolds, PTL

\* What the pool counts as distributed is what it paid to its users, and without a
\* drain, distributed and budget are what was vested (total.rs).
THEOREM UnlockedIsVestedHolds == Spec => []UnlockedIsVested
<1>1. PoolInv => UnlockedIsVested
  BY DEF PoolInv, PaidInv, RewardsInv, UnlockedIsVested
<1>2. QED
  BY <1>1, PoolInvHolds, PTL

\* In a pool of two tokens that was not drained, every account can always be read: no
\* transaction fails for a user because time seems to have gone back (account.rs).
THEOREM AccountsReadableHolds == Spec => []AccountsReadable
<1>1. TypeInv /\ PoolInv => AccountsReadable
  <2> SUFFICES ASSUME TypeInv, PoolInv, drainable = {}, ~SingleSided, NEW u \in Users
               PROVE  Readable(u, held[RewardToken])
    BY DEF AccountsReadable
  <2>1. /\ account[u] \in AccountRecord /\ now \in Nat
        /\ held[RewardToken] \in Nat /\ TotalVolume \in Nat
    BY TokensOfPool, TotalVolumeType DEF TypeInv, PoolTypeOK, GovTypeOK
  <2>2. Fraction(account[u]) /\ account[u].entryRew <= Unlocked(held[RewardToken])
    BY DEF PoolInv, SharesInv, RewardsInv
  <2>3. account[u].entryVol <= TotalVolume
    <3>1. /\ account[u].entryVol \in Nat /\ account[u].volume \in Nat
          /\ account[u].staked \in Nat /\ now - account[u].updated \in Nat
      BY <2>1, <2>2, RecordFields DEF Fraction
    <3>2. (now - account[u].updated) * account[u].staked \in Nat
      BY <3>1, NatProduct
    <3>3. QED
      BY <2>1, <2>2, <3>1, <3>2 DEF Fraction, Accumulate
  <2>4. TotalReadable(held[RewardToken])
    BY <2>1 DEF TotalReadable, Budget, TypeInv
  <2>5. QED
    BY <2>2, <2>3, <2>4 DEF Readable, Fraction
<1>2. QED
  BY <1>1, PoolInvHolds, PTL

-----------------------------------------------------------------------------
(* Bonding.                                                                *)

\* An account with a stake has its bonding left to serve until bondedUntil; one
\* without, where stakes are not exported, has nothing to claim.
Bonded(a, until) ==
  IF a.staked = 0 THEN a.volume = 0
  ELSE a.updated <= now /\ until <= now + MinusOrZero(a.bonding, now - a.updated)

BondingInv ==
  Successors = {} /\ ~IsClosed => \A u \in Users : Bonded(account[u], bondedUntil[u])

\* What is paid in an open pool was earned, and its bonding is over.
LEMMA PaidOnceBonded ==
  ASSUME TypeInv, BondingInv, Successors = {}, ~IsClosed, NEW u \in Users, NEW h \in Nat,
         Readable(u, h), Earned(u, h) > 0,
         account[u].staked > 0 => BondingLeft(u) = 0
  PROVE  now >= bondedUntil[u]
<1>1. /\ account[u] \in AccountRecord /\ now \in Nat /\ bondedUntil[u] \in Nat
      /\ account[u].staked \in Nat /\ account[u].updated \in Nat /\ TotalVolume \in Nat
      /\ AccumulatedRewards(u, h) \in Nat /\ AccumulatedVolume(u) \in Nat
  BY ReadingTypes, RecordFields
     DEF TypeInv, PoolTypeOK, GovTypeOK, AccumulatedRewards, AccumulatedVolume, Readable
<1>2. Bonded(account[u], bondedUntil[u])
  BY DEF BondingInv
<1>3. CASE account[u].staked = 0
  <2>1. UserVolume(u) = 0
    BY <1>1, <1>2, <1>3 DEF Bonded, UserVolume, Accumulate, Elapsed
  <2>2. AccumulatedRewards(u, h) * UserVolume(u) = 0
    BY <1>1, <2>1
  <2>3. ASSUME AccumulatedVolume(u) # 0 PROVE Earned(u, h) <= 0
    <3>1. 0 \div AccumulatedVolume(u) = 0
      BY <1>1, <2>3
    <3>2. Budget(h) \in Nat
      BY ReadingTypes DEF TypeInv
    <3>3. Earned(u, h) = LeastOf(Budget(h), 0)
      BY <2>2, <2>3, <3>1 DEF Earned
    <3>4. QED
      BY <3>2, <3>3 DEF LeastOf
  <2>4. AccumulatedVolume(u) = 0 => Earned(u, h) = 0
    BY DEF Earned
  <2>5. Earned(u, h) \in Nat
    BY ReadingTypes DEF TypeInv
  <2>6. QED
    BY <2>3, <2>4, <2>5
<1>4. CASE account[u].staked > 0
  <2>1. MinusOrZero(account[u].bonding, now - account[u].updated) = 0
    BY <1>4 DEF BondingLeft, Elapsed
  <2>2. QED
    BY <1>1, <1>2, <1>4, <2>1 DEF Bonded
<1>5. QED
  BY <1>1, <1>3, <1>4

\* An account that was reset, and the bonding recorded for it, fit.
LEMMA ResetIsBonded ==
  ASSUME TypeInv, NEW h, NEW s \in Nat, NEW until, s = 0 \/ until = now + bonding
  PROVE  Bonded(Reset(s, h), until)
<1>1. now \in Nat /\ bonding \in Nat
  BY PoolAssumption DEF TypeInv, PoolTypeOK, GovTypeOK
<1>2. /\ Reset(s, h).staked = s /\ Reset(s, h).volume = 0
      /\ Reset(s, h).updated = now /\ Reset(s, h).bonding = bonding
  BY DEF Reset
<1>3. MinusOrZero(bonding, now - now) = bonding
  BY <1>1 DEF MinusOrZero
<1>4. QED
  BY <1>1, <1>2, <1>3 DEF Bonded

\* An account that goes on with some stake has as much bonding left as before; one that
\* returns has all of it.
LEMMA AccountAfterIsBonded ==
  ASSUME TypeInv, NEW u \in Users, NEW h \in Nat, Readable(u, h), NEW d \in Int,
         account[u].staked + d \in Nat, NEW until \in Nat,
         \/ account[u].staked = 0 /\ until = now + bonding
         \/ /\ account[u].staked > 0 /\ account[u].staked + d > 0
            /\ Bonded(account[u], until)
  PROVE  Bonded(AccountAfter(u, h, d), until)
<1> DEFINE a == CommitElapsed(u, h)
           b == AccountAfter(u, h, d)
<1>1. /\ now \in Nat /\ bonding \in Nat /\ account[u] \in AccountRecord
      /\ account[u].staked \in Nat
  BY PoolAssumption, RecordFields DEF TypeInv, PoolTypeOK, GovTypeOK
<1>2. a \in AccountRecord /\ BondingLeft(u) \in Nat
  BY StoredAccountTypes, ReadingTypes DEF TypeInv
<1>3. a.updated = now
  BY <1>1 DEF CommitElapsed, Reset, AccountRecord
<1>4. /\ b.updated = now /\ b.volume = a.volume /\ b.bonding = a.bonding
      /\ b.staked = account[u].staked + d
  <2> HIDE DEF a
  <2>1. b = [a EXCEPT !.staked = @ + d]
    BY DEF AccountAfter, a
  <2>2. b.staked = account[u].staked + d
    BY StoredAccountTypes DEF TypeInv
  <2>3. QED
    BY <1>2, <1>3, <2>1, <2>2 DEF AccountRecord
<1>5. \A n \in Nat : MinusOrZero(n, now - now) = n
  BY <1>1 DEF MinusOrZero
<1>6. CASE account[u].staked = 0
  <2>1. a.volume = 0 /\ a.bonding = bonding
    BY <1>6 DEF CommitElapsed, Reset
  <2>2. QED
    BY <1>1, <1>4, <1>5, <1>6, <2>1 DEF Bonded
<1>7. CASE account[u].staked > 0
  <2>1. a.bonding = BondingLeft(u)
    BY <1>1, <1>7 DEF CommitElapsed, AccountRecord
  <2>2. until <= now + BondingLeft(u)
    BY <1>7 DEF Bonded, BondingLeft, Elapsed
  <2>3. QED
    BY <1>1, <1>2, <1>4, <1>5, <1>7, <2>1, <2>2 DEF Bonded
<1>8. QED
  BY <1>1, <1>6, <1>7

\* Of an open pool that exports no stakes, what a step may do to bondings: nothing, a
\* deposit, a claim or a withdrawal; and whoever is paid has served it.
BondingStep == BondingInv' /\ \A u \in Users : paid'[u] > paid[u] => now >= bondedUntil[u]

LEMMA OneAccountBonded ==
  ASSUME TypeInv, BondingInv, Successors = {}, ~IsClosed, now' = now, NEW u \in Users,
         Bonded(account'[u], bondedUntil'[u]),
         \A v \in Users : v # u => account'[v] = account[v] /\ bondedUntil'[v] = bondedUntil[v]
  PROVE  BondingInv'
<1>1. \A v \in Users : Bonded(account'[v], bondedUntil'[v])
  BY DEF BondingInv
<1>2. \A v \in Users : Bonded(account[v], bondedUntil[v])'
  BY <1>1 DEF Bonded
<1>3. QED
  BY <1>2 DEF BondingInv

LEMMA CommitDepositBonding ==
  ASSUME TypeInv, BondingInv, Successors = {}, ~IsClosed, NEW u \in Users,
         NEW amount \in Nat, NEW h \in Nat, CommitDeposit(u, amount, h)
  PROVE  BondingStep
<1>1. /\ Readable(u, h) /\ UNCHANGED <<now, paid>>
      /\ account' = [account EXCEPT ![u] = AccountAfter(u, h, amount)]
      /\ bondedUntil' = IF account[u].staked = 0
                        THEN [bondedUntil EXCEPT ![u] = now + bonding] ELSE bondedUntil
  BY DEF CommitDeposit
<1>2. /\ account \in [Users -> AccountRecord] /\ account[u].staked \in Nat
      /\ bondedUntil \in [Users -> Nat] /\ paid \in [Users -> Nat]
      /\ now + bonding \in Nat /\ amount \in Int
  BY PoolAssumption, RecordFields DEF TypeInv, PoolTypeOK, GovTypeOK
<1>3. account[u].staked + amount \in Nat /\ bondedUntil[u] \in Nat
  BY <1>2
<1>4. /\ account'[u] = AccountAfter(u, h, amount)
      /\ \A v \in Users : v # u => account'[v] = account[v] /\ bondedUntil'[v] = bondedUntil[v]
  BY <1>1, <1>2
<1>5. Bonded(AccountAfter(u, h, amount), bondedUntil'[u])
  <2>1. CASE account[u].staked = 0
    <3>1. bondedUntil'[u] = now + bonding
      BY <1>1, <1>2, <2>1
    <3>2. QED
      BY <1>1, <1>2, <1>3, <2>1, <3>1, AccountAfterIsBonded
  <2>2. CASE account[u].staked > 0
    <3>1. bondedUntil'[u] = bondedUntil[u] /\ Bonded(account[u], bondedUntil[u])
      BY <1>1, <2>2 DEF BondingInv
    <3>2. account[u].staked + amount > 0
      BY <1>2, <2>2
    <3>3. QED
      BY <1>1, <1>2, <1>3, <2>2, <3>1, <3>2, AccountAfterIsBonded
  <2>3. QED
    BY <1>2, <2>1, <2>2
<1>6. BondingInv'
  BY <1>1, <1>4, <1>5, OneAccountBonded
<1>7. \A v \in Users : ~(paid'[v] > paid[v])
  BY <1>1, <1>2
<1>8. QED
  BY <1>6, <1>7 DEF BondingStep

LEMMA ClaimBonding ==
  ASSUME TypeInv, BondingInv, Successors = {}, NEW u \in Users, NEW to, Claim(u, to)
  PROVE  BondingStep
<1> DEFINE h == held[RewardToken]
<1>1. /\ Readable(u, h) /\ now' = now /\ ~IsClosed /\ BondingLeft(u) = 0 /\ Earned(u, h) > 0
      /\ account' = [account EXCEPT ![u] = Reset(account[u].staked, h)]
      /\ bondedUntil' = [bondedUntil EXCEPT ![u] = now + bonding]
      /\ paid' = [paid EXCEPT ![u] = @ + Earned(u, h)]
  BY DEF Claim
<1>2. /\ account \in [Users -> AccountRecord] /\ account[u].staked \in Nat
      /\ bondedUntil \in [Users -> Nat] /\ paid \in [Users -> Nat] /\ h \in Nat
  BY TokensOfPool, RecordFields DEF TypeInv, PoolTypeOK
<1>3. Bonded(Reset(account[u].staked, h), now + bonding)
  BY <1>2, ResetIsBonded
<1>4. BondingInv'
  BY <1>1, <1>2, <1>3, OneAccountBonded
<1>5. now >= bondedUntil[u]
  BY <1>1, <1>2, PaidOnceBonded
<1>6. \A v \in Users : v # u => ~(paid'[v] > paid[v])
  BY <1>1, <1>2
<1>7. QED
  BY <1>4, <1>5, <1>6 DEF BondingStep

LEMMA WithdrawBonding ==
  ASSUME TypeInv, BondingInv, Successors = {}, NEW u \in Users, NEW amount \in Nat,
         Withdraw(u, amount)
  PROVE  BondingStep
<1> DEFINE h == held[RewardToken]
           left == AccountAfter(u, h, -amount)
           claims == left.staked = 0 /\ Earned(u, h) > 0 /\ left.bonding = 0
           reward == IF claims THEN Earned(u, h) ELSE 0
<1>1. /\ Readable(u, h) /\ now' = now /\ ~IsClosed /\ amount <= account[u].staked
      /\ account' = [account EXCEPT ![u] = IF left.staked = 0 THEN Reset(0, h) ELSE left]
      /\ bondedUntil' = bondedUntil
      /\ paid' = [paid EXCEPT ![u] = @ + reward]
  BY DEF Withdraw
<1>2. /\ account \in [Users -> AccountRecord] /\ account[u] \in AccountRecord
      /\ account[u].staked \in Nat /\ -amount \in Int
      /\ account[u].staked + (-amount) \in Nat
      /\ bondedUntil \in [Users -> Nat] /\ bondedUntil[u] \in Nat
      /\ paid \in [Users -> Nat] /\ h \in Nat
  BY <1>1, TokensOfPool, RecordFields DEF TypeInv, PoolTypeOK
<1>3. left.staked = account[u].staked + (-amount)
  BY <1>1, <1>2, StoredAccountTypes DEF TypeInv
<1>4. Bonded(account'[u], bondedUntil'[u])
  <2>1. CASE left.staked = 0
    <3>1. account'[u] = Reset(0, h)
      BY <1>1, <1>2, <2>1
    <3>2. QED
      BY <3>1, ResetIsBonded
  <2>2. CASE left.staked # 0
    <3>1. account[u].staked > 0 /\ account[u].staked + (-amount) > 0
      BY <1>1, <1>2, <1>3, <2>2
    <3>2. Bonded(account[u], bondedUntil[u])
      BY <1>1 DEF BondingInv
    <3>3. Bonded(left, bondedUntil[u])
      BY <1>1, <1>2, <3>1, <3>2, AccountAfterIsBonded
    <3>4. account'[u] = left
      BY <1>1, <1>2, <2>2
    <3>5. QED
      BY <1>1, <3>3, <3>4
  <2>3. QED
    BY <2>1, <2>2
<1>5. BondingInv'
  BY <1>1, <1>2, <1>4, OneAccountBonded
<1>6. ASSUME claims PROVE now >= bondedUntil[u]
  <2>1. ASSUME account[u].staked > 0 PROVE BondingLeft(u) = 0
    <3> DEFINE a == CommitElapsed(u, h)
    <3>1. a.bonding = BondingLeft(u)
      BY <1>2, <2>1 DEF CommitElapsed, AccountRecord
    <3>2. a \in AccountRecord
      BY <1>1, <1>2, StoredAccountTypes DEF TypeInv
    <3> HIDE DEF a
    <3>3. left.bonding = a.bonding
      BY <3>2 DEF AccountAfter, a, AccountRecord
    <3>4. QED
      BY <1>6, <3>1, <3>3
  <2>2. QED
    BY <1>1, <1>2, <1>6, <2>1, PaidOnceBonded
<1>7. ~claims => reward = 0
  OBVIOUS
<1> HIDE DEF claims, reward
<1>8. \A v \in Users : paid'[v] > paid[v] => v = u /\ claims
  BY <1>1, <1>2, <1>7
<1>9. QED
  BY <1>5, <1>6, <1>8 DEF BondingStep

LEMMA TickBonding ==
  ASSUME TypeInv, BondingInv, Successors = {}, ~IsClosed, Tick PROVE BondingStep
<1>1. /\ now' = now + 1 /\ now \in Nat /\ UNCHANGED <<account, bondedUntil, paid>>
  BY DEF Tick, poolVars, history, TypeInv, PoolTypeOK, GovTypeOK
<1>2. ASSUME NEW u \in Users PROVE Bonded(account[u], bondedUntil[u])'
  <2>1. /\ account[u].updated \in Nat /\ account[u].bonding \in Nat
        /\ bondedUntil[u] \in Nat
    BY RecordFields DEF TypeInv, PoolTypeOK
  <2>2. Bonded(account[u], bondedUntil[u])
    BY DEF BondingInv
  <2>3. QED
    BY <1>1, <2>1, <2>2 DEF Bonded, MinusOrZero
<1>3. paid \in [Users -> Nat]
  BY DEF TypeInv, PoolTypeOK
<1>4. QED
  BY <1>1, <1>2, <1>3 DEF BondingStep, BondingInv

LEMMA OpenStepBonding ==
  ASSUME TypeInv, BondingInv, Successors = {}, ~IsClosed, [Next]_vars PROVE BondingStep
<1> USE PoolAssumption
<1>1. /\ held \in [Tokens -> Nat] /\ held[RewardToken] \in Nat /\ paid \in [Users -> Nat]
      /\ abroad \in [Successors \cup Predecessors -> [Users -> Nat]]
  BY TokensOfPool DEF TypeInv, PoolTypeOK
<1>2. ASSUME NEW amount \in Nat
      PROVE  Credit(held, LPToken, amount)[RewardToken] \in Nat
  <2>1. Credit(held, LPToken, amount) \in [Tokens -> Nat]
    BY <1>1, CreditType, TokensOfPool
  <2>2. QED
    BY <2>1, TokensOfPool
<1>3. ASSUME NEW u \in Users, NEW amount \in Amounts,
             Deposit(u, amount) \/ DepositBySend(u, amount)
      PROVE  BondingStep
  <2>1. amount \in Nat
    OBVIOUS
  <2>2. PICK h \in Nat : CommitDeposit(u, amount, h)
    BY <1>1, <1>2, <1>3, <2>1 DEF Deposit, DepositBySend
  <2>3. QED
    BY <2>1, <2>2, CommitDepositBonding
<1>4. ASSUME NEW u \in Users, NEW amount \in Amounts, Withdraw(u, amount)
      PROVE  BondingStep
  BY <1>4, WithdrawBonding
<1>5. ASSUME NEW u \in Users, NEW to \in Users, Claim(u, to) PROVE BondingStep
  BY <1>5, ClaimBonding
<1>6. ASSUME NEW c \in Predecessors, NEW u \in Users, ReceiveMigration(c, u)
      PROVE  BondingStep
  <2>1. abroad[c][u] \in Nat
    BY <1>1
  <2>2. Credit(held, LPToken, abroad[c][u])[RewardToken] \in Nat
    BY <1>2, <2>1
  <2>3. QED
    BY <1>6, <2>1, <2>2, CommitDepositBonding DEF ReceiveMigration
<1>7. ASSUME NEW u \in Users,
             ForceExit(u) \/ \E amount \in Amounts : ForceExitBySend(u, amount)
      PROVE  BondingStep
  BY <1>7 DEF ForceExit, ForceExitBySend, ForceExitFrom
<1>8. ASSUME UNCHANGED <<now, account, bondedUntil, paid>> PROVE BondingStep
  <2>1. \A u \in Users : Bonded(account[u], bondedUntil[u])'
    BY <1>8 DEF BondingInv, Bonded
  <2>2. QED
    BY <1>1, <1>8, <2>1 DEF BondingStep, BondingInv
<1>9. ASSUME \/ AdminRunsGovernance \/ BeginEpoch \/ Configure \/ Close \/ SetMigration
             \/ \E amount \in Vestings : Vest(amount)
             \/ \E t \in Tokens : Drain(t) \/ Sweep(t)
             \/ \E u \in Users : StakerCreatesPoll(u)
             \/ \E u \in Users, p \in PollIds, c \in Choices :
                  StakerVotes(u, p, c) \/ StakerChangesVote(u, p, c)
             \/ \E u \in Users, p \in PollIds : StakerUnvotes(u, p)
             \/ UNCHANGED vars
      PROVE  UNCHANGED <<now, account, bondedUntil, paid>>
  BY <1>9 DEF AdminRunsGovernance, BeginEpoch, Configure, Close, SetMigration, Vest, Drain,
     Sweep, StakerCreatesPoll, StakerVotes, StakerChangesVote, StakerUnvotes, vars, notGov,
     poolVars, history
<1>10. QED
  BY <1>3, <1>4, <1>5, <1>6, <1>7, <1>8, <1>9, TickBonding DEF Next

\* The seal stays: bonding does not matter again once the pool is closed.
LEMMA ClosedForGood ==
  ASSUME TypeInv, IsClosed, [Next]_vars PROVE IsClosed'
<1>1. now \in Nat
  BY DEF TypeInv, PoolTypeOK, GovTypeOK
<1>2. closed' = closed \/ closed' = now
  BY DEF Next, vars, Tick, Vest, Deposit, DepositBySend, CommitDeposit, Withdraw, Claim,
     ForceExit, ForceExitBySend, ForceExitFrom, ExportState, ReceiveMigration,
     StakerCreatesPoll, StakerVotes, StakerChangesVote, StakerUnvotes, AdminRunsGovernance,
     BeginEpoch, Configure, Close, SetMigration, Drain, Sweep, notGov, poolVars
<1>3. QED
  BY <1>1, <1>2 DEF IsClosed, Never

\* Where stakes are not exported, nobody is paid by an open pool before the bonding that
\* was in force at their entry or last payment is over (account.rs).
THEOREM BondingIsServedHolds == Spec => BondingIsServed
<1> DEFINE Served == \A u \in Users :
             Successors = {} /\ ~IsClosed /\ paid'[u] > paid[u] => now >= bondedUntil[u]
<1>1. Spec => []TypeInv
  BY InitType, TypeStep, PTL DEF Spec
<1>2. Init => BondingInv
  BY DEF Init, NewAccount, BondingInv, Bonded
<1>3. TypeInv /\ BondingInv /\ [Next]_vars => BondingInv'
  BY OpenStepBonding, ClosedForGood DEF BondingStep, BondingInv
<1>4. TypeInv /\ BondingInv /\ [Next]_vars => [Served]_vars
  BY OpenStepBonding DEF BondingStep
<1>5. Spec => [][Served]_vars
  BY <1>1, <1>2, <1>3, <1>4, PTL DEF Spec
<1>6. QED
  BY <1>5 DEF BondingIsServed

-----------------------------------------------------------------------------
(* Votes.                                                                  *)

\* What a transaction, or time, does to the polls.
VotesStay ==
  now' \in {now, now + 1} /\ UNCHANGED <<pollCount, poll, result, vote, active, judged>>

VotesRise(u, amount) ==
  /\ now' = now /\ outlived' = outlived
  /\ IncreaseVotePower(u, amount, total.staked)
  /\ judged' = [p \in PollIds |->
                  IF p \in Unexpired(active[u]) THEN total.staked ELSE judged[p]]

PollOpens(u) ==
  now' = now /\ CreatePoll(u, account[u].staked) /\ UNCHANGED <<judged, outlived>>

VoteMoves(u, p) ==
  /\ now' = now /\ Judge(p)
  /\ \/ /\ outlived' = outlived
        /\ \E c \in Choices :
             \/ CastVote(u, p, c, account[u].staked, total.staked)
             \/ ChangeVoteChoice(u, p, c, total.staked)
     \/ /\ outlived' = [outlived EXCEPT ![p][u] = 0]
        /\ Unvote(u, p, total.staked)

\* What a transaction, or time, does to the votes and to the stakes behind them.
LEMMA StepOnVotes ==
  ASSUME TypeInv, [Next]_vars
  PROVE  \/ VotesStay /\ StakesStay /\ outlived' = outlived
         \/ \E u \in Users, amount \in Nat :
              VotesRise(u, amount) /\ StakeChangesBy(u, amount)
         \/ \E u \in Users, d \in Int :
              /\ VotesStay /\ StakeChangesBy(u, d)
              /\ Unexpired(active[u]) = {} /\ outlived' = outlived
         \/ \E u \in Users :
              VotesStay /\ StakeChangesBy(u, -account[u].staked) /\ LeavesAround(u)
         \/ \E u \in Users : PollOpens(u) /\ UNCHANGED <<account, total>>
         \/ \E u \in Users, p \in PollIds : VoteMoves(u, p) /\ UNCHANGED <<account, total>>
<1> USE PoolAssumption
<1>1. /\ held \in [Tokens -> Nat] /\ held[RewardToken] \in Nat
      /\ abroad \in [Successors \cup Predecessors -> [Users -> Nat]]
      /\ \A u \in Users : account[u].staked \in Nat
      /\ total.staked \in Nat
  BY TokensOfPool, RecordFields DEF TypeInv, PoolTypeOK
<1>2. ASSUME NEW amount \in Nat
      PROVE  /\ Credit(held, LPToken, amount) \in [Tokens -> Nat]
             /\ Credit(held, LPToken, amount)[RewardToken] \in Nat
  <2>1. Credit(held, LPToken, amount) \in [Tokens -> Nat]
    BY <1>1, CreditType, TokensOfPool
  <2>2. QED
    BY <2>1, TokensOfPool
<1>3. ASSUME NEW u \in Users, NEW amount \in Amounts,
             Deposit(u, amount) \/ DepositBySend(u, amount)
      PROVE  VotesRise(u, amount) /\ StakeChangesBy(u, amount) /\ amount \in Nat
  <2>1. amount \in Nat
    OBVIOUS
  <2>2. PICK h \in Nat : CommitDeposit(u, amount, h)
    BY <1>1, <1>2, <1>3, <2>1 DEF Deposit, DepositBySend
  <2>3. StakeChangesBy(u, amount)
    BY <2>1, <2>2, CommitDepositStakes
  <2>4. QED
    BY <2>1, <2>2, <2>3 DEF CommitDeposit, VotesRise
<1>4. ASSUME NEW c \in Predecessors, NEW u \in Users, ReceiveMigration(c, u)
      PROVE  VotesRise(u, abroad[c][u]) /\ StakeChangesBy(u, abroad[c][u])
             /\ abroad[c][u] \in Nat
  <2>1. abroad[c][u] \in Nat
    BY <1>1
  <2>2. PICK h \in Nat : CommitDeposit(u, abroad[c][u], h)
    BY <1>2, <1>4, <2>1 DEF ReceiveMigration
  <2>3. StakeChangesBy(u, abroad[c][u])
    BY <2>1, <2>2, CommitDepositStakes
  <2>4. QED
    BY <2>1, <2>2, <2>3 DEF CommitDeposit, VotesRise
<1>5. ASSUME NEW u \in Users, NEW amount \in Amounts, Withdraw(u, amount)
      PROVE  /\ VotesStay /\ StakeChangesBy(u, -amount) /\ -amount \in Int
             /\ Unexpired(active[u]) = {} /\ outlived' = outlived
  <2>1. StakeChangesBy(u, -amount) /\ -amount \in Int
    BY <1>5, WithdrawStakes
  <2>2. VotesStay /\ Unexpired(active[u]) = {} /\ outlived' = outlived
    BY <1>5 DEF Withdraw, CanUnstake, VotesStay, govVars
  <2>3. QED
    BY <2>1, <2>2
<1>6. ASSUME NEW u \in Users, NEW to \in Users, Claim(u, to)
      PROVE  VotesStay /\ StakesStay /\ outlived' = outlived
  <2>1. StakeChangesBy(u, 0)
    BY <1>6, ClaimStakes
  <2>2. StakesStay
    BY <1>1, <2>1 DEF StakeChangesBy, StakesStay
  <2>3. QED
    BY <1>6, <2>2 DEF Claim, VotesStay, govVars
<1>7. ASSUME NEW u \in Users,
             ForceExit(u) \/ \E amount \in Amounts : ForceExitBySend(u, amount)
      PROVE  VotesStay /\ StakeChangesBy(u, -account[u].staked) /\ LeavesAround(u)
  <2>1. ASSUME NEW pool \in [Tokens -> Nat], NEW wallets, ForceExitFrom(u, pool, wallets)
        PROVE  VotesStay /\ StakeChangesBy(u, -account[u].staked) /\ LeavesAround(u)
    <3>1. StakeChangesBy(u, -account[u].staked)
      BY <2>1, ForceExitFromStakes
    <3>2. QED
      BY <2>1, <3>1 DEF ForceExitFrom, VotesStay, govVars
  <2>2. QED
    BY <1>1, <1>2, <1>7, <2>1 DEF ForceExit, ForceExitBySend
<1>8. ASSUME NEW c \in Successors, NEW u \in Users, ExportState(c, u)
      PROVE  VotesStay /\ StakeChangesBy(u, -account[u].staked) /\ LeavesAround(u)
  <2>1. StakeChangesBy(u, -account[u].staked)
    BY <1>8, ExportStateStakes
  <2>2. QED
    BY <1>8, <2>1 DEF ExportState, VotesStay, govVars
<1>9. ASSUME NEW u \in Users, StakerCreatesPoll(u)
      PROVE  PollOpens(u) /\ UNCHANGED <<account, total>>
  BY <1>9 DEF StakerCreatesPoll, PollOpens, notGov, poolVars
<1>10. ASSUME NEW u \in Users, NEW p \in PollIds,
              \/ \E c \in Choices : StakerVotes(u, p, c) \/ StakerChangesVote(u, p, c)
              \/ StakerUnvotes(u, p)
       PROVE  VoteMoves(u, p) /\ UNCHANGED <<account, total>>
  BY <1>10 DEF StakerVotes, StakerChangesVote, StakerUnvotes, VoteMoves, notGov, poolVars
<1>11. ASSUME \/ Tick \/ AdminRunsGovernance \/ BeginEpoch \/ Configure \/ Close
              \/ SetMigration
              \/ \E amount \in Vestings : Vest(amount)
              \/ \E t \in Tokens : Drain(t) \/ Sweep(t)
              \/ UNCHANGED vars
       PROVE  VotesStay /\ StakesStay /\ outlived' = outlived
  <2>1. UNCHANGED <<account, total, outlived>>
    BY <1>11 DEF Tick, AdminRunsGovernance, BeginEpoch, Configure, Close, SetMigration,
       Vest, Drain, Sweep, vars, notGov, poolVars, history
  <2>2. VotesStay
    BY <1>11 DEF Tick, AdminRunsGovernance, UpdateGovConfig, CloseGovernance, BeginEpoch,
       Configure, Close, SetMigration, Vest, Drain, Sweep, vars, notGov, govVars, history,
       VotesStay
  <2>3. QED
    BY <2>1, <2>2 DEF StakesStay
<1>12. QED
  BY <1>3, <1>4, <1>5, <1>6, <1>7, <1>8, <1>9, <1>10, <1>11 DEF Next

LEMMA VotesInvStep ==
  ASSUME TypeInv, VotesInv, [Next]_vars
  PROVE  VotesInv'
<1>1. GovTypeOK /\ now \in Nat /\ \A u \in Users : account[u].staked \in Nat
  BY RecordFields DEF TypeInv, PoolTypeOK, GovTypeOK
<1>2. CASE VotesStay
  <2>1. now' \in Nat /\ now' >= now
    BY <1>1, <1>2 DEF VotesStay
  <2>2. QED
    BY <1>1, <1>2, <2>1, OthersKeepVotes DEF VotesStay
<1>3. CASE \E u \in Users, amount \in Nat : VotesRise(u, amount)
  BY <1>1, <1>3, IncreaseVotePowerVotes DEF VotesRise
<1>4. CASE \E u \in Users : PollOpens(u)
  BY <1>1, <1>4, CreatePollVotes DEF PollOpens
<1>5. CASE \E u \in Users, p \in PollIds : VoteMoves(u, p)
  BY <1>1, <1>5, CastVoteVotes, ChangeVoteChoiceVotes, UnvoteVotes DEF VoteMoves
<1>6. QED
  BY <1>2, <1>3, <1>4, <1>5, StepOnVotes

LEMMA VotesInvHolds == Spec => [](TypeInv /\ VotesInv)
<1>1. Init => TypeInv /\ VotesInv
  BY InitType, GovInitVotes DEF Init
<1>2. TypeInv /\ VotesInv /\ [Next]_vars => TypeInv' /\ VotesInv'
  BY TypeStep, VotesInvStep
<1>3. QED
  BY <1>1, <1>2, PTL DEF Spec

\* The tallies of every poll are the sums of its votes, whatever was cast, changed, taken
\* back or raised by deposits, and the lists of open votes agree with them (poll.rs, user.rs).
THEOREM TalliesMatchVotesHolds == Spec => []TalliesMatchVotes
<1>1. VotesInv => TalliesMatchVotes
  BY DEF VotesInv, Counted, TalliesMatchVotes
<1>2. QED
  BY <1>1, VotesInvHolds, PTL

\* Nothing changes an expired poll: votes are refused, and deposits raise only the
\* votes on polls that are still open (user.rs).
THEOREM ExpiredPollsAreFinalHolds == Spec => ExpiredPollsAreFinal
<1> DEFINE Final == \A p \in PollIds :
             Exists(p) /\ Expired(p) =>
               poll'[p] = poll[p] /\ result'[p] = result[p] /\ vote'[p] = vote[p]
<1>1. ASSUME TypeInv, [Next]_vars PROVE Final
  <2> SUFFICES ASSUME NEW p \in PollIds, Exists(p), Expired(p)
               PROVE  poll'[p] = poll[p] /\ result'[p] = result[p] /\ vote'[p] = vote[p]
    OBVIOUS
  <2>1. /\ poll \in [PollIds -> PollRecord] /\ result \in [PollIds -> [Choices -> Nat]]
        /\ vote \in [PollIds -> [Users -> VoteRecord]] /\ pollCount \in 0..MaxPolls
    BY <1>1 DEF TypeInv, PoolTypeOK, GovTypeOK
  <2>2. CASE VotesStay
    BY <2>2 DEF VotesStay
  <2>3. ASSUME NEW u \in Users, NEW amount \in Nat, VotesRise(u, amount)
        PROVE  poll'[p] = poll[p] /\ result'[p] = result[p] /\ vote'[p] = vote[p]
    <3>1. p \notin Unexpired(active[u])
      BY DEF Unexpired
    <3>2. QED
      BY <2>3, <3>1 DEF VotesRise, IncreaseVotePower
  <2>4. ASSUME NEW u \in Users, PollOpens(u)
        PROVE  poll'[p] = poll[p] /\ result'[p] = result[p] /\ vote'[p] = vote[p]
    <3>1. p # pollCount + 1
      BY <2>1, MaxPollsAssumption DEF Exists
    <3>2. QED
      BY <2>1, <2>4, <3>1 DEF PollOpens, CreatePoll
  <2>5. ASSUME NEW u \in Users, NEW q \in PollIds, VoteMoves(u, q)
        PROVE  poll'[p] = poll[p] /\ result'[p] = result[p] /\ vote'[p] = vote[p]
    <3>1. q # p
      BY <2>5 DEF VoteMoves, CastVote, ChangeVoteChoice, Unvote
    <3>2. ASSUME NEW tally, NEW t, UpdateResult(q, tally, t)
          PROVE  poll'[p] = poll[p] /\ result'[p] = result[p]
      BY <2>1, <3>1, <3>2 DEF UpdateResult
    <3>3. ASSUME NEW c \in Choices, CastVote(u, q, c, account[u].staked, total.staked)
          PROVE  poll'[p] = poll[p] /\ result'[p] = result[p] /\ vote'[p] = vote[p]
      BY <2>1, <3>1, <3>2, <3>3 DEF CastVote
    <3>4. ASSUME NEW c \in Choices, ChangeVoteChoice(u, q, c, total.staked)
          PROVE  poll'[p] = poll[p] /\ result'[p] = result[p] /\ vote'[p] = vote[p]
      BY <2>1, <3>1, <3>2, <3>4 DEF ChangeVoteChoice
    <3>5. ASSUME Unvote(u, q, total.staked)
          PROVE  poll'[p] = poll[p] /\ result'[p] = result[p] /\ vote'[p] = vote[p]
      BY <2>1, <3>1, <3>2, <3>5 DEF Unvote
    <3>6. QED
      BY <2>5, <3>3, <3>4, <3>5 DEF VoteMoves
  <2>6. QED
    BY <1>1, <2>2, <2>3, <2>4, <2>5, StepOnVotes
<1>2. Spec => []TypeInv
  BY InitType, TypeStep, PTL DEF Spec
<1>3. [Final]_vars => [Final]_<<now, govVars>>
  BY DEF vars
<1>4. Spec => [][Final]_<<now, govVars>>
  BY <1>1, <1>2, <1>3, PTL DEF Spec
<1>5. QED
  BY <1>4 DEF ExpiredPollsAreFinal

-----------------------------------------------------------------------------
(* What the votes weigh and what follows from them: the history variables  *)
(* remember the stakes that the stored statuses and powers go back to.     *)

\* The status that a tally of r has by a quorum of q of t.
Decides(r, q, t) ==
  r["yes"] > r["no"] /\ (r["yes"] + r["no"]) * DecimalOne >= (q + 1) * t

Decided(p) == poll[p].status = "passed" <=> Decides(result[p], poll[p].quorum, judged[p])

\* The vote of u on p weighs u's stake and what of it left around governance.
Weighed(p, u) ==
  /\ ~HasVoted(u, p) => outlived[p][u] = 0
  /\ ~Expired(p) /\ HasVoted(u, p) => vote[p][u].power = account[u].staked + outlived[p][u]

Remembered(p) ==
  /\ judged[p] \in Nat /\ outlived[p] \in [Users -> Nat]
  /\ Decided(p) /\ \A u \in Users : Weighed(p, u)

MemoryInv ==
  /\ judged \in [PollIds -> Nat]
  /\ outlived \in [PollIds -> [Users -> Nat]]
  /\ \A p \in PollIds : Remembered(p)

\* The rounded participation exceeds the quorum when what voted is more than it by a
\* unit of Decimal.
LEMMA VerdictDecides ==
  ASSUME NEW r \in [Choices -> Nat], NEW q \in Nat, NEW t \in Nat, t > 0
  PROVE  Verdict(r, q, t) = "passed" <=> Decides(r, q, t)
<1>1. r["yes"] + r["no"] \in Nat
  BY DEF Choices
<1>2. PICK n \in Nat : n = (r["yes"] + r["no"]) * DecimalOne
  BY <1>1, NatProduct, GovConfigAssumption
<1>3. t \in Nat \ {0} /\ q + 1 \in Nat
  OBVIOUS
<1>4. t * (q + 1) <= n <=> q + 1 <= n \div t
  BY <1>3, QuotientReached
<1>5. n \div t \in Nat
  BY <1>3, QuotientBounds
<1>6. PICK k \in Nat : k = n \div t
  BY <1>5
<1>7. q + 1 <= k <=> k > q
  OBVIOUS
<1>8. PICK m \in Nat : m = (q + 1) * t /\ m = t * (q + 1)
  <2>1. (q + 1) * t = t * (q + 1)
    BY <1>3, SMT
  <2>2. QED
    BY <1>3, <2>1, NatProduct
<1>9. m <= n <=> n >= m
  OBVIOUS
<1>10. n \div t > q <=> n >= m
  BY <1>4, <1>6, <1>7, <1>8, <1>9
<1>11. Verdict(r, q, t) = "passed" <=> n \div t > q /\ r["yes"] > r["no"]
  BY <1>2 DEF Verdict
<1>12. Decides(r, q, t) <=> r["yes"] > r["no"] /\ n >= m
  BY <1>2, <1>8 DEF Decides
<1>13. QED
  BY <1>10, <1>11, <1>12

\* A poll whose status, votes and past stay is as before, the open ones of them with
\* the stakes of those who voted.
LEMMA SamePollRemembered ==
  ASSUME NEW p \in PollIds, Remembered(p), vote'[p] = vote[p], result'[p] = result[p],
         poll'[p] = poll[p], judged'[p] = judged[p], outlived'[p] = outlived[p],
         ~Expired(p)' => ~Expired(p),
         \A u \in Users : ~Expired(p)' /\ HasVoted(u, p) =>
                            account'[u].staked = account[u].staked
  PROVE  Remembered(p)'
<1>1. Decided(p)'
  BY DEF Remembered, Decided
<1>2. ASSUME NEW u \in Users PROVE Weighed(p, u)'
  <2>1. Weighed(p, u)
    BY DEF Remembered
  <2>2. HasVoted(u, p)' <=> HasVoted(u, p)
    BY DEF HasVoted
  <2>3. QED
    BY <2>1, <2>2 DEF Weighed
<1>3. QED
  BY <1>1, <1>2 DEF Remembered

\* A deposit raises each open vote of its owner with the stake, and computes its poll's
\* status with what was staked before.
LEMMA DepositRemembered ==
  ASSUME TypeInv, TypeInv', VotesInv, MemoryInv, NEW u \in Users, NEW amount \in Nat,
         VotesRise(u, amount), StakeChangesBy(u, amount), NEW p \in PollIds
  PROVE  Remembered(p)'
<1> DEFINE old == vote[p][u]
           tally == [result[p] EXCEPT ![old.choice] = @ + amount]
           mine == Unexpired(active[u])
<1>1. /\ result[p] \in [Choices -> Nat] /\ vote[p] \in [Users -> VoteRecord]
      /\ poll[p] \in PollRecord /\ poll[p].quorum \in Nat /\ old \in VoteRecord
      /\ ~Expired(p) => (p \in active[u] <=> HasVoted(u, p))
      /\ account[u].staked \in Nat /\ total.staked \in Nat
      /\ Remembered(p)
  BY RecordFields DEF TypeInv, PoolTypeOK, GovTypeOK, PollRecord, VotesInv, Counted, MemoryInv
<1>2. /\ account'[u].staked = account[u].staked + amount
      /\ \A v \in Users : v # u => account'[v].staked = account[v].staked
  BY DEF StakeChangesBy
<1>3. CASE p \in mine
  <2>1. /\ vote'[p] = [vote[p] EXCEPT ![u].power = @ + amount]
        /\ result'[p] = tally /\ total.staked > 0
        /\ poll'[p] = [poll[p] EXCEPT !.status = Verdict(tally, CurrentQuorum(p), total.staked)]
        /\ judged'[p] = total.staked /\ outlived' = outlived
        /\ HasVoted(u, p) /\ ~Expired(p) /\ now' = now
    BY <1>3 DEF VotesRise, IncreaseVotePower, Unexpired
  <2>2. result'[p] \in [Choices -> Nat]
    BY DEF TypeInv, PoolTypeOK, GovTypeOK
  <2>3. /\ poll'[p].status = Verdict(result'[p], poll[p].quorum, total.staked)
        /\ poll'[p].quorum = poll[p].quorum /\ poll'[p].expiration = poll[p].expiration
    BY <1>1, <2>1 DEF CurrentQuorum, PollRecord
  <2>4. Decided(p)'
    BY <1>1, <2>1, <2>2, <2>3, VerdictDecides DEF Decided
  <2>5. ASSUME NEW v \in Users PROVE Weighed(p, v)'
    <3>1. Weighed(p, v) /\ outlived[p] \in [Users -> Nat] /\ outlived[p][v] \in Nat
      BY <1>1 DEF Remembered
    <3>2. CASE v = u
      <4>1. old.power = account[u].staked + outlived[p][u]
        BY <2>1, <3>1, <3>2 DEF Weighed
      <4>2. vote'[p][u].choice = old.choice /\ vote'[p][u].power = old.power + amount
        BY <1>1, <2>1 DEF VoteRecord
      <4>3. old.power + amount = account'[u].staked + outlived[p][u]
        BY <1>1, <1>2, <3>1, <3>2, <4>1
      <4>4. QED
        BY <2>1, <3>2, <4>2, <4>3 DEF Weighed, HasVoted
    <3>3. CASE v # u
      <4>1. vote'[p][v] = vote[p][v] /\ account'[v].staked = account[v].staked
        BY <1>1, <1>2, <2>1, <3>3
      <4>2. QED
        BY <2>1, <3>1, <4>1 DEF Weighed, HasVoted
    <3>4. QED
      BY <3>2, <3>3
  <2>6. QED
    BY <1>1, <2>1, <2>4, <2>5 DEF Remembered
<1>4. CASE p \notin mine
  <2>1. /\ vote'[p] = vote[p] /\ result'[p] = result[p] /\ poll'[p] = poll[p]
        /\ judged'[p] = judged[p] /\ outlived'[p] = outlived[p] /\ now' = now
    BY <1>4 DEF VotesRise, IncreaseVotePower
  <2>2. Expired(p)' = Expired(p)
    BY <2>1 DEF Expired
  <2>3. ~Expired(p) => ~HasVoted(u, p)
    BY <1>1, <1>4 DEF Unexpired
  <2>4. QED
    BY <1>1, <1>2, <2>1, <2>2, <2>3, SamePollRemembered
<1>5. QED
  BY <1>3, <1>4

\* A stake that leaves around governance is remembered with the open votes it leaves.
LEMMA LeaverRemembered ==
  ASSUME TypeInv, MemoryInv, NEW u \in Users, VotesStay,
         StakeChangesBy(u, -account[u].staked), LeavesAround(u), NEW p \in PollIds
  PROVE  Remembered(p)'
<1>1. /\ Remembered(p) /\ outlived[p] \in [Users -> Nat] /\ outlived[p][u] \in Nat
      /\ account[u].staked \in Nat /\ now \in Nat /\ poll[p].expiration \in Nat
  BY RecordFields DEF MemoryInv, TypeInv, PoolTypeOK, GovTypeOK, PollRecord
<1>2. /\ account'[u].staked = 0
      /\ \A v \in Users : v # u => account'[v].staked = account[v].staked
  BY <1>1 DEF StakeChangesBy
<1>3. /\ vote' = vote /\ result' = result /\ poll' = poll /\ judged' = judged
      /\ ~Expired(p)' => ~Expired(p)
  BY <1>1 DEF VotesStay, Expired
<1>4. CASE HasVoted(u, p) /\ ~Expired(p)
  <2>1. outlived'[p] = [outlived[p] EXCEPT ![u] = @ + account[u].staked]
    BY <1>4 DEF LeavesAround
  <2>2. outlived'[p] \in [Users -> Nat]
    BY <1>1, <2>1
  <2>3. ASSUME NEW v \in Users PROVE Weighed(p, v)'
    <3>1. Weighed(p, v)
      BY <1>1 DEF Remembered
    <3>2. CASE v = u
      <4>1. /\ vote[p][u].power = account[u].staked + outlived[p][u]
            /\ outlived'[p][u] = outlived[p][u] + account[u].staked
        BY <1>1, <1>4, <2>1, <3>1, <3>2 DEF Weighed
      <4>2. vote[p][u].power = 0 + outlived'[p][u]
        BY <1>1, <4>1
      <4>3. QED
        BY <1>2, <1>3, <1>4, <3>2, <4>2 DEF Weighed, HasVoted
    <3>3. CASE v # u
      <4>1. outlived'[p][v] = outlived[p][v] /\ account'[v].staked = account[v].staked
        BY <1>1, <1>2, <2>1, <3>3
      <4>2. QED
        BY <1>3, <3>1, <4>1 DEF Weighed, HasVoted
    <3>4. QED
      BY <3>2, <3>3
  <2>4. Decided(p)'
    BY <1>1, <1>3 DEF Remembered, Decided
  <2>5. QED
    BY <1>1, <1>3, <2>2, <2>3, <2>4 DEF Remembered
<1>5. CASE ~HasVoted(u, p) \/ Expired(p)
  <2>1. outlived'[p] = outlived[p]
    BY <1>5 DEF LeavesAround
  <2>2. QED
    BY <1>1, <1>2, <1>3, <1>5, <2>1, SamePollRemembered
<1>6. QED
  BY <1>4, <1>5

\* A vote on p weighs its caster's stake, nothing of it having left before, and its
\* status is that of the new tally.
LEMMA MovedVoteRemembered ==
  ASSUME TypeInv, TypeInv', MemoryInv, NEW u \in Users, NEW p \in PollIds, VoteMoves(u, p),
         UNCHANGED <<account, total>>
  PROVE  Remembered(p)'
<1> DEFINE s == account[u].staked
           old == vote[p][u]
<1>1. /\ vote \in [PollIds -> [Users -> VoteRecord]] /\ old \in VoteRecord
      /\ outlived \in [PollIds -> [Users -> Nat]] /\ judged \in [PollIds -> Nat]
      /\ poll[p].quorum \in Nat /\ s \in Nat /\ total.staked \in Nat
      /\ Remembered(p) /\ Weighed(p, u) /\ GovTypeOK
      /\ result'[p] \in [Choices -> Nat]
  BY RecordFields DEF TypeInv, PoolTypeOK, GovTypeOK, PollRecord, MemoryInv, Remembered
<1>2. judged'[p] = total.staked /\ now' = now /\ ~Expired(p)
  BY <1>1 DEF VoteMoves, Judge, CastVote, ChangeVoteChoice, Unvote
<1>3. ASSUME NEW tally, UpdateResult(p, tally, total.staked)
      PROVE  Decided(p)' /\ Expired(p)' = Expired(p)
  <2>1. /\ result'[p] = tally /\ total.staked > 0
        /\ poll'[p].status = Verdict(tally, poll[p].quorum, total.staked)
        /\ poll'[p].quorum = poll[p].quorum
        /\ poll'[p].expiration = poll[p].expiration
    <3>1. total.staked > 0
      BY <1>3 DEF UpdateResult
    <3>2. QED
      BY <1>1, <1>3, <3>1, StoredVerdict
  <2>2. Decided(p)'
    BY <1>1, <1>2, <2>1, VerdictDecides DEF Decided
  <2>3. QED
    BY <1>2, <2>1, <2>2 DEF Expired
<1>4. ASSUME NEW tally, UpdateResult(p, tally, total.staked),
             NEW v \in VoteRecord, vote' = [vote EXCEPT ![p][u] = v],
             NEW left \in Nat, outlived' = [outlived EXCEPT ![p][u] = left],
             v.choice = "none" => left = 0,
             v.choice # "none" => v.power = s + left
      PROVE  Remembered(p)'
  <2>1. /\ vote'[p][u] = v /\ \A w \in Users : w # u => vote'[p][w] = vote[p][w]
    BY <1>1, <1>4
  <2>2. /\ outlived'[p] = [outlived[p] EXCEPT ![u] = left]
        /\ outlived'[p] \in [Users -> Nat] /\ outlived'[p][u] = left
        /\ \A w \in Users : w # u => outlived'[p][w] = outlived[p][w]
    BY <1>1, <1>4
  <2>3. ASSUME NEW w \in Users PROVE Weighed(p, w)'
    <3>1. CASE w = u
      BY <1>4, <2>1, <2>2, <3>1 DEF Weighed, HasVoted
    <3>2. CASE w # u
      <4>1. Weighed(p, w) /\ vote'[p][w] = vote[p][w] /\ outlived'[p][w] = outlived[p][w]
        BY <1>1, <2>1, <2>2, <3>2 DEF Remembered
      <4>2. QED
        BY <1>3, <1>4, <4>1 DEF Weighed, HasVoted
    <3>3. QED
      BY <3>1, <3>2
  <2>4. QED
    BY <1>1, <1>2, <1>3, <1>4, <2>2, <2>3 DEF Remembered
<1>5. outlived[p][u] \in Nat /\ outlived = [outlived EXCEPT ![p][u] = outlived[p][u]]
  BY <1>1
<1>6. ASSUME NEW c \in Choices, CastVote(u, p, c, s, total.staked), outlived' = outlived
      PROVE  Remembered(p)'
  <2> DEFINE v == [choice |-> c, power |-> s]
  <2>1. /\ vote' = [vote EXCEPT ![p][u] = v] /\ ~HasVoted(u, p)
        /\ \E tally : UpdateResult(p, tally, total.staked)
    BY <1>6 DEF CastVote, MayVote
  <2>2. v \in VoteRecord /\ v.choice # "none" /\ v.power = s
    BY <1>1 DEF VoteRecord, Choices
  <2>3. outlived[p][u] = 0 /\ s = s + outlived[p][u]
    BY <1>1, <2>1 DEF Weighed
  <2> HIDE DEF v, s
  <2>4. QED
    BY <1>4, <1>5, <1>6, <2>1, <2>2, <2>3
<1>7. ASSUME NEW c \in Choices, ChangeVoteChoice(u, p, c, total.staked), outlived' = outlived
      PROVE  Remembered(p)'
  <2> DEFINE v == [old EXCEPT !.choice = c]
  <2>1. /\ vote' = [vote EXCEPT ![p][u].choice = c] /\ HasVoted(u, p)
        /\ \E tally : UpdateResult(p, tally, total.staked)
    BY <1>7 DEF ChangeVoteChoice
  <2>2. v \in VoteRecord /\ v.choice # "none" /\ v.power = old.power
    BY <1>1 DEF VoteRecord, Choices
  <2>3. old.power = s + outlived[p][u]
    BY <1>1, <1>2, <2>1 DEF Weighed
  <2>4. vote' = [vote EXCEPT ![p][u] = v]
    BY <1>1, <2>1
  <2> HIDE DEF v, s
  <2>5. QED
    BY <1>4, <1>5, <1>7, <2>1, <2>2, <2>3, <2>4
<1>8. ASSUME Unvote(u, p, total.staked), outlived' = [outlived EXCEPT ![p][u] = 0]
      PROVE  Remembered(p)'
  <2>1. /\ vote' = [vote EXCEPT ![p][u] = NoVote]
        /\ \E tally : UpdateResult(p, tally, total.staked)
    BY <1>8 DEF Unvote
  <2>2. NoVote \in VoteRecord /\ NoVote.choice = "none" /\ 0 \in Nat
    BY DEF NoVote, VoteRecord
  <2>3. QED
    BY <1>4, <1>8, <2>1, <2>2
<1>9. QED
  BY <1>6, <1>7, <1>8 DEF VoteMoves

LEMMA RememberedStep ==
  ASSUME TypeInv, TypeInv', VotesInv, MemoryInv, [Next]_vars, NEW p \in PollIds
  PROVE  Remembered(p)'
<1>1. /\ now \in Nat /\ pollCount \in 0..MaxPolls /\ poll \in [PollIds -> PollRecord]
      /\ poll[p].expiration \in Nat /\ result \in [PollIds -> [Choices -> Nat]]
      /\ vote \in [PollIds -> [Users -> VoteRecord]]
      /\ judged \in [PollIds -> Nat] /\ outlived \in [PollIds -> [Users -> Nat]]
      /\ Remembered(p) /\ Counted(p)
  BY DEF TypeInv, PoolTypeOK, GovTypeOK, PollRecord, MemoryInv, VotesInv
<1>2. ASSUME VotesStay
      PROVE  /\ vote' = vote /\ result' = result /\ poll' = poll /\ judged' = judged
             /\ ~Expired(p)' => ~Expired(p)
  BY <1>1, <1>2 DEF VotesStay, Expired
<1>3. ASSUME VotesStay, StakesStay, outlived' = outlived PROVE Remembered(p)'
  BY <1>1, <1>2, <1>3, SamePollRemembered DEF StakesStay
<1>4. ASSUME NEW u \in Users, NEW d \in Int, VotesStay, StakeChangesBy(u, d),
             Unexpired(active[u]) = {}, outlived' = outlived
      PROVE  Remembered(p)'
  <2>1. ~Expired(p) => ~HasVoted(u, p)
    BY <1>1, <1>4 DEF Counted, Unexpired
  <2>2. \A v \in Users : v # u => account'[v].staked = account[v].staked
    BY <1>4 DEF StakeChangesBy
  <2>3. QED
    BY <1>1, <1>2, <1>4, <2>1, <2>2, SamePollRemembered
<1>5. ASSUME NEW u \in Users, PollOpens(u), UNCHANGED <<account, total>>
      PROVE  Remembered(p)'
  <2>1. /\ vote' = vote /\ judged' = judged /\ outlived' = outlived /\ now' = now
    BY <1>5 DEF PollOpens, CreatePoll
  <2>2. CASE p = pollCount + 1
    <3>1. /\ result'[p]["yes"] = 0 /\ result'[p]["no"] = 0 /\ poll'[p].status = "failed"
          /\ ~Exists(p)
      BY <1>1, <1>5, <2>2 DEF PollOpens, CreatePoll, Choices, Exists
    <3>2. Decided(p)'
      BY <3>1 DEF Decided, Decides
    <3>3. \A v \in Users : ~HasVoted(v, p) /\ ~HasVoted(v, p)' /\ Weighed(p, v)
      BY <1>1, <2>1, <3>1 DEF Counted, HasVoted, Remembered
    <3>4. \A v \in Users : Weighed(p, v)'
      BY <2>1, <3>3 DEF Weighed
    <3>5. QED
      BY <1>1, <2>1, <3>2, <3>4 DEF Remembered
  <2>3. CASE p # pollCount + 1
    <3>1. poll'[p] = poll[p] /\ result'[p] = result[p]
      BY <1>1, <1>5, <2>3 DEF PollOpens, CreatePoll
    <3>2. Expired(p)' = Expired(p)
      BY <2>1, <3>1 DEF Expired
    <3>3. QED
      BY <1>1, <1>5, <2>1, <3>1, <3>2, SamePollRemembered
  <2>4. QED
    BY <2>2, <2>3
<1>6. ASSUME NEW u \in Users, NEW q \in PollIds, VoteMoves(u, q),
             UNCHANGED <<account, total>>
      PROVE  Remembered(p)'
  <2>1. CASE q = p
    BY <1>6, <2>1, MovedVoteRemembered
  <2>2. CASE q # p
    <3>1. ASSUME NEW tally, NEW t, UpdateResult(q, tally, t)
          PROVE  result'[p] = result[p] /\ poll'[p] = poll[p]
      BY <1>1, <2>2, <3>1 DEF UpdateResult
    <3>2. result'[p] = result[p] /\ poll'[p] = poll[p] /\ vote'[p] = vote[p] /\ now' = now
      BY <1>1, <1>6, <2>2, <3>1 DEF VoteMoves, CastVote, ChangeVoteChoice, Unvote
    <3>3. judged'[p] = judged[p] /\ outlived'[p] = outlived[p]
      BY <1>1, <1>6, <2>2 DEF VoteMoves, Judge
    <3>4. Expired(p)' = Expired(p)
      BY <3>2 DEF Expired
    <3>5. QED
      BY <1>1, <1>6, <3>2, <3>3, <3>4, SamePollRemembered
  <2>3. QED
    BY <2>1, <2>2
<1>7. QED
  BY <1>3, <1>4, <1>5, <1>6, DepositRemembered, LeaverRemembered, StepOnVotes

LEMMA MemoryInvStep ==
  ASSUME TypeInv, TypeInv', VotesInv, MemoryInv, [Next]_vars
  PROVE  MemoryInv'
<1>1. \A p \in PollIds : Remembered(p)'
  BY RememberedStep
<1>2. \A p \in PollIds : judged'[p] \in Nat /\ outlived'[p] \in [Users -> Nat]
  BY <1>1 DEF Remembered
<1>3. judged' = [p \in PollIds |-> judged'[p]] /\ outlived' = [p \in PollIds |-> outlived'[p]]
  BY StepOnVotes DEF MemoryInv, VotesStay, VotesRise, PollOpens, VoteMoves, Judge, LeavesAround
<1>4. judged' \in [PollIds -> Nat] /\ outlived' \in [PollIds -> [Users -> Nat]]
  BY <1>2, <1>3
<1>5. QED
  BY <1>1, <1>4 DEF MemoryInv, PollIds

LEMMA InitMemory == Init => MemoryInv
<1> SUFFICES ASSUME Init PROVE MemoryInv
  OBVIOUS
<1>1. /\ judged \in [PollIds -> Nat] /\ outlived \in [PollIds -> [Users -> Nat]]
  BY DEF Init
<1>2. ASSUME NEW p \in PollIds PROVE Remembered(p)
  <2>1. /\ poll[p].status = "none" /\ result[p]["yes"] = 0 /\ result[p]["no"] = 0
        /\ \A u \in Users : ~HasVoted(u, p) /\ outlived[p][u] = 0
    BY DEF Init, GovInit, NoPoll, NoVote, HasVoted, Choices
  <2>2. Decided(p) /\ \A u \in Users : Weighed(p, u)
    BY <2>1 DEF Decided, Decides, Weighed
  <2>3. QED
    BY <1>1, <2>2 DEF Remembered
<1>3. QED
  BY <1>1, <1>2 DEF MemoryInv

LEMMA MemoryInvHolds == Spec => [](TypeInv /\ MemoryInv)
<1>1. TypeInv /\ TypeInv' /\ VotesInv /\ MemoryInv /\ [Next]_vars => MemoryInv'
  BY MemoryInvStep
<1>2. QED
  BY <1>1, InitMemory, VotesInvHolds, PTL DEF Spec

\* Every variable of the pool keeps its type, for every number of users and all
\* amounts: no subtraction of the handlers' bookkeeping ever goes below zero.
THEOREM TypeCorrect == Spec => []TypeOK
<1>1. TypeInv /\ MemoryInv => TypeOK
  BY DEF TypeInv, MemoryInv, TypeOK
<1>2. QED
  BY <1>1, MemoryInvHolds, PTL

\* The status of every poll is what its votes, as they are, and its own quorum made it
\* when the votes last changed: passed exactly with more yes than no and, rounded down,
\* more than the quorum of the stakes of that moment (poll.rs, update_result).
THEOREM StatusFollowsVotesHolds == Spec => []StatusFollowsVotes
<1>1. MemoryInv => StatusFollowsVotes
  BY DEF MemoryInv, Remembered, Decided, Decides, StatusFollowsVotes
<1>2. QED
  BY <1>1, MemoryInvHolds, PTL

\* A vote on an open poll weighs what its caster has staked now, and what they took
\* away by force_exit or export since they cast it (account.rs, user.rs).
THEOREM VotesWeighStakesHolds == Spec => []VotesWeighStakes
<1>1. MemoryInv => VotesWeighStakes
  BY DEF MemoryInv, Remembered, Weighed, VotesWeighStakes
<1>2. QED
  BY <1>1, MemoryInvHolds, PTL
=============================================================================
