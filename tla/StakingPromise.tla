--------------------------- MODULE StakingPromise ---------------------------
(***************************************************************************)
(* What a reward pool promises about tokens, with no notion of time,       *)
(* volume, epochs, bonding or votes: stakes come out of their owner's      *)
(* purse and go back to it or to a successor pool, and rewards come out of *)
(* funds that were given, never out of stakes.  Only the admin of a sealed *)
(* pool can take the funds for anything else.                              *)
(***************************************************************************)
EXTENDS Integers

CONSTANTS
  Owners,
  OneToken,  \* rewards are of the staked kind: a reward can be staked
  Places     \* the other versions of the pool

VARIABLES
  purse,   \* tokens of the staked kind in each owner's hands
  stake,   \* tokens of each owner in the pool's custody
  funds,   \* reward tokens the pool may give away
  away,    \* tokens of each owner in the custody of the other versions
  given,   \* reward tokens given on behalf of each owner
  sealed   \* the pool was closed

promise == <<purse, stake, funds, away, given, sealed>>

PromiseInit ==
  /\ purse \in [Owners -> Nat]
  /\ stake = [o \in Owners |-> 0]
  /\ away \in [Places -> [Owners -> Nat]]
  /\ funds = 0
  /\ given = [o \in Owners |-> 0]
  /\ sealed = FALSE

Spendable(r) == IF OneToken THEN r ELSE 0

\* An owner stakes tokens, in an open pool only.
Stake(o) ==
  /\ ~sealed
  /\ \E a \in 0..purse[o] :
       /\ purse' = [purse EXCEPT ![o] = @ - a]
       /\ stake' = [stake EXCEPT ![o] = @ + a]
  /\ UNCHANGED <<funds, away, given, sealed>>

\* An owner gets stake back and a reward no larger than the funds, the reward
\* going to an account of the owner's choice.
Release(o, to) ==
  \E a \in 0..stake[o], r \in 0..funds :
    /\ stake' = [stake EXCEPT ![o] = @ - a]
    /\ funds' = funds - r
    /\ given' = [given EXCEPT ![o] = @ + r]
    /\ purse' = LET w == [purse EXCEPT ![o] = @ + a]
                IN [w EXCEPT ![to] = @ + Spendable(r)]
    /\ UNCHANGED <<away, sealed>>

\* Tokens sent to a sealed pool are not staked and do not come back; the sender
\* gets what is on record: the whole stake and a reward.
SendToSealed(o) ==
  /\ sealed
  /\ \E a \in 0..purse[o], r \in 0..(funds + Spendable(purse[o])) :
       /\ r <= funds + Spendable(a)
       /\ stake' = [stake EXCEPT ![o] = 0]
       /\ funds' = funds + Spendable(a) - r
       /\ given' = [given EXCEPT ![o] = @ + r]
       /\ purse' = [purse EXCEPT ![o] = @ - a + stake[o] + Spendable(r)]
  /\ UNCHANGED <<away, sealed>>

\* All of an owner's stake moves to another version of the pool, or from it.
MoveOut(o, c) ==
  /\ stake' = [stake EXCEPT ![o] = 0]
  /\ away' = [away EXCEPT ![c][o] = @ + stake[o]]
  /\ UNCHANGED <<purse, funds, given, sealed>>

MoveIn(o, c) ==
  /\ stake' = [stake EXCEPT ![o] = @ + away[c][o]]
  /\ away' = [away EXCEPT ![c][o] = 0]
  /\ UNCHANGED <<purse, funds, given, sealed>>

Fund ==
  /\ funds' > funds
  /\ UNCHANGED <<purse, stake, away, given, sealed>>

Seal ==
  /\ sealed' = TRUE
  /\ UNCHANGED <<purse, stake, funds, away, given>>

\* The admin takes the funds of a sealed pool; what is owed stays owed.
Confiscate ==
  /\ sealed
  /\ funds' < funds
  /\ UNCHANGED <<purse, stake, away, given, sealed>>

PromiseNext ==
  \/ \E o \in Owners : Stake(o) \/ SendToSealed(o)
  \/ \E o \in Owners, c \in Places : MoveOut(o, c) \/ MoveIn(o, c)
  \/ \E o, to \in Owners : Release(o, to)
  \/ Fund
  \/ Seal
  \/ Confiscate

PromiseSpec == PromiseInit /\ [][PromiseNext]_promise
=============================================================================
