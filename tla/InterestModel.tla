--------------------------- MODULE InterestModel ---------------------------
(***************************************************************************)
(* The jump-rate model of Sienna Lend (lend-shared, core/interest.rs):     *)
(* the rate borrowers pay per block as a function of how much of a market  *)
(* is lent out.  Past jump_threshold the slope changes.                    *)
(***************************************************************************)
EXTENDS Decimals

CONSTANTS BaseRate, Multiplier, JumpMultiplier, JumpThreshold,
          MaxBorrowRate   \* MAX_BORROW_RATE of the market

ASSUME InterestAssumption ==
  /\ BaseRate \in Nat /\ Multiplier \in Nat /\ JumpMultiplier \in Nat
  /\ JumpThreshold \in Nat /\ MaxBorrowRate \in Nat

\* utilization_rate returns: nothing is lent, or the market is worth something.
RateDefined(balance, borrows, reserves) ==
  borrows = 0 \/ balance + borrows > reserves

UtilizationRate(balance, borrows, reserves) ==
  IF borrows = 0 THEN 0 ELSE Ratio(borrows, balance + borrows - reserves)

\* JumpRateInterest::borrow_rate
JumpRate(util) ==
  IF util <= JumpThreshold THEN Product(util, Multiplier) + BaseRate
  ELSE Product(util - JumpThreshold, JumpMultiplier)
         + Product(JumpThreshold, Multiplier) + BaseRate

\* The rate the market applies: capped, so that a runaway model cannot stop it.
BorrowRate(balance, borrows, reserves) ==
  LET rate == JumpRate(UtilizationRate(balance, borrows, reserves))
  IN IF rate <= MaxBorrowRate THEN rate ELSE MaxBorrowRate
=============================================================================
