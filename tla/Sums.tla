-------------------------------- MODULE Sums --------------------------------
(***************************************************************************)
(* Totals the contracts keep beside the entries they total.                *)
(*                                                                         *)
(* A contract stores a running total (total.staked, PollResult.yes_votes,  *)
(* ...) and per-user entries, and never iterates over the entries: that    *)
(* the total is their sum is an invariant no line of code states.          *)
(* SumsTo states it without recursion: some sequence of partial sums,      *)
(* starting at 0 and growing by one entry at a time, ends at the total.    *)
(* Entries are indexed by 1..n.  Where the code does add up what it finds, *)
(* over the keys of a map or the places of a list, SumOver says so.        *)
(***************************************************************************)
EXTENDS Integers, Folds

IsPartialSum(s, f, n) ==
  /\ s[0] = 0
  /\ \A i \in 1..n : s[i] = s[i - 1] + f[i]
  /\ \A i, j \in 0..n : i <= j => s[i] <= s[j]

SumsTo(f, n, total) ==
  \E s \in [0..n -> 0..total] : IsPartialSum(s, f, n) /\ s[n] = total

SumOver(f, S) ==
  MapThenFoldSet(+, 0, LAMBDA x : f[x], LAMBDA T : CHOOSE x \in T : TRUE, S)

LeastOf(a, b) == IF a <= b THEN a ELSE b

\* Rust's saturating_sub on unsigned integers.
MinusOrZero(a, b) == IF a >= b THEN a - b ELSE 0
=============================================================================
