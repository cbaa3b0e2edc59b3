------------------------------ MODULE MCFactory ------------------------------
(***************************************************************************)
(* Three versions of the factory for TLC.                                  *)
(***************************************************************************)
EXTENDS Factory, TLC

CONSTANTS v1, v2, v3   \* the versions
CONSTANTS ab, bc, ca   \* the pairs

Versions == {v1, v2, v3}
Swaps == {ab, bc, ca}
Alike == Permutations(Versions) \cup Permutations(Swaps)
=============================================================================
