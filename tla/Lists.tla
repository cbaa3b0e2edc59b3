-------------------------------- MODULE Lists --------------------------------
(***************************************************************************)
(* The loops of the contracts that go through a list and pass over some of *)
(* what they find.                                                         *)
(***************************************************************************)
EXTENDS Integers, Sequences

\* The list s without those of `out`, in the order of the list.
Without(s, out) ==
  LET kept[i \in 0..Len(s)] ==
        IF i = 0 THEN <<>>
        ELSE IF s[i] \in out THEN kept[i - 1]
        ELSE Append(kept[i - 1], s[i])
  IN kept[Len(s)]
=============================================================================
