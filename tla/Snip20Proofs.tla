---------------------------- MODULE Snip20Proofs ----------------------------
(***************************************************************************)
(* The token's supply is accounted for, whatever messages it gets: first   *)
(* what the ledger's handlers do to the sum of the balances.               *)
(***************************************************************************)
EXTENDS Snip20, SumsProofs

\* Of the places of an address in a list, Max is the last.
LEMMA LastPlace ==
  ASSUME NEW n \in Nat, NEW T \in SUBSET (1..n), T # {}
  PROVE  Max(T) \in T /\ \A i \in T : Max(T) >= i
<1>1. \E x \in T : \A y \in T : x >= y
  BY GreatestBelow
<1>2. QED
  BY <1>1 DEF Max

\* What the list of initial balances sets and adds up: the supply is the sum of the
\* balances and of what later entries for the same address replaced.
LEMMA InitialSums ==
  /\ BalancesFrom(InitialBalances) \in [Holders -> Nat]
  /\ SupplyFrom(InitialBalances) \in Nat
  /\ Overwritten \in 0..SupplyFrom(InitialBalances)
  /\ SumsTo(BalancesFrom(InitialBalances), N, SupplyFrom(InitialBalances) - Overwritten)
<1> DEFINE list == InitialBalances
           D == DOMAIN list
           n == Len(list)
           f == [i \in D |-> list[i].amount]
           of == [i \in D |-> list[i].address]
           old == Replaced(list)
           new == D \ old
           b == BalancesFrom(list)
           own(h) == Places(list, h)
<1>1. /\ n \in Nat /\ D = 1..n /\ IsFiniteSet(D)
      /\ \A i \in D : list[i].address \in Holders /\ list[i].amount \in Nat
  <2> DEFINE S == [address: Holders, amount: 0..MaxUint]
  <2>1. list \in Seq(S) /\ MaxUint \in Nat
    BY LedgerAssumption
  <2>2. \A e \in S : e.address \in Holders /\ e.amount \in Nat
    BY <2>1
  <2> HIDE DEF S
  <2>3. n \in Nat /\ D = 1..n /\ \A i \in D : list[i] \in S
    BY <2>1, LenProperties, ElementOfSeq
  <2>4. IsFiniteSet(1..n)
    BY <2>3, 1 \in Int, n \in Int, FS_Interval
  <2>5. QED
    BY <2>2, <2>3, <2>4
<1>2. IsFiniteSet(Holders) /\ Holders = 1..N /\ N \in Nat
  BY LedgerAssumption, FS_Interval DEF Holders
<1>3. ASSUME NEW h \in Holders
      PROVE  /\ own(h) \in SUBSET D
             /\ own(h) # {} => /\ Max(own(h)) \in own(h)
                               /\ \A i \in own(h) : Max(own(h)) >= i
  <2>1. own(h) \in SUBSET D /\ own(h) \in SUBSET (1..n)
    BY <1>1 DEF Places
  <2> HIDE DEF list, own, n, D
  <2>2. QED
    BY <1>1, <2>1, LastPlace
<1>4. \A h \in Holders :
        /\ b[h] = IF own(h) = {} THEN 0 ELSE list[Max(own(h))].amount
        /\ b[h] \in Nat
  <2> SUFFICES ASSUME NEW h \in Holders
               PROVE  /\ b[h] = IF own(h) = {} THEN 0 ELSE list[Max(own(h))].amount
                      /\ b[h] \in Nat
    OBVIOUS
  <2>1. b[h] = IF own(h) = {} THEN 0 ELSE list[Max(own(h))].amount
    BY DEF BalancesFrom
  <2>2. QED
    BY <1>1, <1>3, <2>1
<1>5. b \in [Holders -> Nat]
  BY <1>4 DEF BalancesFrom
<1>6. \A i \in D : f[i] \in Nat /\ f[i] \in Int /\ of[i] \in Holders
  BY <1>1
<1>7. old \in SUBSET D /\ new \in SUBSET D /\ old \cap new = {} /\ old \cup new = D
  BY DEF Replaced
<1>8. SupplyFrom(list) = SumOver(f, D) /\ Overwritten = SumOver(f, old)
  BY DEF SupplyFrom, Overwritten, AddedUp
\* An address has one place that nothing replaces, if it has any: the last.
<1>9. ASSUME NEW h \in Holders PROVE b[h] = SumOver(f, Group(of, new, h))
  <2> DEFINE G == Group(of, new, h)
             m == Max(own(h))
  <2>1. \A i \in D : i \in own(h) <=> list[i].address = h
    BY DEF Places
  <2>2. G = {i \in new : list[i].address = h}
    BY DEF Group
  <2>3. CASE own(h) = {}
    <3>1. G = {}
      BY <1>7, <2>1, <2>2, <2>3
    <3>2. SumOver(f, {}) = 0
      BY <1>1, SumOverRecurs
    <3>3. QED
      BY <1>4, <2>3, <3>1, <3>2
  <2>4. CASE own(h) # {}
    <3>1. m \in D /\ list[m].address = h /\ \A i \in own(h) : m >= i
      BY <1>3, <2>1, <2>4
    <3>2. m \in new
      <4>1. ASSUME m \in old PROVE FALSE
        <5>1. PICK j \in D : m < j /\ list[m].address = list[j].address
          BY <4>1 DEF Replaced
        <5>2. j \in own(h)
          BY <2>1, <3>1, <5>1
        <5>3. m >= j /\ m \in Nat /\ j \in Nat
          BY <1>1, <3>1, <5>2
        <5>4. QED
          BY <5>1, <5>3
      <4>2. QED
        BY <3>1, <4>1
    <3>3. ASSUME NEW i \in G PROVE i = m
      <4>1. i \in D /\ i \notin old /\ list[i].address = h
        BY <1>7, <2>2
      <4>2. ~(i < m)
        BY <3>1, <4>1 DEF Replaced
      <4>3. i \in own(h)
        BY <2>1, <4>1
      <4>4. m >= i /\ m \in Nat /\ i \in Nat
        BY <1>1, <3>1, <4>1, <4>3
      <4>5. QED
        BY <4>2, <4>4
    <3>4. G = {m}
      BY <2>2, <3>1, <3>2, <3>3
    <3>5. SumOver(f, {m}) = f[m]
      <4>1. IsFiniteSet({m}) /\ {m} \ {m} = {}
        BY FS_Singleton
      <4>2. \A x \in {m} : f[x] \in Int
        BY <1>6, <3>1
      <4> DEFINE one == {m}
      <4>3. m \in one
        OBVIOUS
      <4> HIDE DEF one, m, f
      <4>4. SumOver(f, one) = f[m] + SumOver(f, one \ {m})
        BY <4>1, <4>2, <4>3, SumWithout DEF one
      <4>5. SumOver(f, {}) = 0
        BY <1>1, SumOverRecurs
      <4>6. f[m] \in Int
        BY <4>2
      <4>7. QED
        BY <4>1, <4>4, <4>5, <4>6 DEF one
    <3>6. f[m] = list[m].amount
      BY <3>1
    <3>7. QED
      BY <1>4, <2>4, <3>4, <3>5, <3>6
  <2>5. QED
    BY <2>3, <2>4
<1>10. IsFiniteSet(new) /\ \A i \in new : f[i] \in Int /\ of[i] \in Holders
  BY <1>1, <1>6, <1>7, FS_Subset
<1> HIDE DEF list, D, n, f, of, old, new, b, own
<1>11. SumOver(b, Holders) = SumOver(f, new)
  <2>1. IsFiniteSet(new) /\ IsFiniteSet(Holders)
    BY <1>2, <1>10
  <2>2. \A i \in new : f[i] \in Int
    BY <1>10
  <2>3. \A i \in new : of[i] \in Holders
    BY <1>10
  <2>4. \A h \in Holders : b[h] = SumOver(f, Group(of, new, h))
    BY <1>9
  <2>5. QED
    BY <2>1, <2>2, <2>3, <2>4, SumByGroups
<1>12. SumOver(f, D) = SumOver(f, old) + SumOver(f, new)
  <2>1. \A i \in D : f[i] \in Int
    BY <1>6
  <2>2. IsFiniteSet(D) /\ old \in SUBSET D /\ new \in SUBSET D /\ old \cap new = {}
    BY <1>1, <1>7
  <2>3. SumOver(f, old \cup new) = SumOver(f, old) + SumOver(f, new)
    BY <2>1, <2>2, SumOfUnion
  <2>4. QED
    BY <1>7, <2>3
<1>13. /\ SumOver(f, D) \in Nat /\ SumOver(f, old) \in Nat /\ SumOver(f, new) \in Nat
       /\ SumOver(f, old) <= SumOver(f, D)
  <2>1. \A i \in D : f[i] \in Nat
    BY <1>6
  <2>2. QED
    BY <1>1, <1>7, <2>1, SumOfPart
<1>14. SumOver(f, new) = SupplyFrom(list) - Overwritten
  BY <1>8, <1>12, <1>13
<1>15. SumsTo(b, N, SumOver(b, Holders))
  <2>1. b \in [1..N -> Nat] /\ N \in Nat
    BY <1>2, <1>5
  <2>2. SumsTo(b, N, SumOver(b, 1..N))
    BY <2>1, SumsToItsSum
  <2>3. QED
    BY <1>2, <2>2
<1>16. SumsTo(b, N, SupplyFrom(list) - Overwritten)
  BY <1>11, <1>14, <1>15
<1>17. /\ SupplyFrom(list) \in Nat /\ Overwritten \in 0..SupplyFrom(list)
  BY <1>8, <1>13
<1>18. QED
  BY <1>5, <1>16, <1>17 DEF b, list

\* The invariant of both: types, and the sum the supply stands for.
LEMMA InitAccounted == LedgerInit => SupplyIsAccounted
<1> SUFFICES ASSUME LedgerInit PROVE SupplyIsAccounted
  OBVIOUS
<1>1. LedgerTypeOK
  <2>1. total_supply \in 0..MaxUint
    BY LedgerAssumption, InitialSums DEF LedgerInit
  <2>2. balances \in [Holders -> Nat]
    BY InitialSums DEF LedgerInit
  <2>3. minters \subseteq Holders /\ token_admin \in Holders /\ stopped \in BOOLEAN
    BY LedgerAssumption DEF LedgerInit
  <2>4. QED
    BY <2>1, <2>2, <2>3 DEF LedgerTypeOK
<1>2. QED
  BY <1>1, InitialSums DEF LedgerInit, SupplyIsAccounted

\* A transfer, to oneself too, moves a part of the sum.
LEMMA MoveTokensAccounted ==
  ASSUME NEW from \in Holders, NEW to \in Holders, NEW n \in Nat,
         SupplyIsAccounted, MoveTokens(from, to, n)
  PROVE  SupplyIsAccounted'
<1> DEFINE sum == total_supply - Overwritten
           left == [balances EXCEPT ![from] = @ - n]
           moved == [left EXCEPT ![to] = @ + n]
<1>1. /\ balances \in [1..N -> Nat] /\ total_supply \in 0..MaxUint
      /\ sum \in Nat /\ SumsTo(balances, N, sum)
      /\ N \in Nat /\ MaxUint \in Nat /\ Overwritten \in Nat
  BY LedgerAssumption, InitialSums DEF SupplyIsAccounted, LedgerTypeOK, Holders
<1>2. n <= balances[from] /\ balances' = moved /\ from \in 1..N /\ to \in 1..N
  BY DEF MoveTokens, CanTransfer, Transferred, Holders
<1>3. /\ left \in [1..N -> Nat] /\ left[from] = balances[from] + (0 - n)
      /\ \A i \in 1..N : i # from => left[i] = balances[i]
  BY <1>1, <1>2
<1>4. moved \in [1..N -> Nat] /\ moved[to] = left[to] + n
      /\ \A i \in 1..N : i # to => moved[i] = left[i]
  BY <1>2, <1>3
<1> HIDE DEF left, moved
<1> HIDE DEF sum
<1>5. PICK rest \in Nat : rest = sum + (0 - n) /\ SumsTo(left, N, rest)
  <2>1. /\ N \in Nat /\ balances \in [1..N -> Nat] /\ left \in [1..N -> Nat] /\ sum \in Nat
        /\ from \in 1..N /\ 0 - n \in Int /\ SumsTo(balances, N, sum)
    <3>1. 0 - n \in Int
      BY n \in Nat
    <3>2. N \in Nat /\ balances \in [1..N -> Nat] /\ sum \in Nat /\ SumsTo(balances, N, sum)
      BY ONLY <1>1
    <3>3. left \in [1..N -> Nat]
      BY ONLY <1>3
    <3>4. from \in 1..N
      BY ONLY <1>2
    <3>5. QED
      BY ONLY <3>1, <3>2, <3>3, <3>4
  <2>2. left[from] = balances[from] + (0 - n)
    BY <1>3
  <2>3. \A i \in 1..N : i # from => left[i] = balances[i]
    BY <1>3
  <2>4. sum + (0 - n) \in Nat /\ SumsTo(left, N, sum + (0 - n))
    BY <2>1, <2>2, <2>3, ChangeOfOneEntry
  <2>5. QED
    BY <2>4
<1>6. SumsTo(moved, N, rest + n)
  <2>1. /\ N \in Nat /\ left \in [1..N -> Nat] /\ moved \in [1..N -> Nat] /\ rest \in Nat
        /\ to \in 1..N /\ n \in Int /\ SumsTo(left, N, rest)
    <3>1. n \in Int
      OBVIOUS
    <3>2. QED
      BY <1>1, <1>2, <1>3, <1>4, <1>5, <3>1
  <2>2. moved[to] = left[to] + n
    BY <1>4
  <2>3. \A i \in 1..N : i # to => moved[i] = left[i]
    BY <1>4
  <2>4. QED
    BY <2>1, <2>2, <2>3, ChangeOfOneEntry
<1>7. rest + n = sum
  BY <1>1, <1>5
<1>8. SumsTo(balances', N, sum)
  BY <1>2, <1>6, <1>7
<1>9. UNCHANGED <<total_supply, minters, token_admin, stopped>>
  BY DEF MoveTokens
<1>10. LedgerTypeOK'
  BY <1>2, <1>4, <1>9 DEF SupplyIsAccounted, LedgerTypeOK, Holders
<1>11. QED
  <2>1. Overwritten <= total_supply' /\ SumsTo(balances', N, total_supply' - Overwritten)
    BY <1>8, <1>9 DEF SupplyIsAccounted, sum
  <2>2. QED
    BY <1>10, <2>1 DEF SupplyIsAccounted

\* A mint adds the same to a balance and to the supply.
LEMMA MintTokensAccounted ==
  ASSUME NEW sender, NEW to \in Holders, NEW n \in Nat,
         SupplyIsAccounted, MintTokens(sender, to, n)
  PROVE  SupplyIsAccounted'
<1> DEFINE sum == total_supply - Overwritten
<1>1. /\ balances \in [1..N -> Nat] /\ total_supply \in 0..MaxUint
      /\ sum \in Nat /\ SumsTo(balances, N, sum) /\ Overwritten <= total_supply
      /\ N \in Nat /\ MaxUint \in Nat /\ Overwritten \in Nat
  BY LedgerAssumption, InitialSums DEF SupplyIsAccounted, LedgerTypeOK, Holders
<1>2. /\ total_supply + n <= MaxUint /\ total_supply' = total_supply + n
      /\ balances' = [balances EXCEPT ![to] = @ + n] /\ to \in 1..N
  BY DEF MintTokens, CanMint, Holders
<1>3. /\ balances' \in [1..N -> Nat] /\ balances'[to] = balances[to] + n
      /\ \A i \in 1..N : i # to => balances'[i] = balances[i]
  BY <1>1, <1>2
<1>4. SumsTo(balances', N, sum + n)
  <2> HIDE DEF sum
  <2>1. /\ N \in Nat /\ balances \in [1..N -> Nat] /\ balances' \in [1..N -> Nat]
        /\ sum \in Nat /\ to \in 1..N /\ n \in Int /\ SumsTo(balances, N, sum)
    BY <1>1, <1>2, <1>3
  <2>2. balances'[to] = balances[to] + n
    BY <1>3
  <2>3. \A i \in 1..N : i # to => balances'[i] = balances[i]
    BY <1>3
  <2>4. QED
    BY <2>1, <2>2, <2>3, ChangeOfOneEntry
<1>5. sum + n = total_supply' - Overwritten /\ Overwritten <= total_supply'
  BY <1>1, <1>2
<1>6. UNCHANGED <<minters, token_admin, stopped>>
  BY DEF MintTokens
<1>7. LedgerTypeOK'
  BY <1>1, <1>2, <1>3, <1>6 DEF SupplyIsAccounted, LedgerTypeOK, Holders
<1>8. QED
  BY <1>4, <1>5, <1>7 DEF SupplyIsAccounted

\* A burn takes the same off both; the supply stays above what duplicates added,
\* since the balance burned is part of the rest.
LEMMA BurnTokensAccounted ==
  ASSUME NEW owner \in Holders, NEW n \in Nat, SupplyIsAccounted, BurnTokens(owner, n)
  PROVE  SupplyIsAccounted'
<1> DEFINE sum == total_supply - Overwritten
<1>1. /\ balances \in [1..N -> Nat] /\ total_supply \in 0..MaxUint
      /\ sum \in Nat /\ SumsTo(balances, N, sum) /\ Overwritten <= total_supply
      /\ N \in Nat /\ MaxUint \in Nat /\ Overwritten \in Nat
  BY LedgerAssumption, InitialSums DEF SupplyIsAccounted, LedgerTypeOK, Holders
<1>2. /\ n <= balances[owner] /\ total_supply' = total_supply - n
      /\ n <= total_supply
      /\ balances' = [balances EXCEPT ![owner] = @ - n] /\ owner \in 1..N
  BY DEF BurnTokens, Holders
<1>3. /\ balances' \in [1..N -> Nat] /\ balances'[owner] = balances[owner] + (0 - n)
      /\ \A i \in 1..N : i # owner => balances'[i] = balances[i]
  BY <1>1, <1>2
<1>4. 0 - n \in Int
  OBVIOUS
<1>5. sum + (0 - n) \in Nat /\ SumsTo(balances', N, sum + (0 - n))
  <2> HIDE DEF sum
  <2>1. /\ N \in Nat /\ balances \in [1..N -> Nat] /\ balances' \in [1..N -> Nat]
        /\ sum \in Nat /\ owner \in 1..N /\ 0 - n \in Int /\ SumsTo(balances, N, sum)
    BY <1>1, <1>2, <1>3, <1>4
  <2>2. balances'[owner] = balances[owner] + (0 - n)
    BY <1>3
  <2>3. \A i \in 1..N : i # owner => balances'[i] = balances[i]
    BY <1>3
  <2>4. QED
    BY <2>1, <2>2, <2>3, ChangeOfOneEntry
<1>6. sum + (0 - n) = total_supply' - Overwritten /\ Overwritten <= total_supply'
  BY <1>1, <1>2, <1>5
<1>7. UNCHANGED <<minters, token_admin, stopped>>
  BY DEF BurnTokens
<1>8. LedgerTypeOK'
  BY <1>1, <1>2, <1>3, <1>7 DEF SupplyIsAccounted, LedgerTypeOK, Holders
<1>9. QED
  BY <1>5, <1>6, <1>8 DEF SupplyIsAccounted

\* The minters, the admin and the status are no part of it.
LEMMA AdministrationAccounted ==
  ASSUME SupplyIsAccounted,
         UNCHANGED <<balances, total_supply>>,
         minters' \subseteq Holders, token_admin' \in Holders, stopped' \in BOOLEAN
  PROVE  SupplyIsAccounted'
BY DEF SupplyIsAccounted, LedgerTypeOK

-----------------------------------------------------------------------------
\* Every step is one of the ledger's effects, or leaves balances and supply alone.
LEMMA StepAccounted == SupplyIsAccounted /\ [Next]_vars => SupplyIsAccounted'
<1> SUFFICES ASSUME SupplyIsAccounted, [Next]_vars PROVE SupplyIsAccounted'
  OBVIOUS
<1>0. Amounts \subseteq Nat /\ Approvals \subseteq Holders \X Holders
  BY Snip20Assumption
<1>1. minters \subseteq Holders /\ token_admin \in Holders /\ stopped \in BOOLEAN
  BY DEF SupplyIsAccounted, LedgerTypeOK
<1>2. CASE UNCHANGED ledgerVars
  BY <1>1, <1>2, AdministrationAccounted DEF ledgerVars
<1>3. ASSUME NEW owner \in Holders, NEW sender, NEW recipient \in Holders, NEW n \in Amounts,
             Move(owner, sender, recipient, n)
      PROVE  SupplyIsAccounted'
  <2>1. MoveTokens(owner, recipient, n) /\ n \in Nat
    BY <1>0, <1>3 DEF Move
  <2>2. QED
    BY <2>1, MoveTokensAccounted
<1>4. ASSUME NEW sender \in Holders, NEW h \in Holders, NEW n \in Amounts,
             Transfer(sender, h, n) \/ Send(sender, h, n)
      PROVE  SupplyIsAccounted'
  BY <1>3, <1>4 DEF Transfer, Send
<1>5. ASSUME NEW sender \in Holders, NEW h \in Holders, NEW n \in Amounts, Mint(sender, h, n)
      PROVE  SupplyIsAccounted'
  <2>1. MintTokens(sender, h, n) /\ n \in Nat
    BY <1>0, <1>5 DEF Mint
  <2>2. QED
    BY <2>1, MintTokensAccounted
<1>6. ASSUME NEW owner \in Holders, NEW n \in Amounts,
             Burn(owner, n) \/ \E spender : BurnFrom(spender, owner, n)
      PROVE  SupplyIsAccounted'
  <2>1. BurnTokens(owner, n) /\ n \in Nat
    BY <1>0, <1>6 DEF Burn, BurnFrom
  <2>2. QED
    BY <2>1, BurnTokensAccounted
<1>7. ASSUME NEW sender \in Holders, Administer(sender)
      PROVE  SupplyIsAccounted'
  <2>1. /\ UNCHANGED <<balances, total_supply>>
        /\ minters' \subseteq Holders /\ token_admin' \in Holders /\ stopped' \in BOOLEAN
    BY <1>1, <1>7, Snip20Assumption
       DEF Administer, SetMinters, AddMinters, RemoveMinters, ChangeTokenAdmin, SetContractStatus
  <2>2. QED
    BY <2>1, AdministrationAccounted
<1>8. ASSUME NEW p \in Approvals, NEW n \in Amounts, NEW h \in Holders,
             TransferFrom(p[2], p[1], h, n) \/ SendFrom(p[2], p[1], h, n)
      PROVE  SupplyIsAccounted'
  <2>1. p[1] \in Holders
    BY <1>0
  <2>2. QED
    BY <1>3, <1>8, <2>1 DEF TransferFrom, SendFrom
<1>9. ASSUME NEW p \in Approvals, NEW n \in Amounts, BurnFrom(p[2], p[1], n)
      PROVE  SupplyIsAccounted'
  <2>1. p[1] \in Holders
    BY <1>0
  <2>2. QED
    BY <1>6, <1>9, <2>1
<1>10. ASSUME NEW owner, NEW spender, NEW n, NEW e,
              IncreaseAllowance(owner, spender, n, e) \/ DecreaseAllowance(owner, spender, n, e)
       PROVE  SupplyIsAccounted'
  BY <1>2, <1>10 DEF IncreaseAllowance, DecreaseAllowance
<1>11. CASE \E sender \in Contracts : RegisterReceive(sender)
  BY <1>2, <1>11 DEF RegisterReceive
<1>12. CASE Tick
  BY <1>2, <1>12 DEF Tick
<1>13. CASE UNCHANGED vars
  BY <1>2, <1>13 DEF vars
<1>14. QED
  BY <1>4, <1>5, <1>6, <1>7, <1>8, <1>9, <1>10, <1>11, <1>12, <1>13 DEF Next

\* What accounts hold always adds up to the supply, less what duplicates in the
\* list of initial balances added to it (contracts/tge/snip20-sienna).
THEOREM SupplyIsAccountedHolds == Spec => []SupplyIsAccounted
<1>1. Init => SupplyIsAccounted
  BY InitAccounted DEF Init
<1>2. QED
  BY <1>1, StepAccounted, PTL DEF Spec

-----------------------------------------------------------------------------
(* History.                                                                *)

\* A transfer that was not counted yet adds its amount to the total.
LEMMA TotalGrows ==
  ASSUME NEW txs, IsFiniteSet(txs), \A x \in txs : x.amount \in Nat,
         NEW tx, tx \notin txs, tx.amount \in Nat
  PROVE  TotalOf(txs) \in Nat /\ TotalOf(txs \cup {tx}) = TotalOf(txs) + tx.amount
<1> DEFINE more == txs \cup {tx}
           f == [x \in txs |-> x.amount]
           g == [x \in more |-> x.amount]
<1>1. IsFiniteSet(more) /\ tx \in more /\ more \ {tx} = txs
  BY FS_AddElement
<1>2. \A x \in more : g[x] \in Int
  OBVIOUS
<1>3. \A x \in txs : f[x] \in Int /\ g[x] = f[x]
  OBVIOUS
<1>4. \A x \in txs : f[x] \in Int /\ f[x] >= 0
  OBVIOUS
<1>5. g[tx] = tx.amount
  OBVIOUS
<1>6. TotalOf(txs) = SumOver(f, txs) /\ TotalOf(more) = SumOver(g, more)
  BY DEF TotalOf
<1> HIDE DEF f, g, more
<1>7. SumOver(g, more) = g[tx] + SumOver(g, more \ {tx})
  BY <1>1, <1>2, SumWithout
<1>8. SumOver(g, txs) = SumOver(f, txs)
  BY <1>3, SameSum
<1>9. SumOver(f, txs) \in Nat
  BY <1>4, SumType
<1>10. TotalOf(more) = tx.amount + TotalOf(txs) /\ TotalOf(txs) \in Nat
  BY <1>1, <1>5, <1>6, <1>7, <1>8, <1>9
<1>11. QED
  BY <1>10 DEF more

\* What h is paid and pays in the transfers of a set.
LEMMA HistoryGrows ==
  ASSUME NEW txs \in SUBSET Tx, IsFiniteSet(txs), NEW tx \in Tx, tx \notin txs, NEW h
  PROVE  /\ Received(h, txs) \in Nat /\ Given(h, txs) \in Nat
         /\ Received(h, txs \cup {tx}) = Received(h, txs) + IF tx.receiver = h THEN tx.amount ELSE 0
         /\ Given(h, txs \cup {tx}) = Given(h, txs) + IF tx.from = h THEN tx.amount ELSE 0
<1> DEFINE In(T) == {x \in T : x.receiver = h}
           Out(T) == {x \in T : x.from = h}
<1>1. \A x \in Tx : x.amount \in Nat
  BY DEF Tx
<1>2. /\ IsFiniteSet(In(txs)) /\ IsFiniteSet(Out(txs))
      /\ tx \notin In(txs) /\ tx \notin Out(txs) /\ tx.amount \in Nat
      /\ \A x \in In(txs) : x.amount \in Nat
      /\ \A x \in Out(txs) : x.amount \in Nat
  <2>1. In(txs) \in SUBSET txs /\ Out(txs) \in SUBSET txs
    OBVIOUS
  <2>2. QED
    BY <1>1, <2>1, FS_Subset
<1>3. /\ In(txs \cup {tx}) = IF tx.receiver = h THEN In(txs) \cup {tx} ELSE In(txs)
      /\ Out(txs \cup {tx}) = IF tx.from = h THEN Out(txs) \cup {tx} ELSE Out(txs)
  OBVIOUS
<1>4. \A T : Received(h, T) = TotalOf(In(T)) /\ Given(h, T) = TotalOf(Out(T))
  BY DEF Received, Given
<1> HIDE DEF In, Out
<1>5. TotalOf(In(txs)) \in Nat /\ TotalOf(In(txs) \cup {tx}) = TotalOf(In(txs)) + tx.amount
  BY <1>2, TotalGrows
<1>6. TotalOf(Out(txs)) \in Nat /\ TotalOf(Out(txs) \cup {tx}) = TotalOf(Out(txs)) + tx.amount
  BY <1>2, TotalGrows
<1>7. Received(h, txs \cup {tx}) = Received(h, txs) + IF tx.receiver = h THEN tx.amount ELSE 0
  BY <1>3, <1>4, <1>5
<1>8. Given(h, txs \cup {tx}) = Given(h, txs) + IF tx.from = h THEN tx.amount ELSE 0
  BY <1>3, <1>4, <1>6
<1>9. QED
  BY <1>4, <1>5, <1>6, <1>7, <1>8

\* Pages of any size neither skip a transfer nor show one that is not there.
LEMMA PagesShowAll ==
  ASSUME NEW h, NEW ps \in Nat \ {0}, transfers[h] \in Seq(Tx)
  PROVE  Seen(h, ps) = ToSet(transfers[h])
<1> DEFINE s == transfers[h]
           n == Len(s)
           newest == Reverse(s)
           first(p) == p * ps + 1
           last(p) == LeastOf(first(p) + ps - 1, n)
           page(p) == GetTransfers(h, p, ps)
<1>1. n \in Nat /\ DOMAIN s = 1..n /\ DOMAIN newest = 1..n
      /\ \A i \in 1..n : newest[i] = s[(n - i) + 1] /\ s[i] \in Tx
  BY LenProperties, ElementOfSeq DEF Reverse
<1>2. newest \in [1..n -> Tx] /\ Len(newest) = n
  <2>1. newest \in [1..n -> Tx]
    <3>1. \A i \in 1..n : (n - i) + 1 \in 1..n
      BY <1>1
    <3>2. QED
      BY <1>1, <3>1 DEF Reverse
  <2>2. newest \in Seq(Tx)
    BY <1>1, <2>1
  <2>3. QED
    BY <1>1, <2>1, <2>2, LenProperties
<1>3. \A p : page(p) = SubSeq(newest, first(p), last(p))
  BY <1>2 DEF GetTransfers
<1>4. \A p \in Nat : first(p) \in Nat /\ first(p) >= 1 /\ last(p) \in Int /\ last(p) <= n
  <2> SUFFICES ASSUME NEW p \in Nat
               PROVE first(p) \in Nat /\ first(p) >= 1 /\ last(p) \in Int /\ last(p) <= n
    OBVIOUS
  <2>1. p * ps \in Nat
    OBVIOUS
  <2>2. QED
    BY <1>1, <2>1 DEF LeastOf
<1> HIDE DEF newest, first, last, page
<1>5. ASSUME NEW p \in Nat, NEW x
      PROVE  x \in ToSet(page(p)) <=> \E i \in first(p)..last(p) : x = newest[i]
  <2>1. /\ first(p) \in Int /\ last(p) \in Int /\ first(p) >= 1 /\ last(p) <= n
        /\ page(p) = SubSeq(newest, first(p), last(p))
    <3>1. first(p) \in Nat /\ first(p) >= 1 /\ last(p) \in Int /\ last(p) <= n
      BY <1>4
    <3>2. page(p) = SubSeq(newest, first(p), last(p))
      BY <1>3
    <3>3. QED
      BY <3>1, <3>2
  <2>2. PICK a, b \in Int : a = first(p) /\ b = last(p)
    BY <2>1
  <2>3. \A i \in a..b : newest[i] \in Tx
    <3>1. \A i \in a..b : i \in 1..n
      BY <1>1, <2>1, <2>2
    <3>2. QED
      BY <1>2, <3>1
  <2>4. /\ SubSeq(newest, a, b) \in Seq(Tx)
        /\ Len(SubSeq(newest, a, b)) = IF a <= b THEN b - a + 1 ELSE 0
        /\ \A i \in 1..(b - a + 1) : SubSeq(newest, a, b)[i] = newest[a + i - 1]
    BY <2>3, SubSeqProperties
  <2>5. PICK l \in Nat : l = Len(page(p)) /\ l = IF a <= b THEN b - a + 1 ELSE 0
    BY <2>1, <2>2, <2>4, LenProperties
  <2>6. DOMAIN page(p) = 1..l
    BY <2>1, <2>2, <2>4, <2>5, LenProperties
  <2>7. \A k \in 1..l : page(p)[k] = newest[a + k - 1]
    BY <2>1, <2>2, <2>4, <2>5
  <2>8. ASSUME NEW i \in a..b PROVE \E k \in 1..l : page(p)[k] = newest[i]
    <3>1. PICK k \in 1..l : a + k - 1 = i
      <4>1. i - a + 1 \in 1..l /\ a + (i - a + 1) - 1 = i
        BY <2>5
      <4>2. QED
        BY <4>1
    <3>2. QED
      BY <2>7, <3>1
  <2>9. ASSUME NEW k \in 1..l PROVE \E i \in a..b : page(p)[k] = newest[i]
    <3>1. a + k - 1 \in a..b
      BY <2>5
    <3>2. QED
      BY <2>7, <3>1
  <2>10. x \in ToSet(page(p)) <=> \E k \in 1..l : x = page(p)[k]
    BY <2>6 DEF ToSet
  <2>11. QED
    BY <2>2, <2>8, <2>9, <2>10
<1>6. ASSUME NEW x \in Seen(h, ps) PROVE x \in ToSet(s)
  <2>1. PICK p \in 0..n : x \in ToSet(page(p))
    BY DEF Seen, page
  <2>2. p \in Nat
    BY <1>1, <2>1
  <2>3. PICK i \in first(p)..last(p) : x = newest[i]
    BY <1>5, <2>1, <2>2
  <2>4. i \in 1..n
    <3>1. first(p) \in Nat /\ first(p) >= 1 /\ last(p) \in Int /\ last(p) <= n
      BY <1>4, <2>2
    <3>2. PICK a, b \in Int : a = first(p) /\ b = last(p)
      BY <3>1
    <3>3. i \in a..b /\ a >= 1 /\ b <= n
      BY <2>3, <3>1, <3>2
    <3>4. QED
      BY <1>1, <3>2, <3>3
  <2>5. (n - i) + 1 \in 1..n /\ x = s[(n - i) + 1]
    BY <1>1, <2>3, <2>4
  <2>6. QED
    BY <1>1, <2>5 DEF ToSet
<1>7. ASSUME NEW x \in ToSet(s) PROVE x \in Seen(h, ps)
  <2>1. PICK k \in 1..n : x = s[k]
    BY <1>1 DEF ToSet
  <2>2. PICK i \in 1..n : k = (n - i) + 1
    <3>1. (n - k) + 1 \in 1..n /\ k = (n - ((n - k) + 1)) + 1
      BY <1>1
    <3>2. QED
      BY <3>1
  <2>3. x = newest[i] /\ i \in Nat /\ i >= 1 /\ i <= n
    BY <1>1, <2>1, <2>2
  <2>4. PICK j \in Nat : i = j + 1
    <3>1. i - 1 \in Nat /\ i = (i - 1) + 1
      BY <2>3
    <3>2. QED
      BY <3>1
  <2>5. PICK p \in Nat : p * ps <= j /\ j < p * ps + ps
    <3>1. j \div ps \in Nat /\ (j \div ps) * ps <= j /\ j < (j \div ps) * ps + ps
      BY <2>4, QuotientBounds
    <3>2. QED
      BY <3>1
  <2>6. p \in 0..n
    <3>1. p <= p * ps
      BY Z3
    <3>2. PICK q \in Nat : q = p * ps
      OBVIOUS
    <3>3. p <= q /\ q <= j
      BY <2>5, <3>1, <3>2
    <3>4. QED
      BY <1>1, <2>3, <2>4, <3>3
  <2>7. i \in first(p)..last(p)
    <3>1. PICK q \in Nat : q = p * ps
      OBVIOUS
    <3>2. first(p) = q + 1 /\ last(p) = IF (q + 1) + ps - 1 <= n THEN (q + 1) + ps - 1 ELSE n
      BY <3>1 DEF first, last, LeastOf
    <3>3. QED
      BY <1>1, <2>3, <2>4, <2>5, <3>1, <3>2
  <2>8. x \in ToSet(page(p))
    BY <1>5, <2>3, <2>7
  <2>9. QED
    BY <2>6, <2>8 DEF Seen, page
<1>8. QED
  BY <1>6, <1>7


\* Every history has what it had and the new transfer, where it belongs.
LEMMA AppendedFacts ==
  ASSUME NEW store \in [Holders -> Seq(Tx)], NEW tx \in Tx, NEW h \in Holders
  PROVE  /\ Appended(store, tx, h) \in [Holders -> Seq(Tx)]
         /\ \A k \in Holders : ToSet(Appended(store, tx, h)[k]) =
                               IF k = h THEN ToSet(store[k]) \cup {tx} ELSE ToSet(store[k])
<1> DEFINE t == Append(store[h], tx)
           n == Len(store[h])
<1>1. /\ t \in Seq(Tx) /\ Len(t) = n + 1 /\ n \in Nat
      /\ \A i \in 1..n : t[i] = store[h][i]
      /\ t[n + 1] = tx /\ DOMAIN t = 1..(n + 1) /\ DOMAIN store[h] = 1..n
  <2>1. store[h] \in Seq(Tx)
    OBVIOUS
  <2>2. t \in Seq(Tx) /\ Len(t) = n + 1 /\ n \in Nat
        /\ \A i \in 1..n : t[i] = store[h][i]
        /\ t[n + 1] = tx
    BY <2>1, AppendProperties, LenProperties
  <2>3. DOMAIN t = 1..Len(t) /\ DOMAIN store[h] = 1..n
    BY <2>1, <2>2, LenProperties
  <2>4. QED
    BY <2>2, <2>3
<1>2. Appended(store, tx, h) = [store EXCEPT ![h] = t]
  BY DEF Appended
<1>3. ToSet(t) = ToSet(store[h]) \cup {tx}
  <2> HIDE DEF t
  <2>1. \A i \in 1..(n + 1) : i \in 1..n \/ i = n + 1
    BY <1>1
  <2>2. n + 1 \in 1..(n + 1) /\ \A i \in 1..n : i \in 1..(n + 1)
    BY <1>1
  <2>3. QED
    BY <1>1, <2>1, <2>2 DEF ToSet
<1> HIDE DEF t
<1>4. Appended(store, tx, h) \in [Holders -> Seq(Tx)]
  BY <1>1, <1>2
<1>5. \A k \in Holders : Appended(store, tx, h)[k] = IF k = h THEN t ELSE store[k]
  BY <1>2
<1>6. QED
  BY <1>3, <1>4, <1>5

\* The step enters tx, with the next number, in the histories of all concerned.
Recorded(tx, owner, sender, receiver, n) ==
  /\ tx \in Tx
  /\ tx.id = tx_count + 1 /\ tx.from = owner /\ tx.receiver = receiver /\ tx.amount = n
  /\ transfers' \in [Holders -> Seq(Tx)]
  /\ tx_count' = tx_count + 1 /\ tx_count' \in 0..MaxTx
  /\ \A h \in Holders :
       ToSet(transfers'[h]) = IF h \in {owner, sender, receiver}
                              THEN ToSet(transfers[h]) \cup {tx} ELSE ToSet(transfers[h])

LEMMA StoreTransferFacts ==
  ASSUME NEW owner \in Holders, NEW sender \in Holders, NEW receiver \in Holders,
         NEW n \in Nat, TypeOK, StoreTransfer(owner, sender, receiver, n)
  PROVE  \E tx : Recorded(tx, owner, sender, receiver, n)
<1> DEFINE tx == [id |-> tx_count + 1, from |-> owner, sender |-> sender,
                  receiver |-> receiver, amount |-> n]
           first == IF tx.from # tx.sender THEN Appended(transfers, tx, tx.from) ELSE transfers
           second == Appended(first, tx, tx.sender)
           third == Appended(second, tx, tx.receiver)
<1>1. /\ tx_count < MaxTx /\ tx_count' = tx_count + 1 /\ tx_count \in 0..MaxTx
      /\ MaxTx \in Nat /\ transfers \in [Holders -> Seq(Tx)]
  BY Snip20Assumption DEF StoreTransfer, TypeOK
<1>2. tx \in Tx
  BY <1>1 DEF Tx
<1>3. tx.id = tx_count + 1 /\ tx.from = owner /\ tx.sender = sender
      /\ tx.receiver = receiver /\ tx.amount = n
  OBVIOUS
<1>4. transfers' = third
  BY DEF StoreTransfer, Stored
<1> HIDE DEF tx
<1>5. /\ first \in [Holders -> Seq(Tx)]
      /\ \A h \in Holders :
           ToSet(first[h]) = IF h = owner /\ owner # sender
                             THEN ToSet(transfers[h]) \cup {tx} ELSE ToSet(transfers[h])
  <2>1. CASE owner # sender
    <3>1. first = Appended(transfers, tx, owner) /\ transfers \in [Holders -> Seq(Tx)]
      BY <1>1, <1>3, <2>1
    <3> HIDE DEF first
    <3>2. /\ Appended(transfers, tx, owner) \in [Holders -> Seq(Tx)]
          /\ \A k \in Holders : ToSet(Appended(transfers, tx, owner)[k]) =
                IF k = owner THEN ToSet(transfers[k]) \cup {tx} ELSE ToSet(transfers[k])
      BY <1>2, <3>1, AppendedFacts
    <3>3. QED
      BY <2>1, <3>1, <3>2
  <2>2. CASE owner = sender
    BY <1>1, <1>3, <2>2
  <2>3. QED
    BY <2>1, <2>2
<1> HIDE DEF first
<1>6. /\ second \in [Holders -> Seq(Tx)]
      /\ \A h \in Holders :
           ToSet(second[h]) = IF h = sender THEN ToSet(first[h]) \cup {tx} ELSE ToSet(first[h])
  <2>1. second = Appended(first, tx, sender) /\ first \in [Holders -> Seq(Tx)]
    BY <1>3, <1>5
  <2> HIDE DEF second
  <2>2. /\ Appended(first, tx, sender) \in [Holders -> Seq(Tx)]
        /\ \A k \in Holders : ToSet(Appended(first, tx, sender)[k]) =
              IF k = sender THEN ToSet(first[k]) \cup {tx} ELSE ToSet(first[k])
    BY <1>2, <2>1, AppendedFacts
  <2>3. QED
    BY <2>1, <2>2
<1> HIDE DEF second
<1>7. /\ third \in [Holders -> Seq(Tx)]
      /\ \A h \in Holders :
           ToSet(third[h]) = IF h = receiver THEN ToSet(second[h]) \cup {tx} ELSE ToSet(second[h])
  <2>1. third = Appended(second, tx, receiver) /\ second \in [Holders -> Seq(Tx)]
    BY <1>3, <1>6
  <2> HIDE DEF third
  <2>2. /\ Appended(second, tx, receiver) \in [Holders -> Seq(Tx)]
        /\ \A k \in Holders : ToSet(Appended(second, tx, receiver)[k]) =
              IF k = receiver THEN ToSet(second[k]) \cup {tx} ELSE ToSet(second[k])
    BY <1>2, <2>1, AppendedFacts
  <2>3. QED
    BY <2>1, <2>2
<1> HIDE DEF third
<1>8. \A h \in Holders :
        ToSet(third[h]) = IF h \in {owner, sender, receiver}
                          THEN ToSet(transfers[h]) \cup {tx} ELSE ToSet(transfers[h])
  BY <1>5, <1>6, <1>7
<1>9. tx_count' \in 0..MaxTx
  BY <1>1
<1>10. QED
  <2>1. Recorded(tx, owner, sender, receiver, n)
    BY <1>1, <1>2, <1>3, <1>4, <1>7, <1>8, <1>9 DEF Recorded
  <2>2. QED
    BY <2>1

-----------------------------------------------------------------------------
\* What the history says of an account, in full.
Explained(h) ==
  LET txs == ToSet(transfers[h])
  IN /\ balances[h] + Given(h, txs) = issued[h] + Received(h, txs)
     /\ told[h] <= Received(h, txs)

\* Transfers are numbered in order, so that a new one is in no history yet.
Numbered(h) == \A tx \in ToSet(transfers[h]) : tx.id <= tx_count

HistoryInv == TypeOK /\ \A h \in Holders : Explained(h) /\ Numbered(h)

\* What an account's history consists of.
LEMMA HistoryOf ==
  ASSUME NEW h, transfers[h] \in Seq(Tx)
  PROVE  ToSet(transfers[h]) \in SUBSET Tx /\ IsFiniteSet(ToSet(transfers[h]))
<1> DEFINE s == transfers[h]
           n == Len(s)
           T == ToSet(s)
<1>1. n \in Nat /\ DOMAIN s = 1..n /\ \A i \in 1..n : s[i] \in Tx
  BY LenProperties, ElementOfSeq
<1>2. T \in SUBSET Tx
  BY <1>1 DEF ToSet
<1>3. IsFiniteSet(1..n)
  BY <1>1, 1 \in Int, n \in Int, FS_Interval
<1>4. s \in [1..n -> T] /\ \A x \in T : \E i \in 1..n : s[i] = x
  BY <1>1, <1>2 DEF ToSet
<1>5. s \in Surjection(1..n, T)
  BY <1>4 DEF Surjection
<1>6. IsFiniteSet(T)
  BY <1>3, <1>5, FS_Surjection
<1>7. QED
  BY <1>2, <1>6

\* What h was paid and paid in a set of transfers.
LEMMA HistoryTotals ==
  ASSUME NEW txs \in SUBSET Tx, IsFiniteSet(txs), NEW h
  PROVE  Received(h, txs) \in Nat /\ Given(h, txs) \in Nat
<1> DEFINE In == {x \in txs : x.receiver = h}
           Out == {x \in txs : x.from = h}
           f == [x \in In |-> x.amount]
           g == [x \in Out |-> x.amount]
<1>1. \A x \in Tx : x.amount \in Nat
  BY DEF Tx
<1>2. IsFiniteSet(In) /\ IsFiniteSet(Out)
  BY FS_Subset
<1>3. (\A x \in In : f[x] \in Int /\ f[x] >= 0) /\ (\A x \in Out : g[x] \in Int /\ g[x] >= 0)
  BY <1>1
<1>4. Received(h, txs) = SumOver(f, In) /\ Given(h, txs) = SumOver(g, Out)
  BY DEF Received, Given, TotalOf
<1> HIDE DEF In, Out, f, g
<1>5. SumOver(f, In) \in Nat /\ SumOver(g, Out) \in Nat
  BY <1>2, <1>3, SumType
<1>6. QED
  BY <1>4, <1>5

\* A step that records no transfer: what it adds to a balance it also issues.
LEMMA IssuedExplained ==
  ASSUME HistoryInv, TypeOK',
         UNCHANGED <<transfers, tx_count, told>>,
         \A h \in Holders : balances'[h] + issued[h] = balances[h] + issued'[h]
  PROVE  HistoryInv'
<1>1. ASSUME NEW h \in Holders PROVE Explained(h)' /\ Numbered(h)'
  <2>1. /\ balances[h] \in Int /\ balances'[h] \in Int /\ issued[h] \in Int /\ issued'[h] \in Int
        /\ transfers[h] \in Seq(Tx)
    BY DEF HistoryInv, TypeOK, LedgerTypeOK
  <2> DEFINE txs == ToSet(transfers[h])
  <2>2. Explained(h) /\ Numbered(h)
    BY DEF HistoryInv
  <2>3. PICK g, r \in Int : g = Given(h, txs) /\ r = Received(h, txs)
    <3>1. \A T \in SUBSET Tx : IsFiniteSet(T) => Given(h, T) \in Int /\ Received(h, T) \in Int
      BY HistoryTotals
    <3>2. QED
      BY <2>1, <3>1, HistoryOf
  <2>4. balances[h] + g = issued[h] + r /\ told[h] <= r
    BY <2>2, <2>3 DEF Explained
  <2>5. balances'[h] + g = issued'[h] + r
    BY <2>1, <2>3, <2>4
  <2>6. Given(h, txs)' = g /\ Received(h, txs)' = r
    BY <2>3 DEF Given, Received, TotalOf
  <2>7. Explained(h)'
    BY <2>4, <2>5, <2>6 DEF Explained
  <2>8. QED
    BY <2>2, <2>7 DEF Numbered
<1>2. QED
  BY <1>1 DEF HistoryInv

\* A transfer enters the histories of both parties, and of whoever made it, once
\* each: what it moves is what they say.
LEMMA MovedExplained ==
  ASSUME HistoryInv, TypeOK', NEW owner \in Holders, NEW sender \in Holders,
         NEW recipient \in Holders, NEW n \in Nat, Move(owner, sender, recipient, n),
         told' = told \/ Tell(recipient, n)
  PROVE  HistoryInv'
<1>1. PICK tx \in Tx :
        /\ tx.id = tx_count + 1 /\ tx.from = owner /\ tx.receiver = recipient /\ tx.amount = n
        /\ tx_count' = tx_count + 1
        /\ \A h \in Holders :
             ToSet(transfers'[h]) = IF h \in {owner, sender, recipient}
                                    THEN ToSet(transfers[h]) \cup {tx} ELSE ToSet(transfers[h])
  <2>1. TypeOK /\ StoreTransfer(owner, sender, recipient, n)
    BY DEF HistoryInv, Move
  <2>2. \E tx : Recorded(tx, owner, sender, recipient, n)
    BY <2>1, StoreTransferFacts
  <2>3. QED
    BY <2>2 DEF Recorded
<1>2. /\ balances' = Transferred(owner, recipient, n) /\ n <= balances[owner]
      /\ issued' = issued
  BY DEF Move, MoveTokens, CanTransfer
<1>3. TypeOK /\ LedgerTypeOK
  BY DEF HistoryInv, TypeOK
<1>4. ASSUME NEW h \in Holders PROVE Explained(h)' /\ Numbered(h)'
  <2> DEFINE old == ToSet(transfers[h])
             new == ToSet(transfers'[h])
             gains == IF h = recipient THEN n ELSE 0
             loses == IF h = owner THEN n ELSE 0
  <2>1. /\ balances[h] \in Nat /\ balances'[h] \in Nat /\ issued[h] \in Int
        /\ told[h] \in Nat /\ told'[h] \in Nat /\ tx_count \in Int
        /\ transfers[h] \in Seq(Tx)
    BY <1>3 DEF TypeOK, LedgerTypeOK
  <2>2. Explained(h) /\ Numbered(h)
    BY DEF HistoryInv
  <2>3. old \in SUBSET Tx /\ IsFiniteSet(old) /\ \A x \in old : x.id \in Int
    <3>1. old \in SUBSET Tx /\ IsFiniteSet(old)
      BY <2>1, HistoryOf
    <3>2. \A x \in Tx : x.id \in Int
      BY DEF Tx
    <3>3. QED
      BY <3>1, <3>2
  <2>4. tx \notin old
    <3>1. \A x \in old : x.id <= tx_count
      BY <2>2 DEF Numbered
    <3>2. ~(tx_count + 1 <= tx_count)
      BY <2>1
    <3>3. QED
      BY <1>1, <3>1, <3>2
  <2>5. new = IF h \in {owner, sender, recipient} THEN old \cup {tx} ELSE old
    BY <1>1
  <2> HIDE DEF old, new
  <2>6. /\ Received(h, old) \in Nat /\ Given(h, old) \in Nat
        /\ Received(h, old \cup {tx}) = Received(h, old) + gains
        /\ Given(h, old \cup {tx}) = Given(h, old) + loses
    <3>1. /\ Received(h, old) \in Nat /\ Given(h, old) \in Nat
          /\ Received(h, old \cup {tx}) = Received(h, old) + IF tx.receiver = h THEN tx.amount ELSE 0
          /\ Given(h, old \cup {tx}) = Given(h, old) + IF tx.from = h THEN tx.amount ELSE 0
      BY <2>3, <2>4, HistoryGrows
    <3>2. QED
      BY <1>1, <3>1
  <2>7. gains \in Nat /\ loses \in Nat
    OBVIOUS
  <2>8. Received(h, new) = Received(h, old) + gains /\ Given(h, new) = Given(h, old) + loses
    <3>1. CASE h \in {owner, sender, recipient}
      BY <2>5, <2>6, <3>1
    <3>2. CASE h \notin {owner, sender, recipient}
      <4>1. gains = 0 /\ loses = 0 /\ new = old
        BY <2>5, <3>2
      <4>2. QED
        BY <2>6, <4>1
    <3>3. QED
      BY <3>1, <3>2
  <2>9. balances'[h] + loses = balances[h] + gains
    <3>1. balances \in [Holders -> Nat]
      BY <1>3 DEF LedgerTypeOK
    <3> DEFINE left == [balances EXCEPT ![owner] = @ - n]
    <3>2. /\ left \in [Holders -> Int] /\ left[owner] = balances[owner] - n
          /\ (h # owner => left[h] = balances[h])
      BY <3>1
    <3>3. balances' = [left EXCEPT ![recipient] = @ + n]
      BY <1>2 DEF Transferred
    <3> HIDE DEF left
    <3>4. left[h] + loses = balances[h]
      BY <3>1, <3>2
    <3>5. balances'[h] = left[h] + gains
      <4>1. left[h] \in Int
        BY <3>2
      <4>2. QED
        BY <3>2, <3>3, <4>1
    <3>6. QED
      BY <2>1, <2>7, <3>2, <3>4, <3>5
  <2>10. told'[h] <= told[h] + gains
    <3>1. told'[h] = told[h] \/ (h = recipient /\ told'[h] = told[h] + n)
      BY <1>3 DEF Tell, TypeOK
    <3>2. QED
      BY <2>1, <2>7, <3>1
  <2> HIDE DEF gains, loses
  <2>11. /\ balances[h] + Given(h, old) = issued[h] + Received(h, old)
         /\ told[h] <= Received(h, old)
    BY <2>2 DEF Explained, old
  <2>12. PICK r, g \in Nat : r = Received(h, old) /\ g = Given(h, old)
    BY <2>6
  <2>13. Received(h, new) = r + gains /\ Given(h, new) = g + loses
    BY <2>8, <2>12
  <2>14. /\ balances'[h] + (g + loses) = issued[h] + (r + gains)
         /\ told'[h] <= r + gains
    <3>1. PICK b, c, i, t, u \in Int : /\ b = balances[h] /\ c = balances'[h] /\ i = issued[h]
                                      /\ t = told[h] /\ u = told'[h]
      BY <2>1
    <3>2. b + g = i + r /\ t <= r /\ c + loses = b + gains /\ u <= t + gains
      BY <2>9, <2>10, <2>11, <2>12, <3>1
    <3>3. c + (g + loses) = i + (r + gains) /\ u <= r + gains
      BY <2>7, <3>2
    <3>4. QED
      BY <3>1, <3>3
  <2>15. Explained(h)'
    <3>1. /\ balances'[h] + Given(h, new) = issued'[h] + Received(h, new)
          /\ told'[h] <= Received(h, new)
      BY <1>2, <2>13, <2>14
    <3>2. QED
      BY <3>1 DEF Explained, Given, Received, TotalOf, new
  <2>16. Numbered(h)'
    <3>1. \A x \in old : x.id <= tx_count
      BY <2>2 DEF Numbered, old
    <3>2. \A x \in old : x.id <= tx_count + 1
      BY <2>1, <2>3, <3>1
    <3>3. tx.id <= tx_count + 1
      BY <1>1, <2>1
    <3>4. \A x \in new : x.id <= tx_count'
      BY <1>1, <2>5, <3>2, <3>3
    <3>5. QED
      BY <3>4 DEF Numbered, new
  <2>17. QED
    BY <2>15, <2>16
<1>5. QED
  BY <1>4 DEF HistoryInv

\* What any step leaves of the types: allowances stay within a u128, and the rest.
LEMMA AllowanceUsed ==
  ASSUME TypeOK, NEW owner \in Holders, NEW spender \in Holders, NEW n \in Nat,
         UseAllowance(owner, spender, n)
  PROVE  allowances' \in [Holders \X Holders -> Allowance]
<1> DEFINE p == <<owner, spender>>
           a == allowances[p]
<1>1. allowances \in [Holders \X Holders -> Allowance] /\ p \in Holders \X Holders /\ MaxUint \in Nat
  BY LedgerAssumption DEF TypeOK
<1>2. n <= a.amount /\ allowances' = [allowances EXCEPT ![p] = [a EXCEPT !.amount = a.amount - n]]
  BY DEF UseAllowance
<1>3. a \in Allowance
  BY <1>1
<1>4. [a EXCEPT !.amount = a.amount - n] \in Allowance
  BY <1>1, <1>2, <1>3 DEF Allowance
<1>5. QED
  BY <1>1, <1>2, <1>4

LEMMA AllowanceChanged ==
  ASSUME TypeOK, NEW owner \in Holders, NEW spender \in Holders, NEW n \in Nat,
         NEW e \in Nat \cup {NoExpiration},
         IncreaseAllowance(owner, spender, n, e) \/ DecreaseAllowance(owner, spender, n, e)
  PROVE  allowances' \in [Holders \X Holders -> Allowance]
<1> DEFINE p == <<owner, spender>>
           a == allowances[p]
           more == [a EXCEPT !.amount = LeastOf(a.amount + n, MaxUint)]
           less == [a EXCEPT !.amount = MinusOrZero(a.amount, n)]
<1>1. allowances \in [Holders \X Holders -> Allowance] /\ p \in Holders \X Holders /\ MaxUint \in Nat
  BY LedgerAssumption DEF TypeOK
<1>2. a \in Allowance
  BY <1>1
<1>3. more \in Allowance /\ less \in Allowance
  BY <1>1, <1>2 DEF Allowance, LeastOf, MinusOrZero
<1>4. \/ allowances' = [allowances EXCEPT ![p] = Renewed(more, e)]
      \/ allowances' = [allowances EXCEPT ![p] = Renewed(less, e)]
  BY DEF IncreaseAllowance, DecreaseAllowance
<1> HIDE DEF more, less, p
<1>5. Renewed(more, e) \in Allowance /\ Renewed(less, e) \in Allowance
  BY <1>3 DEF Renewed, Allowance
<1>6. QED
  BY <1>1, <1>4, <1>5

\* A transfer, whoever made it and whether or not the receiver hears of it.
LEMMA MoveKeepsHistory ==
  ASSUME HistoryInv, LedgerTypeOK', NEW owner \in Holders, NEW sender \in Holders,
         NEW recipient \in Holders, NEW n \in Nat, Move(owner, sender, recipient, n),
         allowances' \in [Holders \X Holders -> Allowance],
         told' = told \/ Tell(recipient, n)
  PROVE  HistoryInv'
<1>1. TypeOK /\ StoreTransfer(owner, sender, recipient, n)
  BY DEF HistoryInv, Move
<1>2. transfers' \in [Holders -> Seq(Tx)] /\ tx_count' \in 0..MaxTx
  <2>1. \E tx : Recorded(tx, owner, sender, recipient, n)
    BY <1>1, StoreTransferFacts
  <2>2. QED
    BY <2>1 DEF Recorded
<1>3. told' \in [Holders -> Nat]
  BY <1>1 DEF Tell, TypeOK
<1>4. receivers' = receivers /\ now' = now /\ issued' = issued
  BY DEF Move
<1>5. TypeOK'
  BY <1>1, <1>2, <1>3, <1>4 DEF TypeOK
<1>6. QED
  BY <1>5, MovedExplained

\* A mint or a burn changes what was issued as it changes the balance.
LEMMA IssueKeepsHistory ==
  ASSUME HistoryInv, LedgerTypeOK', NEW h \in Holders, NEW d \in Int,
         balances' = [balances EXCEPT ![h] = @ + d], issued' = [issued EXCEPT ![h] = @ + d],
         allowances' \in [Holders \X Holders -> Allowance],
         UNCHANGED <<transfers, tx_count, receivers, told, now>>
  PROVE  HistoryInv'
<1>1. TypeOK /\ LedgerTypeOK
  BY DEF HistoryInv, TypeOK
<1>2. balances \in [Holders -> Int] /\ issued \in [Holders -> Int]
  <2>1. balances \in [Holders -> Nat]
    BY <1>1 DEF LedgerTypeOK
  <2>2. issued \in [Holders -> Int]
    BY <1>1 DEF TypeOK
  <2>3. QED
    BY <2>1, <2>2
<1>3. issued' \in [Holders -> Int]
  BY <1>2
<1>4. TypeOK'
  BY <1>1, <1>3 DEF TypeOK
<1>5. \A k \in Holders : balances'[k] + issued[k] = balances[k] + issued'[k]
  <2> SUFFICES ASSUME NEW k \in Holders
               PROVE  balances'[k] + issued[k] = balances[k] + issued'[k]
    OBVIOUS
  <2>1. PICK b, i \in Int : b = balances[k] /\ i = issued[k]
    BY <1>2
  <2>2. CASE k = h
    <3>1. balances'[k] = b + d /\ issued'[k] = i + d
      BY <1>2, <2>1, <2>2
    <3>2. QED
      BY <2>1, <3>1
  <2>3. CASE k # h
    <3>1. balances'[k] = b /\ issued'[k] = i
      BY <1>2, <2>1, <2>3
    <3>2. QED
      BY <2>1, <3>1
  <2>4. QED
    BY <2>2, <2>3
<1>6. QED
  BY <1>4, <1>5, IssuedExplained

\* Everything else.
LEMMA RestKeepsHistory ==
  ASSUME HistoryInv, LedgerTypeOK', UNCHANGED <<balances, issued, transfers, tx_count, told>>,
         allowances' \in [Holders \X Holders -> Allowance],
         receivers' \subseteq Holders, now' \in 0..MaxTime
  PROVE  HistoryInv'
<1>1. TypeOK /\ LedgerTypeOK
  BY DEF HistoryInv, TypeOK
<1>2. TypeOK'
  BY <1>1 DEF TypeOK
<1>3. \A k \in Holders : balances'[k] + issued[k] = balances[k] + issued'[k]
  <2>1. \A k \in Holders : balances[k] \in Int /\ issued[k] \in Int
    BY <1>1 DEF TypeOK, LedgerTypeOK
  <2>2. QED
    BY <2>1
<1>4. QED
  BY <1>2, <1>3, IssuedExplained

LEMMA StepHistoryInv == HistoryInv /\ LedgerTypeOK' /\ [Next]_vars => HistoryInv'
<1> SUFFICES ASSUME HistoryInv, LedgerTypeOK', [Next]_vars PROVE HistoryInv'
  OBVIOUS
<1> DEFINE Sound == allowances' \in [Holders \X Holders -> Allowance]
<1>1. /\ TypeOK /\ LedgerTypeOK /\ balances \in [Holders -> Int] /\ issued \in [Holders -> Int]
      /\ allowances \in [Holders \X Holders -> Allowance]
      /\ receivers \subseteq Holders /\ now \in 0..MaxTime
  <2>1. TypeOK
    BY DEF HistoryInv
  <2>2. /\ LedgerTypeOK /\ issued \in [Holders -> Int]
        /\ allowances \in [Holders \X Holders -> Allowance]
        /\ receivers \subseteq Holders /\ now \in 0..MaxTime
    BY <2>1 DEF TypeOK
  <2>3. balances \in [Holders -> Nat]
    BY <2>2 DEF LedgerTypeOK
  <2>4. balances \in [Holders -> Int]
    BY <2>3
  <2>5. QED
    BY <2>1, <2>2, <2>4
<1>2. /\ Amounts \subseteq Nat /\ Expirations \subseteq Nat /\ Contracts \subseteq Holders
      /\ MaxTime \in Nat /\ \A p \in Approvals : p[1] \in Holders /\ p[2] \in Holders
  BY Snip20Assumption
<1>3. UNCHANGED allowances => Sound
  BY <1>1
<1> HIDE DEF Sound
<1>4. ASSUME NEW sender \in Holders, NEW h \in Holders, NEW n \in Amounts,
             Transfer(sender, h, n) \/ Send(sender, h, n)
      PROVE  HistoryInv'
  <2>1. /\ Move(sender, sender, h, n) /\ n \in Nat /\ allowances' = allowances
        /\ (told' = told \/ Tell(h, n))
    BY <1>2, <1>4 DEF Transfer, Send
  <2>2. QED
    BY <1>3, <2>1, MoveKeepsHistory DEF Sound
<1>5. ASSUME NEW sender \in Holders, NEW h \in Holders, NEW n \in Amounts, Mint(sender, h, n)
      PROVE  HistoryInv'
  <2>1. /\ balances' = [balances EXCEPT ![h] = @ + n] /\ issued' = [issued EXCEPT ![h] = @ + n]
        /\ n \in Int /\ allowances' = allowances
        /\ UNCHANGED <<transfers, tx_count, receivers, told, now>>
    BY <1>2, <1>5 DEF Mint, MintTokens
  <2>2. QED
    BY <1>3, <2>1, IssueKeepsHistory DEF Sound
<1>6. ASSUME NEW owner \in Holders, NEW n \in Amounts, BurnTokens(owner, n),
             issued' = [issued EXCEPT ![owner] = @ - n],
             UNCHANGED <<transfers, tx_count, receivers, told, now>>, Sound
      PROVE  HistoryInv'
  <2>1. balances' = [balances EXCEPT ![owner] = @ - n] /\ n \in Nat
    BY <1>2, <1>6 DEF BurnTokens
  <2>2. 0 - n \in Int /\ balances[owner] - n = balances[owner] + (0 - n)
        /\ issued[owner] - n = issued[owner] + (0 - n)
    BY <1>1, <2>1
  <2>3. PICK d \in Int : d = 0 - n
    BY <2>2
  <2>4. /\ balances' = [balances EXCEPT ![owner] = @ + d]
        /\ issued' = [issued EXCEPT ![owner] = @ + d]
    BY <1>6, <2>1, <2>2, <2>3
  <2>5. QED
    BY <1>6, <2>4, IssueKeepsHistory DEF Sound
<1>7. ASSUME NEW sender \in Holders, NEW n \in Amounts, Burn(sender, n)
      PROVE  HistoryInv'
  BY <1>3, <1>6, <1>7 DEF Burn
<1>8. ASSUME NEW p \in Approvals, NEW n \in Amounts, BurnFrom(p[2], p[1], n)
      PROVE  HistoryInv'
  <2>1. p[1] \in Holders /\ p[2] \in Holders /\ n \in Nat /\ UseAllowance(p[1], p[2], n)
    BY <1>2, <1>8 DEF BurnFrom
  <2>2. Sound
    BY <1>1, <2>1, AllowanceUsed DEF Sound
  <2>3. QED
    BY <1>6, <1>8, <2>1, <2>2 DEF BurnFrom
<1>9. ASSUME NEW p \in Approvals, NEW n \in Amounts, NEW h \in Holders,
             TransferFrom(p[2], p[1], h, n) \/ SendFrom(p[2], p[1], h, n)
      PROVE  HistoryInv'
  <2>1. /\ p[1] \in Holders /\ p[2] \in Holders /\ n \in Nat /\ UseAllowance(p[1], p[2], n)
        /\ Move(p[1], p[2], h, n) /\ (told' = told \/ Tell(h, n))
    BY <1>2, <1>9 DEF TransferFrom, SendFrom
  <2>2. allowances' \in [Holders \X Holders -> Allowance]
    BY <1>1, <2>1, AllowanceUsed
  <2>3. QED
    BY <2>1, <2>2, MoveKeepsHistory
<1>10. ASSUME NEW p \in Approvals, NEW n \in Amounts, NEW e \in Expirations \cup {NoExpiration},
              IncreaseAllowance(p[1], p[2], n, e) \/ DecreaseAllowance(p[1], p[2], n, e)
       PROVE  HistoryInv'
  <2>1. p[1] \in Holders /\ p[2] \in Holders /\ n \in Nat /\ e \in Nat \cup {NoExpiration}
    BY <1>2
  <2>2. allowances' \in [Holders \X Holders -> Allowance]
    BY <1>1, <1>10, <2>1, AllowanceChanged
  <2>3. UNCHANGED <<balances, issued, transfers, tx_count, told, receivers, now>>
    BY <1>10 DEF IncreaseAllowance, DecreaseAllowance, ledgerVars
  <2>4. QED
    BY <1>1, <2>2, <2>3, RestKeepsHistory
<1>11. ASSUME NEW sender \in Holders, Administer(sender)
       PROVE  HistoryInv'
  <2>1. UNCHANGED <<balances, issued, transfers, tx_count, told, receivers, now, allowances>>
    BY <1>11 DEF Administer, SetMinters, AddMinters, RemoveMinters, ChangeTokenAdmin,
                 SetContractStatus, snipVars
  <2>2. QED
    BY <1>1, <1>3, <2>1, RestKeepsHistory DEF Sound
<1>12. ASSUME NEW sender \in Contracts, RegisterReceive(sender)
       PROVE  HistoryInv'
  <2>1. /\ UNCHANGED <<balances, issued, transfers, tx_count, told, now, allowances>>
        /\ receivers' \subseteq Holders
    BY <1>1, <1>2, <1>12 DEF RegisterReceive, ledgerVars
  <2>2. QED
    BY <1>1, <1>3, <2>1, RestKeepsHistory DEF Sound
<1>13. CASE Tick
  <2>1. UNCHANGED <<balances, issued, transfers, tx_count, told, receivers, allowances>>
    BY <1>13 DEF Tick, ledgerVars
  <2>2. now' \in 0..MaxTime
    BY <1>1, <1>2, <1>13 DEF Tick
  <2>3. QED
    BY <1>1, <1>3, <2>1, <2>2, RestKeepsHistory DEF Sound
<1>14. CASE UNCHANGED vars
  <2>1. UNCHANGED <<balances, issued, transfers, tx_count, told, receivers, now, allowances>>
    BY <1>14 DEF vars, ledgerVars, snipVars
  <2>2. QED
    BY <1>1, <1>3, <2>1, RestKeepsHistory DEF Sound
<1>15. QED
  BY <1>4, <1>5, <1>7, <1>8, <1>9, <1>10, <1>11, <1>12, <1>13, <1>14 DEF Next

\* At first nobody has a history, and everything there is was issued.
LEMMA InitHistoryInv == Init => HistoryInv
<1> SUFFICES ASSUME Init PROVE HistoryInv
  OBVIOUS
<1>1. LedgerTypeOK
  BY InitAccounted DEF Init, SupplyIsAccounted
<1>2. MaxUint \in Nat /\ MaxTx \in Nat /\ MaxTime \in Nat
  BY LedgerAssumption, Snip20Assumption
<1>3. /\ transfers = [h \in Holders |-> <<>>] /\ told = [h \in Holders |-> 0]
      /\ issued = balances /\ tx_count = 0 /\ receivers = {} /\ now = 0
  BY DEF Init
<1>4. balances \in [Holders -> Nat]
  BY <1>1 DEF LedgerTypeOK
<1>5. transfers \in [Holders -> Seq(Tx)]
  BY <1>3, EmptySeq
<1>6. allowances \in [Holders \X Holders -> Allowance]
  BY <1>2 DEF Init, Allowance
<1>7. issued \in [Holders -> Int]
  BY <1>3, <1>4
<1>8. TypeOK
  BY <1>1, <1>2, <1>3, <1>5, <1>6, <1>7 DEF TypeOK
<1>9. ASSUME NEW h \in Holders PROVE Explained(h) /\ Numbered(h)
  <2>1. ToSet(transfers[h]) = {}
    <3>1. transfers[h] = <<>>
      BY <1>3
    <3>2. ToSet(<<>>) = {}
      BY DEF ToSet
    <3>3. QED
      BY <3>1, <3>2
  <2>2. Received(h, {}) = 0 /\ Given(h, {}) = 0
    <3>1. {tx \in {} : tx.receiver = h} = {} /\ {tx \in {} : tx.from = h} = {}
      OBVIOUS
    <3>2. TotalOf({}) = 0
      BY FS_EmptySet, SumOverRecurs DEF TotalOf
    <3>3. QED
      BY <3>1, <3>2 DEF Received, Given
  <2>3. balances[h] = issued[h] /\ told[h] = 0 /\ balances[h] \in Int
    BY <1>3, <1>4
  <2>4. QED
    BY <2>1, <2>2, <2>3 DEF Explained, Numbered
<1>10. QED
  BY <1>8, <1>9 DEF HistoryInv

LEMMA HistoryExplains == HistoryInv => HistoryExplainsBalances
<1> SUFFICES ASSUME HistoryInv PROVE HistoryExplainsBalances
  OBVIOUS
<1>1. TypeOK /\ LedgerTypeOK
  BY DEF HistoryInv, TypeOK
<1>2. ASSUME NEW h \in Holders, NEW page_size \in 1..2
      PROVE  /\ balances[h] = issued[h] + Received(h, Seen(h, page_size)) - Given(h, Seen(h, page_size))
             /\ told[h] <= Received(h, Seen(h, page_size))
  <2> DEFINE txs == ToSet(transfers[h])
  <2>1. transfers[h] \in Seq(Tx) /\ balances[h] \in Int /\ issued[h] \in Int
    BY <1>1 DEF TypeOK, LedgerTypeOK
  <2>2. Seen(h, page_size) = txs
    <3>1. page_size \in Nat \ {0}
      OBVIOUS
    <3>2. QED
      BY <2>1, <3>1, PagesShowAll
  <2>3. balances[h] + Given(h, txs) = issued[h] + Received(h, txs) /\ told[h] <= Received(h, txs)
    BY DEF HistoryInv, Explained
  <2>4. txs \in SUBSET Tx /\ IsFiniteSet(txs)
    BY <2>1, HistoryOf
  <2> HIDE DEF txs
  <2>5. Given(h, txs) \in Nat /\ Received(h, txs) \in Nat
    BY <2>4, HistoryTotals
  <2>6. balances[h] = issued[h] + Received(h, txs) - Given(h, txs)
    <3>1. PICK b, i, g, r \in Int : /\ b = balances[h] /\ i = issued[h]
                                   /\ g = Given(h, txs) /\ r = Received(h, txs)
      BY <2>1, <2>5
    <3>2. b + g = i + r
      BY <2>3, <3>1
    <3>3. b = i + r - g
      BY <3>2
    <3>4. QED
      BY <3>1, <3>3
  <2>7. QED
    BY <2>2, <2>3, <2>6
<1>3. QED
  BY <1>1, <1>2 DEF HistoryExplainsBalances

\* What an account reads of its history, in pages of either size, explains its
\* balance, and what its receiver was told by callbacks, whoever moved the tokens, in
\* any order (contracts/tge/snip20-sienna/src/state.rs, store_transfer).
THEOREM HistoryExplainsBalancesHolds == Spec => []HistoryExplainsBalances
<1>1. SupplyIsAccounted => LedgerTypeOK
  BY DEF SupplyIsAccounted
<1>2. QED
  BY <1>1, SupplyIsAccountedHolds, InitHistoryInv, StepHistoryInv, HistoryExplains, PTL DEF Spec
=============================================================================
