---------------------------- MODULE BorrowerList ----------------------------
(***************************************************************************)
(* The borrowers of a lending market (lend/market/src/state.rs).  So that  *)
(* liquidators can page through them, they are kept in a list without      *)
(* holes: a borrower who has repaid is overwritten with the last one.      *)
(* Beside the list the market keeps each borrower's place in it.           *)
(*                                                                         *)
(* A book is [list, at]: list holds snapshots [who, principal, index], and *)
(* at[u] is u's place in it, counted from 1, or 0.                         *)
(***************************************************************************)
EXTENDS Integers, Sequences

EmptyBook(users) == [list |-> <<>>, at |-> [u \in users |-> 0]]

\* Account::get_borrow_snapshot: no place reads as a debt of nothing.
SnapshotOf(book, u) ==
  IF book.at[u] = 0 THEN [who |-> u, principal |-> 0, index |-> 0]
  ELSE book.list[book.at[u]]

\* IterableStorage::swap_remove: the last entry takes the place of the removed.
WithoutEntry(list, place) ==
  SubSeq([list EXCEPT ![place] = list[Len(list)]], 1, Len(list) - 1)

\* Mutant of Removed: the borrower who was moved keeps the old place.
RemovedNotMoved(book, u) ==
  [list |-> WithoutEntry(book.list, book.at[u]),
   at |-> [book.at EXCEPT ![u] = 0]]

\* The borrower moved is given the new place, then u's place is removed.
Removed(book, u) ==
  LET moved == book.list[Len(book.list)].who
  IN [list |-> WithoutEntry(book.list, book.at[u]),
      at |-> [book.at EXCEPT ![moved] = book.at[u], ![u] = 0]]

\* Account::save_borrow_snapshot
Saved(book, u, snapshot) ==
  IF book.at[u] # 0
  THEN IF snapshot.principal = 0 THEN Removed(book, u)
       ELSE [book EXCEPT !.list[book.at[u]] = snapshot]
  ELSE IF snapshot.principal = 0 THEN book
       ELSE [list |-> Append(book.list, snapshot),
             at |-> [book.at EXCEPT ![u] = Len(book.list) + 1]]

\* Every borrower is found at their own place, every entry is somebody's place
\* and carries a debt: repaid debts leave no holes and no duplicates, and nobody
\* reads, or overwrites, somebody else's debt.
WellIndexed(book, users) ==
  /\ \A u \in users : book.at[u] \in 0..Len(book.list)
  /\ \A i \in 1..Len(book.list) :
       LET entry == book.list[i]
       IN entry.who \in users /\ entry.principal > 0 /\ book.at[entry.who] = i
  /\ \A u \in users : book.at[u] # 0 => book.list[book.at[u]].who = u
=============================================================================
