-------------------------------- MODULE Ido --------------------------------
(***************************************************************************)
(* A token sale (contracts/launchpad/ido) whose whitelist is filled by a   *)
(* draw from the launchpad when it is instantiated.                        *)
(*                                                                         *)
(* The recipients of what is sold and of what is refunded in the end are   *)
(* not modelled.                                                           *)
(***************************************************************************)
EXTENDS Launchpad

CONSTANTS
  Sales,          \* msg.info with the launchpad request: what may be instantiated
  Percentages,    \* what the draw's random generator may give
  Payments,       \* amounts of the input token
  Supplies,       \* amounts of the sold token that the admin sends
  Means,          \* what the users and the admin have of them at first
  Additions,      \* lists of addresses the admin adds
  Starts, Ends,   \* times between which the sale may be activated
  RateOne,        \* 10^input_token_decimals: the rate is the price of as much
  MaxUint,        \* u128::MAX, scaled
  MaxActivations  \* bound on activations

SaleTypes == {"PreLockAndSwap", "PreLockOnly", "SwapOnly"}

ASSUME IdoAssumption ==
  /\ \A s \in Sales :
       /\ s.whitelist \in Seq(Users) /\ s.asked \in Seq(LockTokens)
       /\ {s.max_seats, s.max_allocation, s.min_allocation, s.rate} \subseteq Nat
       /\ s.sale_type \in SaleTypes /\ s.input \in {"native", "custom"}
  /\ Percentages \subseteq 0..100 /\ Starts \subseteq Nat /\ Ends \subseteq Nat
  /\ \A m \in Means : m.wallets \in Wallets /\ m.pays \in [Users -> Nat] /\ m.sells \in Nat
  /\ Payments \subseteq Nat /\ Supplies \subseteq Nat
  /\ Additions \subseteq Seq(Users)
  /\ {RateOne, MaxUint, MaxActivations} \subseteq Nat /\ RateOne > 0

VARIABLES
  sale,           \* the config that never changes, or NoSale
  taken_seats,
  schedule,       \* [start, end], or NotActive
  listed,         \* the addresses that have an Account
  pre_locked,     \* Account.pre_lock_amount
  bought,         \* Account.total_bought
  total_pre_lock, \* in units of the sold token
  sold_funds,     \* the sale's balance of the sold token
  paid_funds,     \* and of the input token
  purses,         \* what the users have of the input token
  hoard,          \* what the admin has of the sold token
  paid,           \* what each user has paid in all (history)
  activations,    \* how often it was activated (history)
  covered         \* at the last activation it had all it may sell (history)

accountVars == <<listed, pre_locked, bought, total_pre_lock, purses, paid>>
fundVars == <<sold_funds, paid_funds, hoard>>
idoVars == <<sale, taken_seats, schedule, accountVars, fundVars, activations, covered>>
vars == <<launchpadVars, now, idoVars>>

NoSale == [sale_type |-> "none"]
NotActive == [start |-> -1, end |-> -1]

IsActive == schedule # NotActive
HasStarted == schedule.start <= now
HasEnded == now >= schedule.end

SaleTypeOK ==
  /\ LaunchpadTypeOK
  /\ sale \in Sales \cup {NoSale}
  /\ schedule \in [start: Starts, end: Ends] \cup {NotActive}
  /\ IsActive => sale # NoSale /\ schedule.start < schedule.end
  /\ listed \subseteq Users
  /\ {taken_seats, total_pre_lock, sold_funds, paid_funds, hoard, activations} \subseteq Nat
  /\ {pre_locked, bought, purses, paid} \subseteq [Users -> Nat]
  /\ \A u \in Users \ listed : paid[u] = 0
  /\ covered \in BOOLEAN

Init ==
  /\ LaunchpadInit
  /\ sale = NoSale
  /\ taken_seats = 0
  /\ schedule = NotActive
  /\ listed = {}
  /\ pre_locked = [u \in Users |-> 0] /\ bought = [u \in Users |-> 0]
  /\ total_pre_lock = 0
  /\ sold_funds = 0 /\ paid_funds = 0
  /\ \E m \in Means : wallets = m.wallets /\ purses = m.pays /\ hoard = m.sells
  /\ paid = [u \in Users |-> 0]
  /\ activations = 0 /\ covered = FALSE

\* convert_token (fadroma), from the input token to the sold one
ConvertToken(n) == (n * sale.rate) \div RateOne

\* total_allocation, which overflows where it does not fit
TotalAllocation == sale.max_allocation * sale.max_seats

-----------------------------------------------------------------------------
(* Instantiation                                                           *)

\* Mutant of FreeSeats: the draw is asked for all the seats.
FreeSeatsOfAll(s) == s.max_seats

\* The number of addresses the draw is asked for.
FreeSeats(s) == s.max_seats - Len(s.whitelist)

\* init: a seat for everybody on the whitelist, though they be more than the seats,
\* and what is left for the draw.  Whoever is drawn and on the whitelist takes two.
Instantiate(s) ==
  LET listed_seats == Len(s.whitelist)
      draws == s.asked # <<>> /\ listed_seats < s.max_seats
  IN /\ sale = NoSale
     /\ s.min_allocation * s.max_seats <= MaxUint
     /\ draws => \A i \in DOMAIN s.asked : Supported(s.asked[i])
     /\ \E percentage \in Percentages :
          LET drawn == IF draws
                       THEN DrawAddresses(s.asked, FreeSeats(s), now, percentage)
                       ELSE <<>>
          IN /\ listed' = ToSet(s.whitelist) \cup ToSet(drawn)
             /\ taken_seats' = listed_seats + Len(drawn)
     /\ sale' = s
     /\ UNCHANGED <<launchpadVars, now, schedule, pre_locked, bought, total_pre_lock,
                    purses, paid, fundVars, activations, covered>>

\* add_addresses: an address that is listed already takes a seat, too.
AdminAddAddresses(list) ==
  /\ sale # NoSale
  /\ IsActive => ~HasEnded
  /\ taken_seats + Len(list) <= sale.max_seats
  /\ taken_seats' = taken_seats + Len(list)
  /\ listed' = listed \cup ToSet(list)
  /\ UNCHANGED <<launchpadVars, now, sale, schedule, pre_locked, bought, total_pre_lock,
                 purses, paid, fundVars, activations, covered>>

-----------------------------------------------------------------------------
(* The sold token                                                          *)

\* Anybody may transfer some, without a message to the sale.
SupplySold(n) ==
  /\ sale # NoSale
  /\ n <= hoard
  /\ hoard' = hoard - n
  /\ sold_funds' = sold_funds + n
  /\ UNCHANGED <<launchpadVars, now, sale, taken_seats, schedule, accountVars, paid_funds,
                 activations, covered>>

\* SaleSchedule::new
ValidSchedule(start, end) == start < end /\ now < end

\* activate, by a Send of `amount` from the admin, which has been transferred by the
\* time the balance is queried.  It can be repeated.  No start means now.
Activate(amount, start, end) ==
  LET balance == sold_funds + amount
  IN /\ sale # NoSale /\ ~StrictParsing
     /\ activations < MaxActivations /\ amount <= hoard
     /\ TotalAllocation <= MaxUint
     /\ TotalAllocation <= balance + amount
     /\ ValidSchedule(start, end)
     /\ schedule' = [start |-> start, end |-> end]
     /\ sold_funds' = balance /\ hoard' = hoard - amount
     /\ activations' = activations + 1
     /\ covered' = (TotalAllocation <= balance)
     /\ UNCHANGED <<launchpadVars, now, sale, taken_seats, accountVars, paid_funds>>

-----------------------------------------------------------------------------
(* Buyers.  Native tokens come with the message, others through Receive.   *)

PaymentArrives == sale.input = "native" \/ ~StrictParsing

PreLock(u, n) ==
  /\ sale # NoSale /\ PaymentArrives
  /\ IsActive /\ sale.sale_type \in {"PreLockAndSwap", "PreLockOnly"}
  /\ ~HasStarted
  /\ u \in listed /\ n <= purses[u]
  /\ sale.min_allocation <= ConvertToken(n)
  /\ ConvertToken(pre_locked[u] + n) <= sale.max_allocation
  /\ pre_locked' = [pre_locked EXCEPT ![u] = @ + n]
  /\ total_pre_lock' = total_pre_lock + ConvertToken(n)
  /\ paid_funds' = paid_funds + n
  /\ purses' = [purses EXCEPT ![u] = @ - n] /\ paid' = [paid EXCEPT ![u] = @ + n]
  /\ UNCHANGED <<launchpadVars, now, sale, taken_seats, schedule, listed, bought, sold_funds, hoard,
                 activations, covered>>

\* is_swapable
IsSwapable == IsActive /\ HasStarted /\ ~HasEnded

\* What u buys with n more.
MintAmount(u, n) == ConvertToken(pre_locked[u] + n)

\* Mutant of CanSwap: each purchase is limited, not what an address buys in all.
CanSwapAtOnce(u, n) ==
  /\ IsSwapable
  /\ u \in listed
  /\ sale.sale_type \in {"PreLockAndSwap", "SwapOnly"} \/ n = 0
  /\ sale.min_allocation <= MintAmount(u, n) /\ MintAmount(u, n) <= sale.max_allocation
  /\ MintAmount(u, n) <= sold_funds

CanSwap(u, n) ==
  /\ IsSwapable
  /\ u \in listed
  /\ sale.sale_type \in {"PreLockAndSwap", "SwapOnly"} \/ n = 0
  /\ sale.min_allocation <= MintAmount(u, n)
  /\ bought[u] + MintAmount(u, n) <= sale.max_allocation
  /\ MintAmount(u, n) <= sold_funds

\* Mutant of PreLockAfterSwap: it can be swapped again.
PreLockKept(u) == pre_locked[u]

PreLockAfterSwap(u) == 0

\* swap, and the transfer of what was bought: total_pre_lock stays.
Swap(u, n) ==
  /\ sale # NoSale /\ PaymentArrives
  /\ n <= purses[u] /\ CanSwap(u, n)
  /\ bought' = [bought EXCEPT ![u] = @ + MintAmount(u, n)]
  /\ pre_locked' = [pre_locked EXCEPT ![u] = PreLockAfterSwap(u)]
  /\ sold_funds' = sold_funds - MintAmount(u, n)
  /\ paid_funds' = paid_funds + n
  /\ purses' = [purses EXCEPT ![u] = @ - n] /\ paid' = [paid EXCEPT ![u] = @ + n]
  /\ UNCHANGED <<launchpadVars, now, sale, taken_seats, schedule, listed, total_pre_lock, hoard,
                 activations, covered>>

-----------------------------------------------------------------------------
(* After the end                                                           *)

\* is_refundable
IsRefundable == IsActive /\ HasEnded

\* refund and claim: the whole balance, whatever is still pre-locked.
AdminRefund ==
  /\ IsRefundable
  /\ sold_funds' = 0
  /\ UNCHANGED <<launchpadVars, now, sale, taken_seats, schedule, accountVars, paid_funds, hoard,
                 activations, covered>>

AdminClaim ==
  /\ IsRefundable
  /\ paid_funds' = 0
  /\ UNCHANGED <<launchpadVars, now, sale, taken_seats, schedule, accountVars, sold_funds, hoard,
                 activations, covered>>

Tick ==
  /\ now < MaxTime
  /\ now' = now + 1
  /\ UNCHANGED <<launchpadVars, idoVars>>

Next ==
  \/ LaunchpadNext /\ UNCHANGED idoVars
  \/ \E s \in Sales : Instantiate(s)
  \/ \E list \in Additions : AdminAddAddresses(list)
  \/ \E n \in Supplies : SupplySold(n)
  \/ \E n \in Supplies \cup {0}, start \in Starts, end \in Ends : Activate(n, start, end)
  \/ \E u \in Users, n \in Payments : PreLock(u, n)
  \/ \E u \in Users, n \in Payments \cup {0} : Swap(u, n)
  \/ AdminRefund
  \/ AdminClaim
  \/ Tick

Spec == Init /\ [][Next]_vars

-----------------------------------------------------------------------------
(* Properties                                                              *)

\* Those who have bonded entries now in any token the sale asks for.
BondedNow == {e.owner : e \in ToSet(AllBonded(sale'.asked, now))}

\* The draw gives its seats to as many addresses as have bonded, each of them once,
\* and leaves none of them out while there is a seat
\* (launchpad/src/query.rs:122-124).
SeatsGoToTheBonded ==
  [][sale' # sale /\ sale'.asked # <<>> =>
       LET drawn_seats == taken_seats' - Len(sale'.whitelist)
       IN /\ listed' \subseteq ToSet(sale'.whitelist) \cup BondedNow
          /\ drawn_seats <= Cardinality(listed' \cap BondedNow)
          /\ taken_seats' < sale'.max_seats => BondedNow \subseteq listed']_vars

\* Nobody gets more than was paid at the sale's rate, less what is still locked up:
\* a pre-lock is swapped once.
BoughtIsPaid ==
  sale # NoSale => \A u \in Users :
    /\ bought[u] * RateOne <= (paid[u] - pre_locked[u]) * sale.rate
    /\ bought[u] <= sale.max_allocation

\* Every listed address has a seat of its own, and the draw and the additions, which
\* count addresses that are listed already, take no more seats than there are: only
\* the whitelist of the instantiation, which is not checked, can exceed them.
SeatsCoverListed ==
  sale # NoSale =>
    /\ Cardinality(listed) <= taken_seats
    /\ taken_seats <= sale.max_seats \/ taken_seats = Len(sale.whitelist)

\* "Pre lock funds before the sale has started, and then claim them after the sale
\* starts" (msg.rs:451): in a sale that was activated once every pre-lock can be
\* claimed until the end, whatever the others buy, if it had all it may sell and
\* was not given more addresses than seats; or if at most half of the seats are
\* listed, since counting twice what comes with the activation halves what there is
\* at least.
PreLocksAreServed ==
  /\ SaleTypeOK
  /\ /\ IsSwapable /\ activations = 1
     /\ \/ covered /\ Cardinality(ToSet(sale.whitelist)) <= sale.max_seats
        \/ 2 * Cardinality(listed) <= sale.max_seats
     => \A u \in Users : pre_locked[u] > 0 => CanSwap(u, 0)
=============================================================================
