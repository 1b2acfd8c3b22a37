---------------------------- MODULE MarketProofs ----------------------------
(***************************************************************************)
(* Theorems about Market for every set of accounts, listings and orders:   *)
(* the types, the stock ledger, that the market implements Trade, the      *)
(* records an order owns, the orders a review freezes, the listings that   *)
(* replace another, and that what a handler takes its page offers.         *)
(***************************************************************************)
EXTENDS Shopfront, TLAPS

USE DEF OpenStatuses, ClosedStatuses, Statuses, Reservations, Issues, Requests,
        Operations, Kinds

-----------------------------------------------------------------------------
(* Type correctness. *)

(* The rows of the initial state have their types. *)
LEMMA InitType == Init => TypeOK
<1> SUFFICES ASSUME Init PROVE TypeOK
  OBVIOUS
<1> USE MarketAssumption, InitialAssumption
<1>1. BlankOrder \in OrderRow
  <2>1. PICK l0 \in Listing : TRUE
    OBVIOUS
  <2>2. Seller[l0] \in Account
    BY <2>1
  <2>3. (CHOOSE l \in Listing : TRUE) \in Listing /\ (CHOOSE a \in Account : TRUE) \in Account
    BY <2>1, <2>2
  <2> QED
    BY <2>3 DEF BlankOrder, OrderRow
<1>2. listing \in [Listing -> ListingRow]
  BY DEF Init, ListingRow
<1>3. inventory \in [Listing -> InventoryRow]
  BY DEF Init, InventoryRow
<1>4. order \in [Order -> OrderRow]
  BY <1>1 DEF Init
<1>5. draft \in [Listing -> Listing \cup {NoListing}]
  BY DEF Init
<1> QED
  BY <1>2, <1>3, <1>4, <1>5 DEF TypeOK

(* Moving stock of an existing order leaves the inventory well typed. *)
LEMMA MoveStockType ==
  ASSUME TypeOK, NEW o \in Order,
         NEW availability \in {"available", "reserved", "sold", "refund_hold"},
         MoveStock(o, availability)
  PROVE  inventory' \in [Listing -> InventoryRow]
BY MarketAssumption DEF TypeOK, MoveStock, OrderRow, InventoryRow

(* So does a row of the right type written to the orders. *)
LEMMA WriteOrderType ==
  ASSUME TypeOK, NEW o \in Order, NEW row \in OrderRow, WriteOrder(o, row)
  PROVE  order' \in [Order -> OrderRow]
BY DEF TypeOK, WriteOrder

(* A listing row of the right type written to the listings keeps theirs. *)
LEMMA WriteListingType ==
  ASSUME TypeOK, NEW l \in Listing, NEW row \in ListingRow, WriteListing(l, row)
  PROVE  listing' \in [Listing -> ListingRow]
BY DEF TypeOK, WriteListing

(* Freezing or releasing orders keeps their type. *)
LEMMA SetPausedType ==
  ASSUME TypeOK, NEW S, NEW frozen \in BOOLEAN, SetPaused(S, frozen)
  PROVE  order' \in [Order -> OrderRow]
<1>1. ASSUME NEW o \in Order PROVE [order[o] EXCEPT !.paused = frozen] \in OrderRow
  <2> DEFINE r == order[o]
  <2>1. r \in OrderRow
    BY DEF TypeOK
  <2> HIDE DEF r
  <2>2. [r EXCEPT !.paused = frozen] \in OrderRow
    BY <2>1 DEF OrderRow
  <2> QED
    BY <2>2 DEF r
<1> QED
  BY <1>1 DEF SetPaused, TypeOK

(* Type correctness of the participant actions. *)
LEMMA ParticipantType ==
  ASSUME TypeOK, NEW a \in Account, NEW o \in Order, ParticipantStep(a, o)
  PROVE  TypeOK'
<1> USE MarketAssumption
<1> DEFINE r == order[o]
<1>r. r \in OrderRow
  BY DEF TypeOK
<1> HIDE DEF r
<1>1. CASE Cancel(a, o)
  <2>1. inventory' \in [Listing -> InventoryRow]
    BY <1>1, MoveStockType DEF Cancel
  <2>2. [r EXCEPT !.status = "cancelled",
                  !.reservation = CloseReservation(o, "cancelled")] \in OrderRow
    BY <1>r DEF OrderRow, CloseReservation, r
  <2>3. order' \in [Order -> OrderRow]
    BY <1>1, <2>2, WriteOrderType DEF Cancel, r
  <2> QED
    BY <1>1, <2>1, <2>3 DEF Cancel, TypeOK
<1>2. CASE Pay(a, o)
  <2>1. [r EXCEPT !.status = "pending_delivery",
                  !.settled = Settle(o, "payment")] \in OrderRow
    BY <1>r DEF OrderRow, Settle, r
  <2>2. order' \in [Order -> OrderRow]
    BY <1>2, <2>1, WriteOrderType DEF Pay, r
  <2> QED
    BY <1>2, <2>2 DEF Pay, TypeOK
<1>3. CASE Accept(a, o)
  <2>1. inventory' \in [Listing -> InventoryRow]
    BY <1>3, MoveStockType DEF Accept
  <2>2. [r EXCEPT !.status = "completed",
                  !.settled = Settle(o, "release"),
                  !.reservation = CloseReservation(o, "completed"),
                  !.issue = Resolved(@),
                  !.request = Dropped(@)] \in OrderRow
    <3>1. Settle(o, "release") \in SUBSET Operations
      BY <1>r DEF OrderRow, Settle, r
    <3>2. Resolved(r.issue) \in Issues
      BY <1>r DEF OrderRow, Resolved
    <3>3. Dropped(r.request) \in Requests
      BY <1>r DEF OrderRow, Dropped
    <3>4. CloseReservation(o, "completed") \in Reservations
      BY <1>r DEF OrderRow, CloseReservation, r
    <3> QED
      BY <1>r, <3>1, <3>2, <3>3, <3>4, ZenonT(60) DEF OrderRow
  <2>3. order' \in [Order -> OrderRow]
    BY <1>3, <2>2, WriteOrderType DEF Accept, r
  <2> QED
    BY <1>3, <2>1, <2>3 DEF Accept, TypeOK
<1>4. CASE Issue(a, o)
  <2>1. [r EXCEPT !.status = "issue", !.issue = "open"] \in OrderRow
    BY <1>r DEF OrderRow
  <2>2. order' \in [Order -> OrderRow]
    BY <1>4, <2>1, WriteOrderType DEF Issue, r
  <2> QED
    BY <1>4, <2>2 DEF Issue, TypeOK
<1>5. CASE RequestRefund(a, o)
  <2>1. [r EXCEPT !.request = "pending"] \in OrderRow
    BY <1>r DEF OrderRow
  <2>2. order' \in [Order -> OrderRow]
    BY <1>5, <2>1, WriteOrderType DEF RequestRefund, r
  <2> QED
    BY <1>5, <2>2 DEF RequestRefund, TypeOK
<1>6. CASE Deliver(a, o)
  <2>1. [r EXCEPT !.delivered = @ + 1,
                  !.status = IF @ = "issue" THEN "issue"
                                            ELSE "pending_acceptance"] \in OrderRow
    <3>1. r.delivered + 1 \in 0 .. MaxDeliveries
      BY <1>6, <1>r DEF Deliver, OrderRow, r
    <3>2. r.status \in {"pending_delivery", "issue"}
      BY <1>6 DEF Deliver, r
    <3> QED
      BY <1>r, <3>1, <3>2 DEF OrderRow
  <2>2. order' \in [Order -> OrderRow]
    BY <1>6, <2>1, WriteOrderType DEF Deliver, r
  <2> QED
    BY <1>6, <2>2 DEF Deliver, TypeOK
<1>7. CASE Counteroffer(a, o)
  <2>1. [r EXCEPT !.offered = TRUE] \in OrderRow
    BY <1>r DEF OrderRow
  <2>2. order' \in [Order -> OrderRow]
    BY <1>7, <2>1, WriteOrderType DEF Counteroffer, r
  <2> QED
    BY <1>7, <2>2 DEF Counteroffer, TypeOK
<1>8. CASE Refund(a, o)
  <2>1. inventory' \in [Listing -> InventoryRow]
    BY <1>8, MoveStockType DEF Refund
  <2>2. [r EXCEPT !.status = "refunded",
                  !.settled = Settle(o, "refund"),
                  !.reservation = CloseReservation(o, "refunded"),
                  !.issue = "resolved",
                  !.request = "approved"] \in OrderRow
    BY <1>r, ZenonT(60) DEF OrderRow, CloseReservation, Settle, r
  <2>3. order' \in [Order -> OrderRow]
    BY <1>8, <2>2, WriteOrderType DEF Refund, r
  <2> QED
    BY <1>8, <2>1, <2>3 DEF Refund, TypeOK
<1>9. CASE Restore(a, o)
  <2>1. inventory' \in [Listing -> InventoryRow]
    BY <1>9, MoveStockType DEF Restore
  <2> QED
    BY <1>9, <2>1 DEF Restore, TypeOK
<1> QED
  BY <1>1, <1>2, <1>3, <1>4, <1>5, <1>6, <1>7, <1>8, <1>9 DEF ParticipantStep

(* Type correctness of checkout. *)
LEMMA CheckoutType ==
  ASSUME TypeOK, NEW a \in Account, Checkout(a)
  PROVE  TypeOK'
<1>1. PICK items \in SUBSET Listing : \E id \in [items -> Order] : CreateOrders(a, id)
  BY DEF Checkout
<1>0. PICK id \in [items -> Order] : CreateOrders(a, id)
  BY <1>1
<1> DEFINE made == {id[l] : l \in DOMAIN id}
           lineOf(o) == CHOOSE l \in DOMAIN id : id[l] = o
<1>2. \A o \in made : lineOf(o) \in Listing
  OBVIOUS
<1>3. \A l \in Listing : NewOrder(l, a) \in OrderRow
  BY MarketAssumption DEF NewOrder, OrderRow, TypeOK, ListingRow
<1>4. order' = [o \in Order |-> IF o \in made THEN NewOrder(lineOf(o), a) ELSE order[o]]
  BY <1>0 DEF CreateOrders
<1>5. order' \in [Order -> OrderRow]
  <2> HIDE DEF made, lineOf
  <2> QED
    BY <1>2, <1>3, <1>4 DEF TypeOK
<1>6. inventory' = [l \in Listing |-> IF l \in items /\ Stocked(l)
                       THEN [availability |-> "reserved", holder |-> id[l]]
                       ELSE inventory[l]]
  BY <1>0 DEF CreateOrders
<1>7. inventory' \in [Listing -> InventoryRow]
  BY <1>6 DEF TypeOK, InventoryRow
<1> QED
  BY <1>0, <1>5, <1>7 DEF TypeOK, CreateOrders

(* Type correctness of the ruling on a dispute and of expiry. *)
LEMMA RulingType ==
  ASSUME TypeOK, NEW o \in Order, NEW outcome \in {"refund", "release"},
         ResolveDispute(o, outcome)
  PROVE  TypeOK'
<1> DEFINE r == order[o]
           next == IF outcome = "refund" THEN "refunded" ELSE "completed"
           request == IF outcome = "refund" THEN "approved" ELSE "closed"
           settled == Settle(o, outcome)
           reservation == CloseReservation(o, next)
           ruled == [r EXCEPT !.status = next, !.settled = settled,
                              !.reservation = reservation, !.issue = "resolved",
                              !.request = request]
<1>1. r \in OrderRow
  BY DEF TypeOK
<1>2. inventory' \in [Listing -> InventoryRow]
  BY MoveStockType DEF ResolveDispute
<1>3. /\ next \in Statuses /\ "resolved" \in Issues
      /\ settled \in SUBSET Operations
      /\ reservation \in Reservations
      /\ request \in Requests
  BY <1>1 DEF Settle, CloseReservation, OrderRow
<1>4. WriteOrder(o, ruled)
  BY DEF ResolveDispute
<1>5. ruled \in OrderRow
  <2> HIDE DEF r, next, request, settled, reservation,
          Statuses, Reservations, Issues, Requests, Operations
  <2> QED
    BY <1>1, <1>3 DEF OrderRow
<1>6. order' \in [Order -> OrderRow]
  BY <1>4, <1>5, WriteOrderType
<1> QED
  BY <1>2, <1>6 DEF TypeOK, ResolveDispute

(* Type correctness of one candidate of the payment timer (Expire). *)
LEMMA ExpireType ==
  ASSUME TypeOK, NEW o \in Order, Expire(o)
  PROVE  TypeOK'
<1> DEFINE r == order[o]
<1>1. r \in OrderRow
  BY DEF TypeOK
<1>2. inventory' \in [Listing -> InventoryRow]
  BY MoveStockType DEF Expire
<1>3. [r EXCEPT !.status = "expired",
                !.paused = FALSE,
                !.reservation = CloseReservation(o, "expired")] \in OrderRow
  BY <1>1, ZenonT(60) DEF OrderRow, CloseReservation
<1>4. order' \in [Order -> OrderRow]
  BY <1>3, WriteOrderType DEF Expire
<1> QED
  BY <1>2, <1>4 DEF TypeOK, Expire

(* Type correctness of the listing handlers that leave the orders alone. *)
LEMMA SellerType ==
  ASSUME TypeOK, NEW l \in Listing, SellerStep(l)
  PROVE  TypeOK'
<1> DEFINE r == listing[l]
<1>r. r \in ListingRow
  BY DEF TypeOK
<1> HIDE DEF r
<1>1. ASSUME NEW old \in Listing, ReadReplaced(l, old) PROVE TypeOK'
  BY <1>1 DEF ReadReplaced, TypeOK
<1>2. ASSUME NEW committed \in BOOLEAN, NEW replaces \in Listing \cup {NoListing},
             CreateListing(l, committed, replaces)
      PROVE  TypeOK'
  <2>1. listing' \in [Listing -> ListingRow]
    BY <1>2 DEF CreateListing, WriteListing, TypeOK, ListingRow
  <2>2. inventory' \in [Listing -> InventoryRow]
    BY <1>2 DEF CreateListing, TypeOK, InventoryRow
  <2> QED
    BY <1>2, <2>1, <2>2 DEF CreateListing, TypeOK
<1>3. ASSUME NEW committed \in BOOLEAN, NEW priced \in BOOLEAN,
             EditContent(l, committed, priced)
      PROVE  TypeOK'
  <2>1. [r EXCEPT !.committed = @ \/ committed, !.free = @ /\ ~priced] \in ListingRow
    <3>1. (r.committed \/ committed) \in BOOLEAN /\ (r.free /\ ~priced) \in BOOLEAN
      OBVIOUS
    <3> QED
      BY <1>r, <3>1 DEF ListingRow
  <2>2. listing' \in [Listing -> ListingRow]
    BY <1>3, <2>1, WriteListingType DEF EditContent, r
  <2> QED
    BY <1>3, <2>2 DEF EditContent, TypeOK
<1>4. ASSUME NEW published \in BOOLEAN, SetPublication(l, published) PROVE TypeOK'
  <2>1. [r EXCEPT !.published = published] \in ListingRow
    BY <1>r DEF ListingRow
  <2>2. listing' \in [Listing -> ListingRow]
    BY <1>4, <2>1, WriteListingType DEF SetPublication, r
  <2> QED
    BY <1>4, <2>2 DEF SetPublication, TypeOK
<1>5. ASSUME SourceResponse(Seller[l], l) PROVE TypeOK'
  <2>1. [r EXCEPT !.answered = TRUE] \in ListingRow
    BY <1>r DEF ListingRow
  <2>2. listing' \in [Listing -> ListingRow]
    BY <1>5, <2>1, WriteListingType DEF SourceResponse, r
  <2> QED
    BY <1>5, <2>2 DEF SourceResponse, TypeOK
<1> QED
  BY <1>1, <1>2, <1>3, <1>4, <1>5 DEF SellerStep

(* Type correctness of a report, the one listing step of any account. *)
LEMMA ReportType ==
  ASSUME TypeOK, NEW a \in Account, NEW l \in Listing, NEW kind \in ReviewKinds,
         Report(a, l, kind)
  PROVE  TypeOK'
<1> DEFINE r == listing[l]
<1>1. r \in ListingRow
  BY DEF TypeOK
<1> HIDE DEF r
<1>2. [r EXCEPT !.pending = TRUE, !.kind = kind, !.answered = FALSE] \in ListingRow
  BY <1>1 DEF ListingRow, ReviewKinds
<1>3. listing' \in [Listing -> ListingRow]
  BY <1>2, WriteListingType DEF Report, r
<1> QED
  BY <1>3 DEF Report, TypeOK

(* Type correctness of the administrator's handlers. *)
LEMMA AdminType ==
  ASSUME TypeOK, NEW l \in Listing, AdminStep(l)
  PROVE  TypeOK'
<1> DEFINE row == listing[l]
<1>r. row \in ListingRow
  BY DEF TypeOK
<1> HIDE DEF row
<1>1. ASSUME Dismiss(l) PROVE TypeOK'
  <2>1. [row EXCEPT !.pending = FALSE, !.answered = FALSE] \in ListingRow
    BY <1>r DEF ListingRow
  <2>2. listing' \in [Listing -> ListingRow]
    BY <1>1, <2>1, WriteListingType DEF Dismiss, row
  <2> QED
    BY <1>1, <2>2 DEF Dismiss, TypeOK
<1>2. ASSUME NEW kind \in ReviewKinds, Pause(l, kind) PROVE TypeOK'
  <2>1. [row EXCEPT !.review = "paused", !.pending = FALSE, !.kind = kind,
                    !.answered = FALSE] \in ListingRow
    BY <1>r DEF ListingRow, ReviewKinds
  <2>2. listing' \in [Listing -> ListingRow]
    BY <1>2, <2>1, WriteListingType DEF Pause, row
  <2>3. order' \in [Order -> OrderRow]
    BY <1>2, SetPausedType DEF Pause
  <2> QED
    BY <1>2, <2>2, <2>3 DEF Pause, TypeOK
<1>3. ASSUME NEW outcome \in {"resume", "continue_pause", "rule_violation"},
             Review(l, outcome)
      PROVE  TypeOK'
  <2> DEFINE next == CASE outcome = "resume"         -> "clear"
                       [] outcome = "continue_pause" -> "paused"
                       [] outcome = "rule_violation" -> "rejected"
  <2>1. next \in {"clear", "paused", "rejected"}
    OBVIOUS
  <2>2. /\ WriteListing(l, [row EXCEPT !.review = next, !.answered = FALSE])
        /\ SetPaused(IF next = "clear" THEN OpenOrdersOf(l) ELSE {}, FALSE)
        /\ UNCHANGED <<inventory, draft>>
    BY <1>3 DEF Review, row
  <2> HIDE DEF next
  <2>3. [row EXCEPT !.review = next, !.answered = FALSE] \in ListingRow
    BY <1>r, <2>1 DEF ListingRow
  <2>4. listing' \in [Listing -> ListingRow]
    BY <2>2, <2>3, WriteListingType
  <2>5. order' \in [Order -> OrderRow]
    BY <2>2, SetPausedType
  <2> QED
    BY <2>2, <2>4, <2>5 DEF TypeOK
<1>4. ASSUME NEW o \in Order, ResolveAffectedOrder(l, o) PROVE TypeOK'
  <2> DEFINE r == order[o]
             refund == r.status # "pending_payment"
             next == IF refund THEN "refunded" ELSE "cancelled"
             settled == IF refund THEN r.settled \cup {"refund"} ELSE r.settled
             request == IF refund /\ r.request = "pending" THEN "closed" ELSE r.request
             issue == IF refund /\ r.issue = "open" THEN "resolved" ELSE r.issue
             reservation == IF Physical(l) THEN next ELSE r.reservation
             closed == [r EXCEPT !.status = next, !.paused = FALSE,
                                 !.settled = settled, !.request = request,
                                 !.issue = issue, !.reservation = reservation]
  <2>1. r \in OrderRow
    BY DEF TypeOK
  <2>2. /\ WriteOrder(o, closed)
        /\ MoveStock(o, IF refund THEN "refund_hold" ELSE "available")
        /\ UNCHANGED <<listing, draft>>
    BY <1>4 DEF ResolveAffectedOrder
  <2>3. next \in Statuses /\ next \in Reservations
    OBVIOUS
  <2>4. closed \in OrderRow
    <3>1. settled \in SUBSET Operations
      BY <2>1 DEF OrderRow
    <3>2. request \in Requests
      BY <2>1 DEF OrderRow
    <3>3. issue \in Issues
      BY <2>1 DEF OrderRow
    <3>4. reservation \in Reservations
      BY <2>1, <2>3 DEF OrderRow
    <3> HIDE DEF r, next, settled, request, issue, reservation,
            Statuses, Reservations, Issues, Requests, Operations
    <3> QED
      BY <2>1, <2>3, <3>1, <3>2, <3>3, <3>4 DEF OrderRow
  <2>5. order' \in [Order -> OrderRow]
    BY <2>2, <2>4, WriteOrderType
  <2>6. inventory' \in [Listing -> InventoryRow]
    BY <2>2, MoveStockType
  <2> QED
    BY <2>2, <2>5, <2>6 DEF TypeOK
<1> QED
  BY <1>1, <1>2, <1>3, <1>4 DEF AdminStep

(* Every step of the market, and every stutter, keeps the rows typed. *)
LEMMA NextType == TypeOK /\ [Next]_vars => TypeOK'
<1> SUFFICES ASSUME TypeOK, [Next]_vars PROVE TypeOK'
  OBVIOUS
<1>1. CASE UNCHANGED vars
  BY <1>1 DEF vars, TypeOK
<1>2. CASE Next
  BY <1>2, CheckoutType, ParticipantType, RulingType, ExpireType, ReportType,
     SellerType, AdminType DEF Next
<1> QED
  BY <1>1, <1>2

(* Every row keeps its type in every reachable state of any market. *)
THEOREM TypeCorrect == Spec => []TypeOK
BY InitType, NextType, PTL DEF Spec

-----------------------------------------------------------------------------
(***************************************************************************)
(* The stock ledger holds in every market: StockLedger is inductive        *)
(* together with the types. Every step of the market is of one of six      *)
(* kinds, sorted by what it does to the stock and to the orders' claims on *)
(* it; each kind preserves the ledger.                                     *)
(***************************************************************************)

Paying == {"pending_payment"}
Shipping == OpenStatuses \ Paying       \* open and paid

ListingsKept == \A m \in Listing : listing[m].exists => listing'[m].exists

(* No stock moves; no order changes its article, and each keeps its status *)
(* or goes from one paid open status to another.                           *)
Still ==
  /\ UNCHANGED inventory
  /\ ListingsKept
  /\ \A p \in Order :
       /\ order'[p].listing = order[p].listing
       /\ \/ order'[p].status = order[p].status
          \/ order[p].status \in Shipping /\ order'[p].status \in Shipping

(* The row of order o gets a status; the other orders stand.               *)
Becomes(o, status) ==
  /\ order'[o].status = status
  /\ order'[o].listing = order[o].listing
  /\ \A p \in Order \ {o} : order'[p] = order[p]

(* The unpaid order o is paid.                                             *)
Pays(o) ==
  /\ order[o].status \in Paying
  /\ Becomes(o, "pending_delivery")
  /\ UNCHANGED <<listing, inventory>>

(* The open order o closes with the given status, and its stock moves.     *)
Closes(o, status, availability) ==
  /\ \/ /\ order[o].status \in Paying
        /\ status \in {"cancelled", "expired"} /\ availability = "available"
     \/ /\ order[o].status \in Shipping
        /\ \/ status = "completed" /\ availability = "sold"
           \/ status = "refunded" /\ availability = "refund_hold"
  /\ Becomes(o, status)
  /\ MoveStock(o, availability)
  /\ UNCHANGED listing

Availabilities == {"available", "sold", "refund_hold"}

Sorted ==
  \/ Still
  \/ \E o \in Order : Pays(o)
  \/ \E o \in Order, status \in ClosedStatuses, availability \in Availabilities :
       Closes(o, status, availability)
  \/ \E a \in Account, o \in Order : Restore(a, o)
  \/ \E a \in Account : Checkout(a)
  \/ \E l \in Listing, committed \in BOOLEAN, replaces \in Listing \cup {NoListing} :
       CreateListing(l, committed, replaces)

-----------------------------------------------------------------------------
(* Every handler is of one of the kinds. *)

(* A row that stays, or goes from one paid open status to another, leaves  *)
(* everything still if no stock moves (deliver, issue and the like).       *)
LEMMA BecomesStill ==
  ASSUME NEW o \in Order, NEW status, Becomes(o, status),
         \/ order[o].status = status
         \/ order[o].status \in Shipping /\ status \in Shipping,
         UNCHANGED <<listing, inventory>>
  PROVE  Still
BY DEF Becomes, Still, ListingsKept

(* A closing step is sorted whatever its statuses are called. *)
LEMMA ClosesSorted ==
  ASSUME NEW o \in Order, NEW status, NEW availability,
         Closes(o, status, availability)
  PROVE  Sorted
BY DEF Closes, Sorted, ClosedStatuses, Availabilities

(* The nine participant actions (act). *)
LEMMA ParticipantSorted ==
  ASSUME TypeOK, NEW a \in Account, NEW o \in Order, ParticipantStep(a, o)
  PROVE  Sorted
<1>r. order[o] \in OrderRow
  BY DEF TypeOK
<1>1. CASE Cancel(a, o)
  <2>1. Becomes(o, "cancelled")
    BY <1>1, <1>r DEF Cancel, Becomes, WriteOrder, OrderRow, TypeOK
  <2>2. Closes(o, "cancelled", "available")
    BY <1>1, <2>1 DEF Cancel, Closes, Paying, Shipping, OpenStatuses
  <2> QED
    BY <2>2, ClosesSorted
<1>2. CASE Pay(a, o)
  <2>1. Becomes(o, "pending_delivery")
    BY <1>2, <1>r DEF Pay, Becomes, WriteOrder, OrderRow, TypeOK
  <2> QED
    BY <1>2, <2>1 DEF Pay, Pays, Paying, Sorted
<1>3. CASE Accept(a, o)
  <2>1. Becomes(o, "completed")
    BY <1>3, <1>r DEF Accept, Becomes, WriteOrder, OrderRow, TypeOK
  <2>2. Closes(o, "completed", "sold")
    BY <1>3, <2>1 DEF Accept, Closes, Paying, Shipping, OpenStatuses
  <2> QED
    BY <2>2, ClosesSorted
<1>4. CASE Issue(a, o)
  <2>1. Becomes(o, "issue")
    BY <1>4, <1>r DEF Issue, Becomes, WriteOrder, OrderRow, TypeOK
  <2>2. Still
    BY <1>4, <2>1, BecomesStill DEF Issue, Paying, Shipping, OpenStatuses
  <2> QED
    BY <2>2 DEF Sorted
<1>5. CASE RequestRefund(a, o)
  <2>1. Becomes(o, order[o].status)
    BY <1>5, <1>r DEF RequestRefund, Becomes, WriteOrder, OrderRow, TypeOK
  <2>2. Still
    BY <1>5, <2>1, BecomesStill DEF RequestRefund, Paying, Shipping, OpenStatuses
  <2> QED
    BY <2>2 DEF Sorted
<1>6. CASE Deliver(a, o)
  <2>1. Becomes(o, IF order[o].status = "issue" THEN "issue" ELSE "pending_acceptance")
    BY <1>6, <1>r DEF Deliver, Becomes, WriteOrder, OrderRow, TypeOK
  <2>2. Still
    BY <1>6, <2>1, BecomesStill DEF Deliver, Paying, Shipping, OpenStatuses
  <2> QED
    BY <2>2 DEF Sorted
<1>7. CASE Counteroffer(a, o)
  <2>1. Becomes(o, order[o].status)
    BY <1>7, <1>r DEF Counteroffer, Becomes, WriteOrder, OrderRow, TypeOK
  <2>2. Still
    BY <1>7, <2>1, BecomesStill DEF Counteroffer, Paying, Shipping, OpenStatuses
  <2> QED
    BY <2>2 DEF Sorted
<1>8. CASE Refund(a, o)
  <2>1. Becomes(o, "refunded")
    BY <1>8, <1>r DEF Refund, Becomes, WriteOrder, OrderRow, TypeOK
  <2>2. Closes(o, "refunded", "refund_hold")
    BY <1>8, <2>1 DEF Refund, Closes, Paying, Shipping, OpenStatuses
  <2> QED
    BY <2>2, ClosesSorted
<1>9. CASE Restore(a, o)
  BY <1>9 DEF Sorted
<1> QED
  BY <1>1, <1>2, <1>3, <1>4, <1>5, <1>6, <1>7, <1>8, <1>9 DEF ParticipantStep

(* The administrator's ruling on a dispute (resolveDispute). *)
LEMMA RulingSorted ==
  ASSUME TypeOK, NEW o \in Order, NEW outcome \in {"refund", "release"},
         ResolveDispute(o, outcome)
  PROVE  Sorted
<1>r. order[o] \in OrderRow
  BY DEF TypeOK
<1>1. CASE outcome = "refund"
  <2>1. Becomes(o, "refunded")
    BY <1>1, <1>r DEF ResolveDispute, Becomes, WriteOrder, OrderRow, TypeOK
  <2>2. Closes(o, "refunded", "refund_hold")
    BY <1>1, <2>1 DEF ResolveDispute, Closes, Paying, Shipping, OpenStatuses
  <2> QED
    BY <2>2, ClosesSorted
<1>2. CASE outcome = "release"
  <2>1. Becomes(o, "completed")
    BY <1>2, <1>r DEF ResolveDispute, Becomes, WriteOrder, OrderRow, TypeOK
  <2>2. Closes(o, "completed", "sold")
    BY <1>2, <2>1 DEF ResolveDispute, Closes, Paying, Shipping, OpenStatuses
  <2> QED
    BY <2>2, ClosesSorted
<1> QED
  BY <1>1, <1>2

(* One candidate of the payment timer (Expire). *)
LEMMA ExpireSorted ==
  ASSUME TypeOK, NEW o \in Order, Expire(o)
  PROVE  Sorted
<1>1. Becomes(o, "expired")
  BY DEF Expire, Becomes, WriteOrder, OrderRow, TypeOK
<1>2. Closes(o, "expired", "available")
  BY <1>1 DEF Expire, Closes, Paying
<1> QED
  BY <1>2, ClosesSorted

(* The resolution of a frozen order, which does not look at the stock row  *)
(* it overwrites (resolveAffectedOrder).                                   *)
LEMMA ResolveSorted ==
  ASSUME TypeOK, NEW l \in Listing, NEW o \in Order, ResolveAffectedOrder(l, o)
  PROVE  Sorted
<1>r. order[o] \in OrderRow
  BY DEF TypeOK
<1>1. CASE order[o].status = "pending_payment"
  <2>1. Becomes(o, "cancelled")
    BY <1>1, <1>r DEF ResolveAffectedOrder, Becomes, WriteOrder, OrderRow, TypeOK
  <2>2. Closes(o, "cancelled", "available")
    BY <1>1, <2>1 DEF ResolveAffectedOrder, Closes, Paying
  <2> QED
    BY <2>2, ClosesSorted
<1>2. CASE order[o].status # "pending_payment"
  <2>1. Becomes(o, "refunded")
    BY <1>2, <1>r DEF ResolveAffectedOrder, Becomes, WriteOrder, OrderRow, TypeOK
  <2>2. Closes(o, "refunded", "refund_hold")
    BY <1>2, <2>1 DEF ResolveAffectedOrder, Closes, Paying, Shipping, OpenOrdersOf
  <2> QED
    BY <2>2, ClosesSorted
<1> QED
  BY <1>1, <1>2

(* Freezing or releasing orders leaves everything still. *)
LEMMA PausedStill ==
  ASSUME TypeOK, NEW S, NEW paused \in BOOLEAN, SetPaused(S, paused),
         UNCHANGED inventory, ListingsKept
  PROVE  Still
BY DEF TypeOK, SetPaused, Still, OrderRow

(* Writing an existing listing row makes no listing disappear. *)
LEMMA WriteListingKept ==
  ASSUME TypeOK, NEW l \in Listing, NEW row, WriteListing(l, row),
         row.exists = listing[l].exists
  PROVE  ListingsKept
BY DEF TypeOK, WriteListing, ListingsKept

(* The handlers of the seller and of the administrator on a listing. *)
LEMMA ListingSorted ==
  ASSUME TypeOK, NEW l \in Listing, SellerStep(l) \/ AdminStep(l)
  PROVE  Sorted
<1>r. listing[l] \in ListingRow
  BY DEF TypeOK
<1>k. UNCHANGED <<order, inventory>> /\ ListingsKept => Sorted
  BY DEF Still, Sorted
<1>1. ASSUME NEW old \in Listing, ReadReplaced(l, old) PROVE Sorted
  BY <1>1, <1>k DEF ReadReplaced, ListingsKept
<1>2. ASSUME NEW committed \in BOOLEAN, NEW priced \in BOOLEAN,
             EditContent(l, committed, priced)
      PROVE  Sorted
  BY <1>2, <1>r, <1>k, WriteListingKept DEF EditContent, ListingRow
<1>3. ASSUME NEW published \in BOOLEAN, SetPublication(l, published) PROVE Sorted
  BY <1>3, <1>r, <1>k, WriteListingKept DEF SetPublication, ListingRow
<1>4. ASSUME SourceResponse(Seller[l], l) PROVE Sorted
  BY <1>4, <1>r, <1>k, WriteListingKept DEF SourceResponse, ListingRow
<1>5. ASSUME Dismiss(l) PROVE Sorted
  BY <1>5, <1>r, <1>k, WriteListingKept DEF Dismiss, ListingRow
<1>6. ASSUME NEW kind \in ReviewKinds, Pause(l, kind) PROVE Sorted
  <2>1. ListingsKept
    BY <1>6, <1>r, WriteListingKept DEF Pause, ListingRow
  <2>2. Still
    BY <1>6, <2>1, PausedStill DEF Pause
  <2> QED
    BY <2>2 DEF Sorted
<1>7. ASSUME NEW outcome \in {"resume", "continue_pause", "rule_violation"},
             Review(l, outcome)
      PROVE  Sorted
  <2>1. PICK next :
          /\ WriteListing(l, [listing[l] EXCEPT !.review = next, !.answered = FALSE])
          /\ SetPaused(IF next = "clear" THEN OpenOrdersOf(l) ELSE {}, FALSE)
          /\ UNCHANGED inventory
    BY <1>7 DEF Review
  <2>2. ListingsKept
    BY <1>r, <2>1, WriteListingKept DEF ListingRow
  <2>3. Still
    BY <2>1, <2>2, PausedStill
  <2> QED
    BY <2>3 DEF Sorted
<1>8. ASSUME NEW o \in Order, ResolveAffectedOrder(l, o) PROVE Sorted
  BY <1>8, ResolveSorted
<1>9. ASSUME NEW committed \in BOOLEAN, NEW replaces \in Listing \cup {NoListing},
             CreateListing(l, committed, replaces)
      PROVE  Sorted
  BY <1>9 DEF Sorted
<1> QED
  BY <1>1, <1>2, <1>3, <1>4, <1>5, <1>6, <1>7, <1>8, <1>9 DEF SellerStep, AdminStep

(* A report leaves everything still. *)
LEMMA ReportSorted ==
  ASSUME TypeOK, NEW a \in Account, NEW l \in Listing, NEW kind \in ReviewKinds,
         Report(a, l, kind)
  PROVE  Sorted
<1>1. listing[l] \in ListingRow
  BY DEF TypeOK
<1>2. ListingsKept
  BY <1>1, WriteListingKept DEF Report, ListingRow
<1> QED
  BY <1>2 DEF Report, Still, Sorted

(* Every step of a well-typed market, and every stutter, is sorted. *)
LEMMA NextSorted ==
  ASSUME TypeOK, [Next]_vars
  PROVE  Sorted
<1>1. CASE UNCHANGED vars
  BY <1>1 DEF vars, Still, ListingsKept, Sorted
<1>2. ASSUME NEW a \in Account, Checkout(a) PROVE Sorted
  BY <1>2 DEF Sorted
<1> QED
  BY <1>1, <1>2, ParticipantSorted, RulingSorted, ExpireSorted, ReportSorted,
     ListingSorted DEF Next

-----------------------------------------------------------------------------
(* Every kind of step preserves the ledger. *)

(* A step that moves no stock and keeps every claim on it preserves the    *)
(* ledger (pay, deliver, issue, pause, edit and the like).                 *)
LEMMA StillLedger ==
  ASSUME TypeOK, StockLedger, Still \/ \E o \in Order : Pays(o)
  PROVE  StockLedger'
<1>0. /\ UNCHANGED inventory /\ ListingsKept
      /\ \A p \in Order :
           /\ order'[p].listing = order[p].listing
           /\ \/ order'[p].status = order[p].status
              \/ order[p].status \in OpenStatuses /\ order'[p].status \in OpenStatuses
  BY DEF Still, Pays, Becomes, ListingsKept, Paying, Shipping, OpenStatuses
<1>1. ASSUME NEW l \in Listing, NEW o \in Order
      PROVE  /\ o \in OrdersOf(l)' <=> o \in OrdersOf(l)
             /\ order'[o].status \in Claiming <=> order[o].status \in Claiming
             /\ Holds(o, l) => Holds(o, l)'
  BY <1>0 DEF OpenStatuses, Claiming, OrdersOf, Holds, StockOf
<1>2. ASSUME NEW l \in Listing PROVE OrdersOf(l)' = OrdersOf(l) /\ Idle(l)' = Idle(l)
  BY <1>0, <1>1 DEF OrdersOf, Idle
<1>3. OrdersListed'
  BY <1>0, <1>2 DEF ListingsKept, StockLedger, OrdersListed
<1>4. HolderOwnsStock'
  BY <1>1, <1>2 DEF StockLedger, HolderOwnsStock, OrdersOf
<1>5. ClaimsHoldStock'
  BY <1>0, <1>1, <1>2 DEF StockLedger, ClaimsHoldStock, OrdersOf
<1> QED
  BY <1>3, <1>4, <1>5 DEF StockLedger

(* Closing an order that holds its stock, and moving that stock to where   *)
(* the final status puts it, preserves the ledger (closeInventory).        *)
LEMMA ClosesLedger ==
  ASSUME TypeOK, StockLedger, NEW o \in Order, NEW status, NEW availability,
         Closes(o, status, availability)
  PROVE  StockLedger'
<1> DEFINE k == order[o].listing
<1>k. k \in Listing /\ o \in OrdersOf(k)
  BY DEF TypeOK, OrderRow, Closes, Becomes, OpenStatuses, Paying, Shipping, OrdersOf
<1>1. ASSUME NEW l \in Listing PROVE OrdersOf(l)' = OrdersOf(l)
  BY DEF Closes, Becomes, OrdersOf, OpenStatuses, Paying, Shipping
<1>2. OrdersListed'
  BY <1>1 DEF Closes, StockLedger, OrdersListed
<1>3. ASSUME NEW l \in Listing, l # k \/ ~Stocked(l) PROVE inventory'[l] = inventory[l]
  BY <1>3, <1>k DEF Closes, Becomes, MoveStock, TypeOK
<1>4. ASSUME Stocked(k)
      PROVE  inventory'[k] = [availability |-> availability,
                              holder |-> IF availability = "available" THEN NoOrder ELSE o]
  BY <1>4, <1>k DEF Closes, Becomes, MoveStock, TypeOK
<1>5. ASSUME Stocked(k), NEW p \in OrdersOf(k), order[p].status \in Claiming PROVE p = o
  BY <1>k, <1>5 DEF StockLedger, ClaimsHoldStock, Claiming, Closes, Becomes, OpenStatuses, Paying,
                   Shipping
<1>6. HolderOwnsStock'
  <2> SUFFICES ASSUME NEW l \in Listing, Stocked(l), ~Idle(l)'
               PROVE  \E p \in OrdersOf(l) : Holds(p, l)'
    BY <1>1 DEF HolderOwnsStock
  <2>1. CASE l = k
    <3>1. \/ status = "completed" /\ availability = "sold"
          \/ status = "refunded" /\ availability = "refund_hold"
      BY <2>1, <1>4 DEF Closes, Idle
    <3>2. Holds(o, l)'
      BY <2>1, <3>1, <1>4 DEF Closes, Becomes, Holds, StockOf, Claiming, OpenStatuses, Paying, Shipping
    <3> QED
      BY <2>1, <3>2, <1>k
  <2>2. CASE l # k
    <3>1. PICK p \in OrdersOf(l) : Holds(p, l)
      BY <2>2, <1>3 DEF StockLedger, HolderOwnsStock, Idle
    <3>2. p # o /\ order'[p] = order[p]
      BY <2>2 DEF OrdersOf, Closes, Becomes
    <3> QED
      BY <2>2, <3>1, <3>2, <1>3 DEF Holds
  <2> QED
    BY <2>1, <2>2
<1>7. ClaimsHoldStock'
  <2> SUFFICES ASSUME NEW l \in Listing, Stocked(l),
                      NEW p \in OrdersOf(l), order'[p].status \in Claiming
               PROVE  inventory'[l].holder = p
    BY <1>1 DEF ClaimsHoldStock
  <2>1. CASE p = o
    BY <2>1, <1>4 DEF Closes, Becomes, Claiming, OpenStatuses, Paying, Shipping, OrdersOf
  <2>2. CASE p # o
    <3>1. order'[p] = order[p]
      BY <2>2 DEF Closes, Becomes, OrdersOf
    <3>2. l # k
      BY <3>1, <2>2, <1>5
    <3> QED
      BY <3>1, <3>2, <1>3 DEF StockLedger, ClaimsHoldStock
  <2> QED
    BY <2>1, <2>2
<1> QED
  BY <1>2, <1>6, <1>7 DEF StockLedger

(* The article of a refunded order goes back on the shelf.                 *)
LEMMA RestoreLedger ==
  ASSUME TypeOK, StockLedger, NEW a \in Account, NEW o \in Order, Restore(a, o)
  PROVE  StockLedger'
<1> DEFINE k == order[o].listing
<1>k. k \in Listing /\ o \in OrdersOf(k) /\ Stocked(k)
  BY DEF TypeOK, OrderRow, Restore, OrdersOf, Physical, Stocked
<1>1. UNCHANGED <<listing, order>>
  BY DEF Restore
<1>2. inventory' = [inventory EXCEPT ![k] =
                      [availability |-> "available", holder |-> NoOrder]]
  BY <1>k DEF Restore, MoveStock
<1>3. inventory[k].holder = o
  BY <1>k DEF Restore, HeldBy
<1>4. OrdersListed'
  BY <1>1 DEF StockLedger, OrdersListed, OrdersOf
<1>5. HolderOwnsStock'
  BY <1>1, <1>2 DEF StockLedger, HolderOwnsStock, OrdersOf, Idle, Holds, TypeOK
<1>6. ClaimsHoldStock'
  <2>1. ASSUME NEW p \in OrdersOf(k) PROVE order[p].status \notin Claiming
    BY <2>1, <1>3, <1>k DEF StockLedger, ClaimsHoldStock, Claiming, OpenStatuses, Restore
  <2> QED
    BY <1>1, <1>2, <2>1 DEF StockLedger, ClaimsHoldStock, OrdersOf, TypeOK
<1> QED
  BY <1>4, <1>5, <1>6 DEF StockLedger

(* Fresh orders take articles nothing holds.                               *)
LEMMA CheckoutLedger ==
  ASSUME TypeOK, StockLedger, NEW a \in Account, Checkout(a)
  PROVE  StockLedger'
<1>1. PICK items \in SUBSET Listing : \E id \in [items -> Order] : CreateOrders(a, id)
  BY DEF Checkout
<1>0. PICK id \in [items -> Order] : CreateOrders(a, id)
  BY <1>1
<1> DEFINE made == {id[l] : l \in items}
           lineOf(o) == CHOOSE l \in items : id[l] = o
<1>2. /\ DOMAIN id = items
      /\ \A l \in items : Purchasable(l, a)
      /\ \A l, m \in items : l # m => id[l] # id[m]
      /\ \A o \in made : order[o].status = "none"
      /\ order' = [o \in Order |-> IF o \in made THEN NewOrder(lineOf(o), a)
                                                 ELSE order[o]]
      /\ inventory' = [l \in Listing |-> IF l \in items /\ Stocked(l)
                         THEN [availability |-> "reserved", holder |-> id[l]]
                         ELSE inventory[l]]
      /\ listing' = listing
  BY <1>0 DEF CreateOrders
<1>3. \A l \in items : lineOf(id[l]) = l
  BY <1>2
<1>4. ASSUME NEW l \in items
      PROVE  /\ id[l] \in Order
             /\ order'[id[l]].status = "pending_payment"
             /\ order'[id[l]].listing = l
  <2>1. order'[id[l]] = NewOrder(l, a)
    BY <1>2, <1>3
  <2> QED
    BY <2>1 DEF NewOrder
<1>5. ASSUME NEW o \in Order, o \notin made PROVE order'[o] = order[o]
  BY <1>2, <1>5
<1> HIDE DEF lineOf
<1>6. ASSUME NEW l \in items, Stocked(l) PROVE Idle(l)
  <2>1. inventory[l].availability = "available"
    BY <1>2, <1>6 DEF Purchasable
  <2>2. ASSUME NEW o \in Order, Holds(o, l) PROVE inventory[l].availability # "available"
    BY <2>2 DEF Holds, StockOf
  <2> QED
    BY <2>1, <2>2, <1>6 DEF StockLedger, HolderOwnsStock, OrdersOf
<1>7. OrdersListed'
  <2> SUFFICES ASSUME NEW l \in Listing, NEW o \in OrdersOf(l)'
               PROVE  listing'[l].exists
    BY DEF OrdersListed
  <2>1. CASE o \in made
    <3>1. PICK m \in items : o = id[m]
      BY <2>1
    <3>2. m = l
      BY <3>1, <1>4 DEF OrdersOf
    <3> QED
      BY <3>2, <1>2 DEF Purchasable
  <2>2. CASE o \notin made
    BY <2>2, <1>2, <1>5 DEF StockLedger, OrdersListed, OrdersOf
  <2> QED
    BY <2>1, <2>2
<1>8. HolderOwnsStock'
  <2> SUFFICES ASSUME NEW l \in Listing, Stocked(l), ~Idle(l)'
               PROVE  \E o \in OrdersOf(l)' : Holds(o, l)'
    BY DEF HolderOwnsStock
  <2>1. CASE l \in items
    <3>1. inventory'[l] = [availability |-> "reserved", holder |-> id[l]]
      BY <2>1, <1>2
    <3>2. id[l] \in OrdersOf(l)'
      BY <2>1, <1>4 DEF OrdersOf
    <3>3. Holds(id[l], l)'
      BY <2>1, <1>4, <3>1 DEF Holds, Claiming, OpenStatuses, StockOf
    <3> QED
      BY <3>2, <3>3
  <2>2. CASE l \notin items
    <3>1. inventory'[l] = inventory[l]
      BY <2>2, <1>2
    <3>2. PICK o \in OrdersOf(l) : Holds(o, l)
      BY <3>1 DEF StockLedger, HolderOwnsStock, Idle
    <3>3. order'[o] = order[o]
      BY <1>2, <1>5 DEF OrdersOf
    <3> QED
      BY <3>1, <3>2, <3>3 DEF Holds, OrdersOf
  <2> QED
    BY <2>1, <2>2
<1>9. ClaimsHoldStock'
  <2> SUFFICES ASSUME NEW l \in Listing, Stocked(l), NEW o \in OrdersOf(l)',
                      order'[o].status \in Claiming
               PROVE  inventory'[l].holder = o
    BY DEF ClaimsHoldStock
  <2>1. CASE o \in made
    <3>1. PICK m \in items : o = id[m]
      BY <2>1
    <3>2. m = l
      BY <3>1, <1>4 DEF OrdersOf
    <3> QED
      BY <3>1, <3>2, <1>2
  <2>2. CASE o \notin made
    <3>1. o \in OrdersOf(l) /\ order[o].status \in Claiming
      BY <2>2, <1>5 DEF OrdersOf
    <3>2. inventory[l].holder = o
      BY <3>1 DEF StockLedger, ClaimsHoldStock
    <3>3. l \notin items
      BY <3>2, <1>6, MarketAssumption DEF Idle, OrdersOf
    <3> QED
      BY <3>2, <3>3, <1>2
  <2> QED
    BY <2>1, <2>2
<1> QED
  BY <1>7, <1>8, <1>9 DEF StockLedger

(* A new listing has no orders and its article is on the shelf.            *)
LEMMA CreateLedger ==
  ASSUME TypeOK, StockLedger, NEW l \in Listing, NEW committed \in BOOLEAN,
         NEW replaces \in Listing \cup {NoListing},
         CreateListing(l, committed, replaces)
  PROVE  StockLedger'
<1>1. ~listing[l].exists /\ OrdersOf(l) = {}
  BY DEF CreateListing, StockLedger, OrdersListed
<1>2. /\ order' = order
      /\ inventory' = [inventory EXCEPT ![l] =
                         [availability |-> "available", holder |-> NoOrder]]
      /\ \A m \in Listing : listing[m].exists => listing'[m].exists
  BY DEF CreateListing, WriteListing, TypeOK
<1>3. OrdersListed'
  BY <1>2 DEF StockLedger, OrdersListed, OrdersOf
<1>4. HolderOwnsStock'
  BY <1>2 DEF StockLedger, HolderOwnsStock, OrdersOf, Idle, Holds, TypeOK
<1>5. ClaimsHoldStock'
  <2>1. OrdersOf(l)' = {}
    BY <1>1, <1>2 DEF OrdersOf
  <2> QED
    BY <1>2, <2>1 DEF StockLedger, ClaimsHoldStock, OrdersOf, TypeOK
<1> QED
  BY <1>3, <1>4, <1>5 DEF StockLedger

(* The ledger holds when no order exists. *)
LEMMA InitLedger == Init => StockLedger
BY DEF Init, BlankOrder, StockLedger, OrdersListed, HolderOwnsStock, ClaimsHoldStock,
       OrdersOf, Idle

(* Every step of a well-typed market preserves the ledger. *)
LEMMA NextLedger == TypeOK /\ StockLedger /\ [Next]_vars => StockLedger'
<1> SUFFICES ASSUME TypeOK, StockLedger, [Next]_vars PROVE StockLedger'
  OBVIOUS
<1>1. Sorted
  BY NextSorted
<1> QED
  BY <1>1, StillLedger, ClosesLedger, RestoreLedger, CheckoutLedger, CreateLedger
     DEF Sorted

(* In every market of any size, a one-off article is never in two hands:   *)
(* each inventory row is held by exactly the order that claims it.         *)
THEOREM LedgerHolds == Spec => []StockLedger
<1>1. Init => TypeOK /\ StockLedger
  BY InitType, InitLedger
<1>2. TypeOK /\ StockLedger /\ [Next]_vars => (TypeOK /\ StockLedger)'
  BY NextType, NextLedger
<1> QED
  BY <1>1, <1>2, PTL DEF Spec

-----------------------------------------------------------------------------
(***************************************************************************)
(* Every market implements Trade: under the mapping of Market each kind of *)
(* step of LedgerProofs is a step of Trade or a stutter. The ledger is     *)
(* what makes it true: the order that is closed owns its article, and the  *)
(* article of a fresh order has no owner.                                  *)
(***************************************************************************)

(* The mapped variables, named as in Trade. *)
phaseBar == [o \in Order |-> PhaseOf(order[o].status)]
articleBar == [o \in Order |-> order[o].listing]
ownerBar == [l \in Listing |-> IF Stocked(l) THEN inventory[l].holder ELSE NoOrder]

TradeStep == [MarketTrade!TradeNext]_(MarketTrade!tradeVars)

(* The phase of each status (the refinement mapping of Market). *)
LEMMA Phases ==
  /\ PhaseOf("none") = "none"
  /\ \A s \in Paying : PhaseOf(s) = "open"
  /\ \A s \in Shipping : PhaseOf(s) = "paid"
  /\ PhaseOf("completed") = "released" /\ PhaseOf("refunded") = "refunded"
  /\ PhaseOf("cancelled") = "void" /\ PhaseOf("expired") = "void"
BY DEF PhaseOf, Paying, Shipping, OpenStatuses

(* The empty market is an initial state of Trade. *)
LEMMA InitTrade == Init => MarketTrade!TradeInit
<1> SUFFICES ASSUME Init PROVE MarketTrade!TradeInit
  OBVIOUS
<1>1. TypeOK
  BY InitType
<1>2. phaseBar = [o \in Order |-> "none"]
  BY Phases DEF Init, BlankOrder, phaseBar
<1>3. articleBar \in [Order -> Listing]
  BY <1>1 DEF TypeOK, OrderRow, articleBar
<1>4. ownerBar = [l \in Listing |-> NoOrder]
  BY DEF Init, ownerBar
<1> QED
  BY <1>2, <1>3, <1>4 DEF MarketTrade!TradeInit, phaseBar, articleBar, ownerBar

(* What moves no stock and no order to another phase is a stutter. *)
LEMMA StillTrade ==
  ASSUME TypeOK, Still
  PROVE  TradeStep
<1>1. \A o \in Order : PhaseOf(order'[o].status) = PhaseOf(order[o].status)
  BY Phases DEF Still
<1>2. phaseBar' = phaseBar /\ articleBar' = articleBar /\ ownerBar' = ownerBar
  BY <1>1 DEF Still, phaseBar, articleBar, ownerBar
<1> QED
  BY <1>2 DEF TradeStep, MarketTrade!tradeVars, phaseBar, articleBar, ownerBar

(* The order of an open or completed status owns its article. *)
LEMMA ClaimsTrade ==
  ASSUME TypeOK, StockLedger, NEW o \in Order, order[o].status \in Claiming
  PROVE  MarketTrade!Claims(o)
<1>1. order[o].listing \in Listing /\ o \in OrdersOf(order[o].listing)
  BY DEF TypeOK, OrderRow, OrdersOf, Claiming, OpenStatuses
<1>2. Stocked(order[o].listing) => inventory[order[o].listing].holder = o
  BY <1>1 DEF StockLedger, ClaimsHoldStock
<1> QED
  BY <1>1, <1>2 DEF MarketTrade!Claims, OneOffListings

(* A row that becomes another status moves its phase and no other. *)
LEMMA BecomesTrade ==
  ASSUME TypeOK, NEW o \in Order, NEW status, Becomes(o, status)
  PROVE  /\ phaseBar' = [phaseBar EXCEPT ![o] = PhaseOf(status)]
         /\ articleBar' = articleBar
BY DEF Becomes, phaseBar, articleBar, TypeOK

(* Payment is a payment of Trade. *)
LEMMA PaysTrade ==
  ASSUME TypeOK, StockLedger, NEW o \in Order, Pays(o)
  PROVE  TradeStep
<1>1. MarketTrade!Claims(o)
  BY ClaimsTrade DEF Pays, Paying, Claiming, OpenStatuses
<1>2. phaseBar[o] = "open" /\ PhaseOf("pending_delivery") = "paid"
  BY Phases DEF Pays, Shipping, Paying, OpenStatuses, phaseBar
<1>3. /\ phaseBar' = [phaseBar EXCEPT ![o] = "paid"]
      /\ articleBar' = articleBar
  BY <1>2, BecomesTrade DEF Pays
<1>4. ownerBar' = ownerBar
  BY DEF Pays, ownerBar
<1>5. MarketTrade!Pay(o)
  BY <1>1, <1>2, <1>3, <1>4
     DEF MarketTrade!Pay, MarketTrade!Move, phaseBar, articleBar, ownerBar
<1> QED
  BY <1>5 DEF TradeStep, MarketTrade!TradeNext

(* Closing an order is a release, a refund or the end of an unpaid one. *)
LEMMA ClosesTrade ==
  ASSUME TypeOK, StockLedger, NEW o \in Order, NEW status, NEW availability,
         Closes(o, status, availability)
  PROVE  TradeStep
<1> DEFINE k == order[o].listing
<1>k. k \in Listing
  BY DEF TypeOK, OrderRow
<1>1. MarketTrade!Claims(o) /\ (Stocked(k) => inventory[k].holder = o)
  <2>1. order[o].status \in Claiming
    BY DEF Closes, Paying, Shipping, Claiming, OpenStatuses
  <2> QED
    BY <2>1, <1>k, ClaimsTrade DEF MarketTrade!Claims, OneOffListings
<1>2. /\ phaseBar' = [phaseBar EXCEPT ![o] = PhaseOf(status)]
      /\ articleBar' = articleBar
  BY BecomesTrade DEF Closes
<1>3. CASE order[o].status \in Paying
  <2>1. phaseBar[o] = "open" /\ PhaseOf(status) = "void" /\ availability = "available"
    BY <1>3, Phases DEF Closes, Paying, Shipping, phaseBar
  <2>2. ownerBar' = [l \in Listing |-> IF l = k /\ Stocked(l) THEN NoOrder
                                                             ELSE ownerBar[l]]
    BY <2>1, <1>k DEF Closes, MoveStock, ownerBar, TypeOK
  <2>3. MarketTrade!FreeArticle(o)
    BY <2>2 DEF MarketTrade!FreeArticle, OneOffListings, ownerBar
  <2>4. MarketTrade!Void(o)
    BY <1>1, <1>2, <2>1, <2>3 DEF MarketTrade!Void, MarketTrade!Move, phaseBar, articleBar
  <2> QED
    BY <2>4 DEF TradeStep, MarketTrade!TradeNext
<1>4. CASE order[o].status \in Shipping
  <2>1. /\ phaseBar[o] = "paid"
        /\ PhaseOf(status) \in {"released", "refunded"}
        /\ availability # "available"
    BY <1>4, Phases DEF Closes, Paying, Shipping, phaseBar
  <2>2. ownerBar' = ownerBar
    BY <2>1, <1>1, <1>k DEF Closes, MoveStock, ownerBar, TypeOK
  <2>3. MarketTrade!Release(o) \/ MarketTrade!Refund(o)
    BY <1>1, <1>2, <2>1, <2>2
       DEF MarketTrade!Release, MarketTrade!Refund, MarketTrade!Move, phaseBar,
           articleBar, ownerBar
  <2> QED
    BY <2>3 DEF TradeStep, MarketTrade!TradeNext
<1> QED
  BY <1>3, <1>4 DEF Closes

(* Restoring the article of a refunded order is a restock of Trade. *)
LEMMA RestoreTrade ==
  ASSUME TypeOK, NEW a \in Account, NEW o \in Order, Restore(a, o)
  PROVE  TradeStep
<1> DEFINE k == order[o].listing
<1>1. k \in Listing /\ Stocked(k) /\ inventory[k].holder = o
  BY DEF TypeOK, OrderRow, Restore, HeldBy, Physical, Stocked
<1>2. phaseBar[o] = "refunded" /\ phaseBar' = phaseBar /\ articleBar' = articleBar
  BY Phases DEF Restore, phaseBar, articleBar
<1>3. ownerBar' = [l \in Listing |-> IF l = k /\ Stocked(l) THEN NoOrder ELSE ownerBar[l]]
  BY <1>1 DEF Restore, MoveStock, ownerBar, TypeOK
<1>4. MarketTrade!Restock(o)
  BY <1>1, <1>2, <1>3
     DEF MarketTrade!Restock, MarketTrade!FreeArticle, OneOffListings, phaseBar,
         articleBar, ownerBar
<1> QED
  BY <1>4 DEF TradeStep, MarketTrade!TradeNext

(* A cart opens its orders together: the articles of its lines have no     *)
(* owner, since a row on the shelf is held by no order.                    *)
LEMMA CheckoutTrade ==
  ASSUME TypeOK, StockLedger, NEW a \in Account, Checkout(a)
  PROVE  TradeStep
<1>1. PICK items \in SUBSET Listing : \E id \in [items -> Order] : CreateOrders(a, id)
  BY DEF Checkout
<1>2. PICK id \in [items -> Order] : CreateOrders(a, id)
  BY <1>1
<1> DEFINE made == {id[l] : l \in items}
           lineOf(o) == CHOOSE l \in items : id[l] = o
           of == [o \in made |-> lineOf(o)]
<1>3. /\ DOMAIN id = items
      /\ \A l \in items : Purchasable(l, a)
      /\ \A l, m \in items : l # m => id[l] # id[m]
      /\ \A o \in made : order[o].status = "none"
      /\ order' = [o \in Order |-> IF o \in made THEN NewOrder(lineOf(o), a)
                                                 ELSE order[o]]
      /\ inventory' = [l \in Listing |-> IF l \in items /\ Stocked(l)
                         THEN [availability |-> "reserved", holder |-> id[l]]
                         ELSE inventory[l]]
  BY <1>2 DEF CreateOrders
<1>4. \A l \in items : lineOf(id[l]) = l
  BY <1>3
<1>5. \A o \in made : lineOf(o) \in items /\ id[lineOf(o)] = o
  BY <1>4
<1>6. made \in SUBSET Order /\ of \in [made -> Listing]
  BY <1>5
<1> HIDE DEF lineOf
<1>7. ASSUME NEW o \in made PROVE phaseBar[o] = "none" /\ of[o] = lineOf(o)
  BY <1>3, <1>6, Phases DEF phaseBar
<1>8. ASSUME NEW o \in made, NEW p \in made, of[o] = of[p] PROVE o = p
  BY <1>5, <1>7, <1>8
<1>9. ASSUME NEW l \in items, Stocked(l) PROVE inventory[l].holder = NoOrder
  <2>1. inventory[l].availability = "available"
    BY <1>3, <1>9 DEF Purchasable
  <2>2. ASSUME NEW o \in Order, Holds(o, l) PROVE inventory[l].availability # "available"
    BY <2>2 DEF Holds, StockOf
  <2>3. Idle(l)
    BY <2>1, <2>2, <1>9 DEF StockLedger, HolderOwnsStock, OrdersOf
  <2> QED
    BY <2>3, <1>9 DEF Idle
<1>10. phaseBar' = [o \in Order |-> IF o \in made THEN "open" ELSE phaseBar[o]]
  <2>1. ASSUME NEW o \in Order
        PROVE  PhaseOf(order'[o].status) = IF o \in made THEN "open" ELSE phaseBar[o]
    <3>1. CASE o \in made
      BY <3>1, <1>3, Phases DEF NewOrder, Paying
    <3>2. CASE o \notin made
      BY <3>2, <1>3 DEF phaseBar
    <3> QED
      BY <3>1, <3>2
  <2> QED
    BY <2>1 DEF phaseBar
<1>11. articleBar' = [o \in Order |-> IF o \in made THEN of[o] ELSE articleBar[o]]
  <2>1. ASSUME NEW o \in Order
        PROVE  order'[o].listing = IF o \in made THEN of[o] ELSE articleBar[o]
    BY <1>3, <1>7 DEF NewOrder, articleBar
  <2> QED
    BY <2>1 DEF articleBar
<1>12. ASSUME NEW l \in Listing
       PROVE  /\ (\E o \in made : of[o] = l) <=> l \in items
              /\ l \in items => of[id[l]] = l /\ id[l] \in made
              /\ ownerBar'[l] = IF l \in items /\ Stocked(l) THEN id[l] ELSE ownerBar[l]
  BY <1>3, <1>4, <1>5, <1>7 DEF ownerBar
<1>13. ownerBar' \in [Listing -> Order \cup {NoOrder}]
  BY <1>3 DEF ownerBar, TypeOK, InventoryRow
<1>14. ASSUME NEW o \in made, Stocked(of[o]) PROVE ownerBar[of[o]] = NoOrder
  BY <1>5, <1>6, <1>7, <1>9, <1>14 DEF ownerBar
<1> HIDE DEF made, of
<1>15. ASSUME NEW l \in Listing
       PROVE  \/ \E o \in made : of[o] = l /\ l \in OneOffListings /\ ownerBar'[l] = o
              \/ /\ ~\E o \in made : of[o] = l /\ l \in OneOffListings
                 /\ ownerBar'[l] = ownerBar[l]
  BY <1>12 DEF OneOffListings
<1>16. MarketTrade!Open(made, of)
  BY <1>6, <1>7, <1>8, <1>10, <1>11, <1>13, <1>14, <1>15
     DEF MarketTrade!Open, OneOffListings, phaseBar, articleBar, ownerBar
<1> QED
  BY <1>6, <1>16 DEF TradeStep, MarketTrade!TradeNext

(* A new listing has an article no order owned before either. *)
LEMMA CreateTrade ==
  ASSUME TypeOK, StockLedger, NEW l \in Listing, NEW committed \in BOOLEAN,
         NEW replaces \in Listing \cup {NoListing},
         CreateListing(l, committed, replaces)
  PROVE  TradeStep
<1>1. OrdersOf(l) = {}
  BY DEF CreateListing, StockLedger, OrdersListed
<1>2. Stocked(l) => inventory[l].holder = NoOrder
  BY <1>1 DEF StockLedger, HolderOwnsStock, Idle
<1>3. phaseBar' = phaseBar /\ articleBar' = articleBar
  BY DEF CreateListing, phaseBar, articleBar
<1>4. ownerBar' = ownerBar
  BY <1>2 DEF CreateListing, ownerBar, TypeOK
<1> QED
  BY <1>3, <1>4 DEF TradeStep, MarketTrade!tradeVars, phaseBar, articleBar, ownerBar

(* In every market of any size, each committed transaction is a step of    *)
(* Trade or changes nothing a buyer or a seller was promised.              *)
THEOREM MarketImplementsTrade == Spec => ImplementsTrade
<1>1. Init => MarketTrade!TradeInit
  BY InitTrade
<1>2. TypeOK /\ StockLedger /\ [Next]_vars => [MarketTrade!TradeNext]_(MarketTrade!tradeVars)
  <2> SUFFICES ASSUME TypeOK, StockLedger, [Next]_vars PROVE TradeStep
    BY DEF TradeStep
  <2>1. Sorted
    BY NextSorted
  <2> QED
    BY <2>1, StillTrade, PaysTrade, ClosesTrade, RestoreTrade, CheckoutTrade, CreateTrade
       DEF Sorted
<1> QED
  BY <1>1, <1>2, TypeCorrect, LedgerHolds, PTL
     DEF Spec, ImplementsTrade, MarketTrade!TradeSpec

-----------------------------------------------------------------------------
(***************************************************************************)
(* The records an order owns agree with its status in every market: the    *)
(* settlement records (EscrowMatchesStatus) and the child rows             *)
(* (ChildRowsAgree). Both are inductive with the types, row by row: a      *)
(* handler writes one row, and only freezing writes several.               *)
(***************************************************************************)

EscrowOf(o) == order[o].settled = IF order[o].free THEN {} ELSE Owed(order[o].status)

Agrees(o) == EscrowOf(o) /\ RecordsAgree(o)

RecordsInv == \A o \in Order : Agrees(o)

(* What is owed in each status, and the reservation that goes with it. *)
LEMMA OwedValues ==
  /\ \A s \in {"none", "pending_payment", "cancelled", "expired"} : Owed(s) = {}
  /\ \A s \in {"pending_delivery", "pending_acceptance", "issue"} : Owed(s) = {"payment"}
  /\ Owed("completed") = {"payment", "release"}
  /\ Owed("refunded") = {"payment", "refund"}
BY DEF Owed

(* A handler that writes one row needs to look at that row alone. *)
LEMMA OneRow ==
  ASSUME TypeOK, RecordsInv, NEW o \in Order, NEW row, WriteOrder(o, row),
         order'[o] = row => Agrees(o)'
  PROVE  RecordsInv'
<1>1. order'[o] = row /\ \A p \in Order \ {o} : order'[p] = order[p]
  BY DEF WriteOrder, TypeOK
<1>2. ASSUME NEW p \in Order, p # o PROVE Agrees(p)'
  BY <1>1, <1>2 DEF RecordsInv, Agrees, EscrowOf, RecordsAgree
<1> QED
  BY <1>1, <1>2 DEF RecordsInv

(* A step that leaves all orders as they are, but for the pause. *)
LEMMA SameRows ==
  ASSUME RecordsInv,
         \A o \in Order : \/ order'[o] = order[o]
                          \/ \E b \in BOOLEAN : order'[o] = [order[o] EXCEPT !.paused = b],
         TypeOK
  PROVE  RecordsInv'
<1>1. ASSUME NEW o \in Order PROVE Agrees(o)'
  <2>1. order[o] \in OrderRow
    BY DEF TypeOK
  <2>2. /\ order'[o].status = order[o].status /\ order'[o].listing = order[o].listing
        /\ order'[o].free = order[o].free /\ order'[o].settled = order[o].settled
        /\ order'[o].reservation = order[o].reservation
        /\ order'[o].issue = order[o].issue /\ order'[o].request = order[o].request
        /\ order'[o].offered = order[o].offered
        /\ order'[o].delivered = order[o].delivered
    BY <2>1 DEF OrderRow
  <2> QED
    BY <2>2 DEF RecordsInv, Agrees, EscrowOf, RecordsAgree
<1> QED
  BY <1>1 DEF RecordsInv

(* No order exists at the start. *)
LEMMA InitRecords == Init => RecordsInv
<1> SUFFICES ASSUME Init, NEW o \in Order PROVE Agrees(o)
  BY DEF RecordsInv
<1>1. order[o] = BlankOrder
  BY DEF Init
<1>2. /\ order[o].status = "none" /\ order[o].settled = {} /\ ~order[o].free
      /\ order[o].issue = "none" /\ order[o].request = "none" /\ ~order[o].offered
  BY <1>1 DEF BlankOrder
<1> QED
  BY <1>2, OwedValues DEF Agrees, EscrowOf, RecordsAgree

(* The nine participant actions (act). *)
LEMMA ParticipantRecords ==
  ASSUME TypeOK, RecordsInv, NEW a \in Account, NEW o \in Order, ParticipantStep(a, o)
  PROVE  RecordsInv'
<1>r. order[o] \in OrderRow
  BY DEF TypeOK
<1>e. EscrowOf(o)
  BY DEF RecordsInv, Agrees
<1>c. RecordsAgree(o)
  BY DEF RecordsInv, Agrees
<1>1. CASE Cancel(a, o)
  <2> DEFINE row == [order[o] EXCEPT !.status = "cancelled",
                                !.reservation = CloseReservation(o, "cancelled")]
  <2>1. WriteOrder(o, row)
    BY <1>1 DEF Cancel
  <2>2. order'[o] = row => EscrowOf(o)'
    BY <1>1, <1>r, <1>e, OwedValues, SMTT(30)
       DEF Cancel, OrderRow, EscrowOf
  <2>3. order'[o] = row => RecordsAgree(o)'
    BY <1>1, <1>r, <1>c
       DEF Cancel, OrderRow, RecordsAgree,
           CloseReservation, ReservationOf, OpenStatuses
  <2> QED
    BY <2>1, <2>2, <2>3, OneRow DEF Agrees
<1>2. CASE Pay(a, o)
  <2> DEFINE row == [order[o] EXCEPT !.status = "pending_delivery",
                                !.settled = Settle(o, "payment")]
  <2>1. WriteOrder(o, row)
    BY <1>2 DEF Pay
  <2>2. order'[o] = row => EscrowOf(o)'
    BY <1>2, <1>r, <1>e, OwedValues
       DEF Pay, OrderRow, EscrowOf, Settle
  <2>3. order'[o] = row => RecordsAgree(o)'
    BY <1>2, <1>r, <1>c
       DEF Pay, OrderRow, RecordsAgree,
           ReservationOf, OpenStatuses
  <2> QED
    BY <2>1, <2>2, <2>3, OneRow DEF Agrees
<1>3. CASE Accept(a, o)
  <2> DEFINE row == [order[o] EXCEPT !.status = "completed",
                                !.settled = Settle(o, "release"),
                                !.reservation = CloseReservation(o, "completed"),
                                !.issue = Resolved(@),
                                !.request = Dropped(@)]
  <2>1. WriteOrder(o, row)
    BY <1>3 DEF Accept
  <2>2. order'[o] = row => EscrowOf(o)'
    <3>1. order[o].settled = IF order[o].free THEN {} ELSE {"payment"}
      BY <1>3, <1>e, OwedValues DEF Accept, EscrowOf
    <3>2. order'[o] = row =>
            /\ order'[o].status = "completed" /\ order'[o].free = order[o].free
            /\ order'[o].settled = Settle(o, "release")
      BY <1>r DEF OrderRow
    <3> QED
      BY <3>1, <3>2, OwedValues DEF EscrowOf, Settle
  <2>3. order'[o] = row => RecordsAgree(o)'
    BY <1>3, <1>r, <1>c
       DEF Accept, OrderRow, RecordsAgree,
           Resolved, Dropped, CloseReservation, ReservationOf, OpenStatuses
  <2> QED
    BY <2>1, <2>2, <2>3, OneRow DEF Agrees
<1>4. CASE Issue(a, o)
  <2> DEFINE row == [order[o] EXCEPT !.status = "issue", !.issue = "open"]
  <2>1. WriteOrder(o, row)
    BY <1>4 DEF Issue
  <2>2. order'[o] = row => EscrowOf(o)'
    BY <1>4, <1>r, <1>e, OwedValues
       DEF Issue, OrderRow, EscrowOf
  <2>3. order'[o] = row => RecordsAgree(o)'
    BY <1>4, <1>r, <1>c
       DEF Issue, OrderRow, RecordsAgree,
           ReservationOf, OpenStatuses
  <2> QED
    BY <2>1, <2>2, <2>3, OneRow DEF Agrees
<1>5. CASE RequestRefund(a, o)
  <2> DEFINE row == [order[o] EXCEPT !.request = "pending"]
  <2>1. WriteOrder(o, row)
    BY <1>5 DEF RequestRefund
  <2>2. order'[o] = row => EscrowOf(o)'
    BY <1>5, <1>r, <1>e, OwedValues
       DEF RequestRefund, OrderRow, EscrowOf
  <2>3. order'[o] = row => RecordsAgree(o)'
    BY <1>5, <1>r, <1>c
       DEF RequestRefund, OrderRow, RecordsAgree,
           ReservationOf, OpenStatuses
  <2> QED
    BY <2>1, <2>2, <2>3, OneRow DEF Agrees
<1>6. CASE Deliver(a, o)
  <2> DEFINE row == [order[o] EXCEPT !.delivered = @ + 1,
                                !.status = IF @ = "issue" THEN "issue"
                                                          ELSE "pending_acceptance"]
  <2>1. WriteOrder(o, row)
    BY <1>6 DEF Deliver
  <2>2. order'[o] = row => EscrowOf(o)'
    BY <1>6, <1>r, <1>e, OwedValues, SMTT(30)
       DEF Deliver, OrderRow, EscrowOf
  <2>3. order'[o] = row => RecordsAgree(o)'
    BY <1>6, <1>r, <1>c
       DEF Deliver, OrderRow, RecordsAgree,
           ReservationOf, OpenStatuses
  <2> QED
    BY <2>1, <2>2, <2>3, OneRow DEF Agrees
<1>7. CASE Counteroffer(a, o)
  <2> DEFINE row == [order[o] EXCEPT !.offered = TRUE]
  <2>1. WriteOrder(o, row)
    BY <1>7 DEF Counteroffer
  <2>2. order'[o] = row => EscrowOf(o)'
    BY <1>7, <1>r, <1>e, OwedValues
       DEF Counteroffer, OrderRow, EscrowOf
  <2>3. order'[o] = row => RecordsAgree(o)'
    BY <1>7, <1>r, <1>c
       DEF Counteroffer, OrderRow, RecordsAgree,
           ReservationOf, OpenStatuses
  <2> QED
    BY <2>1, <2>2, <2>3, OneRow DEF Agrees
<1>8. CASE Refund(a, o)
  <2> DEFINE row == [order[o] EXCEPT !.status = "refunded",
                                !.settled = Settle(o, "refund"),
                                !.reservation = CloseReservation(o, "refunded"),
                                !.issue = "resolved",
                                !.request = "approved"]
  <2>1. WriteOrder(o, row)
    BY <1>8 DEF Refund
  <2>2. order'[o] = row => EscrowOf(o)'
    <3>1. order[o].settled = IF order[o].free THEN {} ELSE {"payment"}
      BY <1>8, <1>e, OwedValues DEF Refund, EscrowOf
    <3>2. order'[o] = row =>
            /\ order'[o].status = "refunded" /\ order'[o].free = order[o].free
            /\ order'[o].settled = Settle(o, "refund")
      BY <1>r DEF OrderRow
    <3> QED
      BY <3>1, <3>2, OwedValues DEF EscrowOf, Settle
  <2>3. order'[o] = row => RecordsAgree(o)'
    BY <1>8, <1>r, <1>c
       DEF Refund, OrderRow, RecordsAgree,
           CloseReservation, ReservationOf, OpenStatuses
  <2> QED
    BY <2>1, <2>2, <2>3, OneRow DEF Agrees
<1>9. CASE Restore(a, o)
  BY <1>9, SameRows DEF Restore
<1> QED
  BY <1>1, <1>2, <1>3, <1>4, <1>5, <1>6, <1>7, <1>8, <1>9 DEF ParticipantStep

(* The ruling on a dispute (resolveDispute). *)
LEMMA RulingRecords ==
  ASSUME TypeOK, RecordsInv, NEW o \in Order, NEW outcome \in {"refund", "release"},
         ResolveDispute(o, outcome)
  PROVE  RecordsInv'
<1> DEFINE next == IF outcome = "refund" THEN "refunded" ELSE "completed"
           row == [order[o] EXCEPT
                    !.status = next,
                    !.settled = Settle(o, outcome),
                    !.reservation = CloseReservation(o, next),
                    !.issue = "resolved",
                    !.request = IF outcome = "refund" THEN "approved" ELSE "closed"]
<1>1. order[o] \in OrderRow /\ EscrowOf(o) /\ RecordsAgree(o)
  BY DEF TypeOK, RecordsInv, Agrees
<1>2. WriteOrder(o, row)
  BY DEF ResolveDispute
<1>3. order'[o] = row => EscrowOf(o)'
  <2>1. order[o].settled = IF order[o].free THEN {} ELSE {"payment"}
    BY <1>1, OwedValues DEF ResolveDispute, EscrowOf
  <2>2. order'[o] = row =>
          /\ order'[o].status = next /\ order'[o].free = order[o].free
          /\ order'[o].settled = Settle(o, outcome)
    BY <1>1 DEF OrderRow
  <2> QED
    BY <2>1, <2>2, OwedValues DEF EscrowOf, Settle
<1>4. order'[o] = row => RecordsAgree(o)'
  BY <1>1
     DEF ResolveDispute, OrderRow, RecordsAgree, CloseReservation, ReservationOf,
         OpenStatuses
<1> QED
  BY <1>2, <1>3, <1>4, OneRow DEF Agrees

(* One candidate of the payment timer (Expire). *)
LEMMA ExpireRecords ==
  ASSUME TypeOK, RecordsInv, NEW o \in Order, Expire(o)
  PROVE  RecordsInv'
<1> DEFINE row == [order[o] EXCEPT !.status = "expired",
                                   !.paused = FALSE,
                                   !.reservation = CloseReservation(o, "expired")]
<1>1. order[o] \in OrderRow /\ Agrees(o)
  BY DEF TypeOK, RecordsInv
<1>2. WriteOrder(o, row)
  BY DEF Expire
<1>3. order'[o] = row => Agrees(o)'
  BY <1>1, OwedValues
     DEF Expire, OrderRow, Agrees, EscrowOf, RecordsAgree, CloseReservation,
         ReservationOf, OpenStatuses
<1> QED
  BY <1>2, <1>3, OneRow

(* The resolution of a frozen order (resolveAffectedOrder): that it asks   *)
(* for a payment record is what lets it write a refund for a priced order. *)
LEMMA ResolveRecords ==
  ASSUME TypeOK, RecordsInv, NEW l \in Listing, NEW o \in Order,
         ResolveAffectedOrder(l, o)
  PROVE  RecordsInv'
<1> DEFINE refund == order[o].status # "pending_payment"
           next == IF refund THEN "refunded" ELSE "cancelled"
           row == [order[o] EXCEPT
                    !.status = next,
                    !.paused = FALSE,
                    !.settled = IF refund THEN @ \cup {"refund"} ELSE @,
                    !.request = IF refund /\ @ = "pending" THEN "closed" ELSE @,
                    !.issue = IF refund /\ @ = "open" THEN "resolved" ELSE @,
                    !.reservation = IF Physical(l) THEN next ELSE @]
<1>1. order[o] \in OrderRow /\ Agrees(o) /\ order[o].listing = l
  BY DEF TypeOK, RecordsInv, ResolveAffectedOrder, OpenOrdersOf, OrdersOf
<1>2. WriteOrder(o, row) /\ order[o].status \in OpenStatuses
  BY DEF ResolveAffectedOrder, OpenOrdersOf
<1>3. ~refund => order[o].settled = {}
  BY <1>1, OwedValues DEF Agrees, EscrowOf
<1>4. refund => ~order[o].free /\ order[o].settled = {"payment"}
  BY <1>1, <1>2, OwedValues DEF ResolveAffectedOrder, Agrees, EscrowOf, OpenStatuses
<1>5. order'[o] = row => EscrowOf(o)'
  BY <1>1, <1>3, <1>4, OwedValues, SMTT(30) DEF EscrowOf, OrderRow
<1>6. order'[o] = row => RecordsAgree(o)'
  BY <1>1, <1>2 DEF Agrees, RecordsAgree, OrderRow, ReservationOf, OpenStatuses
<1> QED
  BY <1>2, <1>5, <1>6, OneRow DEF Agrees

(* Fresh orders have no records but the reservation of a physical article. *)
LEMMA CheckoutRecords ==
  ASSUME TypeOK, RecordsInv, NEW a \in Account, Checkout(a)
  PROVE  RecordsInv'
<1>1. PICK items \in SUBSET Listing : \E id \in [items -> Order] : CreateOrders(a, id)
  BY DEF Checkout
<1>2. PICK id \in [items -> Order] : CreateOrders(a, id)
  BY <1>1
<1>3. ASSUME NEW o \in Order
      PROVE  \/ order'[o] = order[o]
             \/ \E l \in items : order'[o] = NewOrder(l, a)
  BY <1>2 DEF CreateOrders
<1>4. ASSUME NEW o \in Order PROVE Agrees(o)'
  <2>1. CASE order'[o] = order[o]
    BY <2>1 DEF RecordsInv, Agrees, EscrowOf, RecordsAgree
  <2>2. ASSUME NEW l \in items, order'[o] = NewOrder(l, a) PROVE Agrees(o)'
    <3>1. /\ order'[o].status = "pending_payment" /\ order'[o].settled = {}
          /\ order'[o].issue = "none" /\ order'[o].request = "none"
          /\ ~order'[o].offered /\ order'[o].listing = l
          /\ order'[o].reservation = IF Physical(l) THEN "active" ELSE "none"
      BY <2>2 DEF NewOrder
    <3> QED
      BY <3>1, OwedValues DEF Agrees, EscrowOf, RecordsAgree, ReservationOf, OpenStatuses
  <2> QED
    BY <1>3, <2>1, <2>2
<1> QED
  BY <1>4 DEF RecordsInv

(* Freezing and releasing orders touches no record. *)
LEMMA PausedRecords ==
  ASSUME TypeOK, RecordsInv, NEW S, NEW paused \in BOOLEAN, SetPaused(S, paused)
  PROVE  RecordsInv'
<1>1. ASSUME NEW o \in Order
      PROVE  order'[o] = order[o] \/ order'[o] = [order[o] EXCEPT !.paused = paused]
  BY DEF SetPaused
<1> QED
  BY <1>1, SameRows

(* The handlers of the seller and of the administrator on a listing. *)
LEMMA ListingRecords ==
  ASSUME TypeOK, RecordsInv, NEW l \in Listing, SellerStep(l) \/ AdminStep(l)
  PROVE  RecordsInv'
<1>1. CASE UNCHANGED order
  BY <1>1, SameRows
<1>2. CASE SellerStep(l)
  BY <1>2, <1>1
     DEF SellerStep, ReadReplaced, CreateListing, EditContent, SetPublication,
         SourceResponse
<1>3. ASSUME NEW kind \in ReviewKinds, Pause(l, kind) PROVE RecordsInv'
  BY <1>3, PausedRecords DEF Pause
<1>4. ASSUME NEW outcome \in {"resume", "continue_pause", "rule_violation"},
             Review(l, outcome)
      PROVE  RecordsInv'
  <2>1. PICK S : SetPaused(S, FALSE)
    BY <1>4 DEF Review
  <2> QED
    BY <2>1, PausedRecords
<1>5. CASE Dismiss(l)
  BY <1>5, <1>1 DEF Dismiss
<1> QED
  BY <1>2, <1>3, <1>4, <1>5, ResolveRecords DEF AdminStep

(* Every step of a well-typed market keeps the records in agreement. *)
LEMMA NextRecords == TypeOK /\ RecordsInv /\ [Next]_vars => RecordsInv'
<1> SUFFICES ASSUME TypeOK, RecordsInv, [Next]_vars PROVE RecordsInv'
  OBVIOUS
<1>1. CASE UNCHANGED vars
  BY <1>1, SameRows DEF vars
<1>2. ASSUME NEW a \in Account, NEW l \in Listing, NEW kind \in ReviewKinds,
             Report(a, l, kind)
      PROVE  RecordsInv'
  BY <1>2, SameRows DEF Report
<1> QED
  BY <1>1, <1>2, CheckoutRecords, ParticipantRecords, RulingRecords, ExpireRecords,
     ListingRecords DEF Next

(* All records of every order agree with its status, in every market. *)
LEMMA RecordsHold == Spec => []RecordsInv
<1> QED
  BY InitRecords, NextRecords, TypeCorrect, PTL DEF Spec

(* Money never goes both ways: the settlement records of every priced      *)
(* order are those its status calls for, and a free order has none.        *)
THEOREM EscrowHolds == Spec => []EscrowMatchesStatus
<1>1. RecordsInv => EscrowMatchesStatus
  BY DEF RecordsInv, Agrees, EscrowOf, EscrowMatchesStatus
<1> QED
  BY <1>1, RecordsHold, PTL

(* Reservation, issue, refund request and deliveries of every order agree  *)
(* with its status, whichever handler, ruling or timer closed it.          *)
THEOREM ChildRowsHold == Spec => []ChildRowsAgree
<1>1. RecordsInv => ChildRowsAgree
  BY DEF RecordsInv, Agrees, ChildRowsAgree
<1> QED
  BY <1>1, RecordsHold, PTL

-----------------------------------------------------------------------------
(***************************************************************************)
(* Freezing is exact in every market, a frozen order stands, and a closed  *)
(* order stays closed. A step writes one open order, freezes or releases   *)
(* the open orders of one listing, opens fresh orders, or leaves the       *)
(* orders alone; the three results follow from that and from the ledger.   *)
(***************************************************************************)

(* One handler writes the row of the open order o, which is not frozen     *)
(* afterwards. A frozen one it may close, if the timer or the              *)
(* administrator of a rejected listing does.                               *)
Writes(o) ==
  /\ order[o].status \in OpenStatuses
  /\ order'[o].listing = order[o].listing /\ order'[o].buyer = order[o].buyer
  /\ ~order'[o].paused
  /\ \/ ~order[o].paused
     \/ /\ order'[o].status \in ClosedStatuses
        /\ \/ order'[o].status = "expired"
           \/ listing[order[o].listing].review = "rejected"
  /\ \A p \in Order \ {o} : order'[p] = order[p]
  /\ UNCHANGED listing

(* The review of l changes; its open orders are frozen or released.        *)
Freezes(l, next) ==
  /\ \A m \in Listing \ {l} : listing'[m] = listing[m]
  /\ listing'[l].review = next
  /\ IF next = "clear"
     THEN SetPaused(OpenOrdersOf(l), FALSE)
     ELSE \/ SetPaused(OpenOrdersOf(l), TRUE)
          \/ listing[l].review # "clear" /\ SetPaused({}, FALSE)

(* No order and no review changes; a listing with a review of its own may  *)
(* come into being.                                                        *)
Spares ==
  /\ UNCHANGED order
  /\ \A l \in Listing : listing'[l].review = listing[l].review \/ ~listing[l].exists

FreezeSorted ==
  \/ \E o \in Order : Writes(o)
  \/ \E l \in Listing, next \in {"clear", "paused", "rejected"} : Freezes(l, next)
  \/ \E a \in Account : Checkout(a)
  \/ Spares

-----------------------------------------------------------------------------
(* Every handler is of one of the kinds. *)

(* The nine participant actions: each but restore refuses a frozen order.  *)
LEMMA ParticipantFreeze ==
  ASSUME TypeOK, NEW a \in Account, NEW o \in Order, ParticipantStep(a, o)
  PROVE  FreezeSorted
<1>r. order[o] \in OrderRow
  BY DEF TypeOK
<1>1. CASE Cancel(a, o)
  <2>1. Writes(o)
    BY <1>1, <1>r DEF Cancel, MayAct, Writes, WriteOrder, OrderRow, OpenStatuses, TypeOK
  <2> QED
    BY <2>1 DEF FreezeSorted
<1>2. CASE Pay(a, o)
  <2>1. Writes(o)
    BY <1>2, <1>r DEF Pay, MayAct, Writes, WriteOrder, OrderRow, OpenStatuses, TypeOK
  <2> QED
    BY <2>1 DEF FreezeSorted
<1>3. CASE Accept(a, o)
  <2>1. Writes(o)
    BY <1>3, <1>r DEF Accept, MayAct, Writes, WriteOrder, OrderRow, OpenStatuses, TypeOK
  <2> QED
    BY <2>1 DEF FreezeSorted
<1>4. CASE Issue(a, o)
  <2>1. Writes(o)
    BY <1>4, <1>r DEF Issue, MayAct, Writes, WriteOrder, OrderRow, OpenStatuses, TypeOK
  <2> QED
    BY <2>1 DEF FreezeSorted
<1>5. CASE RequestRefund(a, o)
  <2>1. Writes(o)
    BY <1>5, <1>r DEF RequestRefund, MayAct, Writes, WriteOrder, OrderRow, OpenStatuses, TypeOK
  <2> QED
    BY <2>1 DEF FreezeSorted
<1>6. CASE Deliver(a, o)
  <2>1. Writes(o)
    BY <1>6, <1>r DEF Deliver, MayAct, Writes, WriteOrder, OrderRow, OpenStatuses, TypeOK
  <2> QED
    BY <2>1 DEF FreezeSorted
<1>7. CASE Counteroffer(a, o)
  <2>1. Writes(o)
    BY <1>7, <1>r DEF Counteroffer, MayAct, Writes, WriteOrder, OrderRow, OpenStatuses, TypeOK
  <2> QED
    BY <2>1 DEF FreezeSorted
<1>8. CASE Refund(a, o)
  <2>1. Writes(o)
    BY <1>8, <1>r DEF Refund, MayAct, Writes, WriteOrder, OrderRow, OpenStatuses, TypeOK
  <2> QED
    BY <2>1 DEF FreezeSorted
<1>9. CASE Restore(a, o)
  BY <1>9 DEF Restore, Spares, FreezeSorted
<1> QED
  BY <1>1, <1>2, <1>3, <1>4, <1>5, <1>6, <1>7, <1>8, <1>9 DEF ParticipantStep

(* The ruling on a dispute refuses a frozen order too (resolveDispute). *)
LEMMA RulingFreeze ==
  ASSUME TypeOK, NEW o \in Order, NEW outcome \in {"refund", "release"},
         ResolveDispute(o, outcome)
  PROVE  FreezeSorted
<1>1. order[o] \in OrderRow
  BY DEF TypeOK
<1>2. Writes(o)
  BY <1>1 DEF ResolveDispute, Writes, WriteOrder, OrderRow, OpenStatuses, TypeOK
<1> QED
  BY <1>2 DEF FreezeSorted

(* The timer expires a frozen order like any other (Expire). *)
LEMMA ExpireFreeze ==
  ASSUME TypeOK, NEW o \in Order, Expire(o)
  PROVE  FreezeSorted
<1>1. order[o] \in OrderRow
  BY DEF TypeOK
<1>2. Writes(o)
  BY <1>1 DEF Expire, Writes, WriteOrder, OrderRow, OpenStatuses, ClosedStatuses, TypeOK
<1> QED
  BY <1>2 DEF FreezeSorted

(* resolveAffectedOrder closes a frozen order of a rejected listing. *)
LEMMA ResolveFreeze ==
  ASSUME TypeOK, NEW l \in Listing, NEW o \in Order, ResolveAffectedOrder(l, o)
  PROVE  FreezeSorted
<1>1. order[o] \in OrderRow /\ order[o].listing = l
  BY DEF TypeOK, ResolveAffectedOrder, OpenOrdersOf, OrdersOf
<1>2. Writes(o)
  BY <1>1 DEF ResolveAffectedOrder, OpenOrdersOf, Writes, WriteOrder, OrderRow,
              ClosedStatuses, TypeOK
<1> QED
  BY <1>2 DEF FreezeSorted

(* A listing row written with its review as it was. *)
LEMMA WriteSpares ==
  ASSUME TypeOK, NEW l \in Listing, NEW row, WriteListing(l, row),
         row.review = listing[l].review, UNCHANGED order
  PROVE  FreezeSorted
BY DEF TypeOK, WriteListing, Spares, FreezeSorted

(* The handlers of the seller and of the administrator on a listing. *)
LEMMA ListingFreeze ==
  ASSUME TypeOK, NEW l \in Listing, SellerStep(l) \/ AdminStep(l)
  PROVE  FreezeSorted
<1>r. listing[l] \in ListingRow
  BY DEF TypeOK
<1>1. ASSUME NEW old \in Listing, ReadReplaced(l, old) PROVE FreezeSorted
  BY <1>1 DEF ReadReplaced, Spares, FreezeSorted
<1>2. ASSUME NEW committed \in BOOLEAN, NEW replaces \in Listing \cup {NoListing},
             CreateListing(l, committed, replaces)
      PROVE  FreezeSorted
  BY <1>2 DEF CreateListing, WriteListing, TypeOK, Spares, FreezeSorted
<1>3. ASSUME NEW committed \in BOOLEAN, NEW priced \in BOOLEAN,
             EditContent(l, committed, priced)
      PROVE  FreezeSorted
  BY <1>3, <1>r, WriteSpares DEF EditContent, ListingRow
<1>4. ASSUME NEW published \in BOOLEAN, SetPublication(l, published) PROVE FreezeSorted
  BY <1>4, <1>r, WriteSpares DEF SetPublication, ListingRow
<1>5. ASSUME SourceResponse(Seller[l], l) PROVE FreezeSorted
  BY <1>5, <1>r, WriteSpares DEF SourceResponse, ListingRow
<1>6. ASSUME Dismiss(l) PROVE FreezeSorted
  BY <1>6, <1>r, WriteSpares DEF Dismiss, ListingRow
<1>7. ASSUME NEW kind \in ReviewKinds, Pause(l, kind) PROVE FreezeSorted
  <2>1. Freezes(l, "paused")
    BY <1>7, <1>r DEF Pause, WriteListing, Freezes, TypeOK, ListingRow
  <2> QED
    BY <2>1 DEF FreezeSorted
<1>8. ASSUME NEW outcome \in {"resume", "continue_pause", "rule_violation"},
             Review(l, outcome)
      PROVE  FreezeSorted
  <2>1. PICK next \in {"clear", "paused", "rejected"} :
          /\ listing[l].review = "paused"
          /\ WriteListing(l, [listing[l] EXCEPT !.review = next, !.answered = FALSE])
          /\ SetPaused(IF next = "clear" THEN OpenOrdersOf(l) ELSE {}, FALSE)
    <3>1. CASE outcome = "resume"
      BY <1>8, <3>1 DEF Review
    <3>2. CASE outcome = "continue_pause"
      BY <1>8, <3>2 DEF Review
    <3>3. CASE outcome = "rule_violation"
      BY <1>8, <3>3 DEF Review
    <3> QED
      BY <3>1, <3>2, <3>3
  <2>2. Freezes(l, next)
    BY <1>r, <2>1 DEF WriteListing, Freezes, TypeOK, ListingRow
  <2> QED
    BY <2>2 DEF FreezeSorted
<1>9. ASSUME NEW o \in Order, ResolveAffectedOrder(l, o) PROVE FreezeSorted
  BY <1>9, ResolveFreeze
<1> QED
  BY <1>1, <1>2, <1>3, <1>4, <1>5, <1>6, <1>7, <1>8, <1>9 DEF SellerStep, AdminStep

(* Every step of a well-typed market, and every stutter, is of one kind. *)
LEMMA NextFreeze ==
  ASSUME TypeOK, [Next]_vars
  PROVE  FreezeSorted
<1>1. CASE UNCHANGED vars
  BY <1>1 DEF vars, Spares, FreezeSorted
<1>2. ASSUME NEW a \in Account, NEW l \in Listing, NEW kind \in ReviewKinds,
             Report(a, l, kind)
      PROVE  FreezeSorted
  <2>1. listing[l] \in ListingRow
    BY DEF TypeOK
  <2> QED
    BY <1>2, <2>1, WriteSpares DEF Report, ListingRow
<1>3. ASSUME NEW a \in Account, Checkout(a) PROVE FreezeSorted
  BY <1>3 DEF FreezeSorted
<1> QED
  BY <1>1, <1>2, <1>3, ParticipantFreeze, RulingFreeze, ExpireFreeze, ListingFreeze
     DEF Next

-----------------------------------------------------------------------------
(* Freezing is exact. *)

(* The two halves of FrozenUnderReview, order by order. *)
Exact(o) ==
  LET under == listing[order[o].listing].review # "clear"
  IN  /\ order[o].status \in OpenStatuses /\ under => order[o].paused
      /\ order[o].paused => order[o].status \in OpenStatuses /\ under

(* The property of the runs says no more than its halves. *)
LEMMA ExactIsFrozen ==
  ASSUME TypeOK
  PROVE  FrozenUnderReview <=> \A o \in Order : Exact(o)
<1>1. ASSUME NEW o \in Order PROVE order[o].listing \in Listing
  BY DEF TypeOK, OrderRow
<1>2. ASSUME NEW o \in Order, NEW l \in Listing
      PROVE  o \in OpenOrdersOf(l) <=> order[o].status \in OpenStatuses
                                        /\ order[o].listing = l
  BY DEF OpenOrdersOf, OrdersOf, OpenStatuses
<1>3. ASSUME NEW l \in Listing PROVE OpenOrdersOf(l) \subseteq Order
  BY DEF OpenOrdersOf, OrdersOf
<1> QED
  BY <1>1, <1>2, <1>3 DEF FrozenUnderReview, Exact

(* The same after a step. *)
LEMMA ExactThenFrozen ==
  ASSUME TypeOK', \A o \in Order : Exact(o)'
  PROVE  FrozenUnderReview'
<1>1. ASSUME NEW o \in Order PROVE order'[o].listing \in Listing
  BY DEF TypeOK, OrderRow
<1>2. ASSUME NEW o \in Order, NEW l \in Listing
      PROVE  o \in OpenOrdersOf(l)' <=> order'[o].status \in OpenStatuses
                                         /\ order'[o].listing = l
  BY DEF OpenOrdersOf, OrdersOf, OpenStatuses
<1>3. ASSUME NEW l \in Listing PROVE OpenOrdersOf(l)' \subseteq Order
  BY DEF OpenOrdersOf, OrdersOf
<1> QED
  BY <1>1, <1>2, <1>3 DEF FrozenUnderReview, Exact

(* Writing one open order keeps freezing exact: what may still be open     *)
(* afterwards was not frozen, so its listing is clear.                     *)
LEMMA WritesExact ==
  ASSUME TypeOK, \A p \in Order : Exact(p), NEW o \in Order, Writes(o)
  PROVE  \A p \in Order : Exact(p)'
<1>1. ASSUME NEW p \in Order, p # o PROVE Exact(p)'
  BY <1>1 DEF Writes, Exact
<1>2. Exact(o)'
  BY DEF Writes, Exact, ClosedStatuses, OpenStatuses
<1> QED
  BY <1>1, <1>2

(* A change of the review takes exactly the open orders of the listing     *)
(* along (pause, review).                                                  *)
LEMMA FreezesExact ==
  ASSUME TypeOK, \A p \in Order : Exact(p), NEW l \in Listing,
         NEW next \in {"clear", "paused", "rejected"}, Freezes(l, next)
  PROVE  \A p \in Order : Exact(p)'
<1> SUFFICES ASSUME NEW p \in Order PROVE Exact(p)'
  OBVIOUS
<1>1. order[p] \in OrderRow /\ order[p].listing \in Listing
  BY DEF TypeOK, OrderRow
<1>2. p \in OpenOrdersOf(l) <=> order[p].status \in OpenStatuses /\ order[p].listing = l
  BY DEF OpenOrdersOf, OrdersOf, OpenStatuses
<1>3. ASSUME NEW S, NEW b \in BOOLEAN, SetPaused(S, b)
      PROVE  /\ order'[p].status = order[p].status
             /\ order'[p].listing = order[p].listing
             /\ order'[p].paused = IF p \in S THEN b ELSE order[p].paused
  BY <1>1, <1>3 DEF SetPaused, OrderRow
<1>4. CASE next = "clear"
  <2>1. SetPaused(OpenOrdersOf(l), FALSE)
    BY <1>4 DEF Freezes
  <2> QED
    BY <1>1, <1>2, <1>3, <1>4, <2>1, ZenonT(60) DEF Freezes, Exact
<1>5. CASE next # "clear" /\ SetPaused(OpenOrdersOf(l), TRUE)
  BY <1>1, <1>2, <1>3, <1>5, ZenonT(60) DEF Freezes, Exact
<1>6. CASE next # "clear" /\ listing[l].review # "clear" /\ SetPaused({}, FALSE)
  <2>0. order'[p] = order[p]
    BY <1>6 DEF SetPaused
  <2>1. /\ order'[p].status = order[p].status
        /\ order'[p].listing = order[p].listing
        /\ order'[p].paused = order[p].paused
    BY <2>0
  <2>2. listing[order[p].listing].review # "clear"
          <=> listing'[order[p].listing].review # "clear"
    BY <1>1, <1>6 DEF Freezes
  <2>3. Exact(p)
    OBVIOUS
  <2> QED
    BY <2>1, <2>2, <2>3 DEF Exact
<1> QED
  BY <1>4, <1>5, <1>6 DEF Freezes

(* Fresh orders are not frozen and their listings are clear (createOne). *)
LEMMA CheckoutExact ==
  ASSUME TypeOK, \A p \in Order : Exact(p), NEW a \in Account, Checkout(a)
  PROVE  /\ \A p \in Order : Exact(p)'
         /\ \A p \in Order : order[p].status # "none" => order'[p] = order[p]
<1>1. PICK items \in SUBSET Listing : \E id \in [items -> Order] : CreateOrders(a, id)
  BY DEF Checkout
<1>2. PICK id \in [items -> Order] : CreateOrders(a, id)
  BY <1>1
<1>3. UNCHANGED listing /\ \A l \in items : listing[l].review = "clear"
  BY <1>2 DEF CreateOrders, Purchasable, Sellable
<1>4. ASSUME NEW p \in Order
      PROVE  \/ order'[p] = order[p]
             \/ order[p].status = "none" /\ \E l \in items : order'[p] = NewOrder(l, a)
  BY <1>2 DEF CreateOrders
<1>5. ASSUME NEW p \in Order PROVE Exact(p)'
  <2>1. CASE order'[p] = order[p]
    BY <2>1, <1>3 DEF Exact
  <2>2. ASSUME NEW l \in items, order'[p] = NewOrder(l, a) PROVE Exact(p)'
    <3>1. order'[p].listing = l /\ ~order'[p].paused
      BY <2>2 DEF NewOrder
    <3> QED
      BY <3>1, <1>3 DEF Exact
  <2> QED
    BY <1>4, <2>1, <2>2
<1> QED
  BY <1>4, <1>5

(* A step that spares the orders; a new listing has none.                  *)
LEMMA SparesExact ==
  ASSUME TypeOK, StockLedger, \A p \in Order : Exact(p), Spares
  PROVE  \A p \in Order : Exact(p)'
<1> SUFFICES ASSUME NEW p \in Order PROVE Exact(p)'
  OBVIOUS
<1>1. order[p].listing \in Listing
  BY DEF TypeOK, OrderRow
<1>2. order[p].status \in OpenStatuses => listing[order[p].listing].exists
  BY <1>1 DEF StockLedger, OrdersListed, OrdersOf, OpenStatuses
<1> QED
  BY <1>1, <1>2 DEF Spares, Exact

(* Every step of a well-typed market with a sound ledger freezes exactly.  *)
LEMMA NextFrozen ==
  TypeOK /\ StockLedger /\ FrozenUnderReview /\ [Next]_vars /\ TypeOK' => FrozenUnderReview'
<1> SUFFICES ASSUME TypeOK, StockLedger, FrozenUnderReview, [Next]_vars, TypeOK'
             PROVE  FrozenUnderReview'
  OBVIOUS
<1>1. \A p \in Order : Exact(p)
  BY ExactIsFrozen
<1>2. FreezeSorted
  BY NextFreeze
<1>3. \A p \in Order : Exact(p)'
  BY <1>1, <1>2, WritesExact, FreezesExact, CheckoutExact, SparesExact DEF FreezeSorted
<1> QED
  BY <1>3, ExactThenFrozen

(* No listing is under review and no order frozen at the start. *)
LEMMA InitFrozen == Init => FrozenUnderReview
<1> SUFFICES ASSUME Init PROVE FrozenUnderReview
  OBVIOUS
<1>1. TypeOK
  BY InitType
<1>2. ASSUME NEW o \in Order PROVE Exact(o)
  <2>1. order[o].status = "none" /\ ~order[o].paused
    BY DEF Init, BlankOrder
  <2> QED
    BY <2>1 DEF Exact, OpenStatuses
<1> QED
  BY <1>1, <1>2, ExactIsFrozen

(* Exactly the open orders of a listing under review are frozen, in every  *)
(* market: a cleared listing leaves no order stuck.                        *)
THEOREM FrozenHolds == Spec => []FrozenUnderReview
<1> QED
  BY InitFrozen, NextFrozen, TypeCorrect, LedgerHolds, PTL DEF Spec

-----------------------------------------------------------------------------
(* What a step may never do. *)

(* A closed order stays closed with the same records, whatever handler,    *)
(* ruling or timer comes late.                                             *)
THEOREM ClosedIsFinal == Spec => TerminalIsFinal
<1> DEFINE Final == \A o \in Order :
                      order[o].status \in ClosedStatuses => order'[o] = order[o]
<1>1. TypeOK /\ FrozenUnderReview /\ [Next]_vars => Final
  <2> SUFFICES ASSUME TypeOK, FrozenUnderReview, [Next]_vars,
                      NEW o \in Order, order[o].status \in ClosedStatuses
               PROVE  order'[o] = order[o]
    OBVIOUS
  <2>0. order[o].status \notin OpenStatuses /\ order[o].status # "none"
    BY DEF ClosedStatuses, OpenStatuses
  <2>1. ASSUME NEW p \in Order, Writes(p) PROVE order'[o] = order[o]
    BY <2>0, <2>1 DEF Writes
  <2>2. ASSUME NEW l \in Listing, NEW next, Freezes(l, next) PROVE order'[o] = order[o]
    BY <2>0, <2>2 DEF Freezes, SetPaused, OpenOrdersOf
  <2>3. ASSUME NEW a \in Account, Checkout(a) PROVE order'[o] = order[o]
    BY <2>0, <2>3, ExactIsFrozen, CheckoutExact
  <2>4. CASE Spares
    BY <2>4 DEF Spares
  <2> QED
    BY <2>1, <2>2, <2>3, <2>4, NextFreeze DEF FreezeSorted
<1> QED
  BY <1>1, TypeCorrect, FrozenHolds, PTL DEF Spec, TerminalIsFinal

(* A frozen order moves only by the timer or by the administrator: no      *)
(* participant action and no dispute ruling gets through.                  *)
THEOREM FrozenStands == Spec => FrozenOrderStands
<1> DEFINE Stands == \A o \in Order : order[o].paused /\ order'[o] # order[o] =>
                       /\ ~order'[o].paused
                       /\ \/ order'[o] = [order[o] EXCEPT !.paused = FALSE]
                          \/ order'[o].status = "expired"
                          \/ listing[order[o].listing].review = "rejected"
<1>1. TypeOK /\ FrozenUnderReview /\ [Next]_vars => Stands
  <2> SUFFICES ASSUME TypeOK, FrozenUnderReview, [Next]_vars,
                      NEW o \in Order, order[o].paused, order'[o] # order[o]
               PROVE  /\ ~order'[o].paused
                      /\ \/ order'[o] = [order[o] EXCEPT !.paused = FALSE]
                         \/ order'[o].status = "expired"
                         \/ listing[order[o].listing].review = "rejected"
    OBVIOUS
  <2>0. /\ order[o] \in OrderRow /\ \A p \in Order : Exact(p)
        /\ order[o].status # "none"
    BY ExactIsFrozen DEF TypeOK, Exact, OpenStatuses
  <2>1. CASE \E p \in Order : Writes(p)
    BY <2>1 DEF Writes
  <2>2. CASE \E l \in Listing, next \in {"clear", "paused", "rejected"} : Freezes(l, next)
    <3>1. PICK S : SetPaused(S, FALSE) \/ SetPaused(S, TRUE)
      BY <2>2 DEF Freezes
    <3>2. [order[o] EXCEPT !.paused = TRUE] = order[o]
      BY <2>0 DEF OrderRow
    <3>3. order'[o] = [order[o] EXCEPT !.paused = FALSE]
      BY <3>1, <3>2 DEF SetPaused
    <3>4. ~order'[o].paused
      BY <2>0, <3>3 DEF OrderRow
    <3> QED
      BY <3>3, <3>4
  <2>3. CASE \E a \in Account : Checkout(a)
    BY <2>0, <2>3, CheckoutExact
  <2>4. CASE Spares
    BY <2>4 DEF Spares
  <2> QED
    BY <2>1, <2>2, <2>3, <2>4, NextFreeze DEF FreezeSorted
<1> QED
  BY <1>1, TypeCorrect, FrozenHolds, PTL DEF Spec, FrozenOrderStands

-----------------------------------------------------------------------------
(***************************************************************************)
(* A replaced listing is out of trade. ReplacementExclusive alone is not   *)
(* inductive: a replacement is created paused from a draft read without a  *)
(* lock, and cleared later. What stands between is that a draft, like a    *)
(* replacement, names a one-off listing that has orders, so that it can    *)
(* not be edited back into sale, and that a listing is replaced once, so   *)
(* that a resume of the old one sees the only rival.                       *)
(***************************************************************************)
Ordered(old) ==
  old \in Listing /\ listing[old].exists /\ Stocked(old) /\ OrdersOf(old) # {}

Succeeds(l) == listing[l].exists /\ listing[l].replaces # NoListing

DraftsOrdered ==
  \A l \in Listing : draft[l] # NoListing => ~listing[l].exists /\ Ordered(draft[l])

ReplacedOrdered ==
  \A l \in Listing : Succeeds(l) => Ordered(listing[l].replaces) /\ listing[l].replaces # l

ReplacedOnce ==
  \A l, m \in Listing :
    Succeeds(l) /\ Succeeds(m) /\ listing[l].replaces = listing[m].replaces => l = m

ReplacementInv ==
  /\ DraftsOrdered /\ ReplacedOrdered /\ ReplacedOnce
  /\ ReplacementExclusive

(* A listing keeps its existence and what it replaces; it comes (back)     *)
(* into sale by an edit, which orders forbid, or by a resume.              *)
Stays(l) ==
  /\ listing'[l].exists = listing[l].exists
  /\ listing'[l].replaces = listing[l].replaces
  /\ Sellable(l)' => \/ Sellable(l) \/ MayResume(l)
                     \/ Stocked(l) => OrdersOf(l) = {}
  /\ listing'[l].review = "clear" => listing[l].review = "clear" \/ MayResume(l)
  /\ \/ draft'[l] = draft[l]
     \/ \E old \in Listing : ReadReplaced(l, old) /\ draft'[l] = old

Created(l, committed, replaces) ==
  /\ CreateListing(l, committed, replaces)
  /\ listing'[l].exists /\ listing'[l].replaces = replaces /\ draft'[l] = NoListing
  /\ replaces # NoListing => listing'[l].review = "paused"

RowStep(l) ==
  Stays(l) \/ \E committed \in BOOLEAN, replaces \in Listing \cup {NoListing} :
                Created(l, committed, replaces)

(* A write of one row of a listing that says what it is for sale by.       *)
LEMMA WriteStays ==
  ASSUME TypeOK, NEW l \in Listing, NEW m \in Listing, NEW row,
         WriteListing(m, row), UNCHANGED draft,
         row.exists = listing[m].exists, row.replaces = listing[m].replaces,
         row.review = "clear" /\ row.committed =>
           Sellable(m) \/ MayResume(m) \/ (Stocked(m) => OrdersOf(m) = {}),
         row.review = "clear" => listing[m].review = "clear" \/ MayResume(m)
  PROVE  RowStep(l)
<1>1. CASE l = m
  <2>1. listing'[l] = row
    BY <1>1 DEF TypeOK, WriteListing
  <2> QED
    BY <1>1, <2>1 DEF RowStep, Stays, Sellable
<1>2. CASE l # m
  <2>1. listing'[l] = listing[l]
    BY <1>2 DEF TypeOK, WriteListing
  <2> QED
    BY <2>1 DEF RowStep, Stays, Sellable
<1> QED
  BY <1>1, <1>2

LEMMA NextRows == ASSUME TypeOK, [Next]_vars, NEW l \in Listing PROVE RowStep(l)
<1>1. CASE UNCHANGED <<listing, draft>>
  BY <1>1 DEF RowStep, Stays, Sellable
<1>2. ASSUME NEW m \in Listing PROVE listing[m] \in ListingRow
  BY DEF TypeOK
<1>3. ASSUME NEW m \in Listing, SellerStep(m) PROVE RowStep(l)
  <2>1. ASSUME NEW old \in Listing, ReadReplaced(m, old) PROVE RowStep(l)
    BY <2>1 DEF ReadReplaced, RowStep, Stays, Sellable, TypeOK
  <2>2. ASSUME NEW committed \in BOOLEAN, NEW replaces \in Listing \cup {NoListing},
               CreateListing(m, committed, replaces)
        PROVE  RowStep(l)
    <3>1. ASSUME l = m PROVE Created(l, committed, replaces)
      BY <2>2, <3>1 DEF CreateListing, WriteListing, Created, TypeOK
    <3>2. ASSUME l # m PROVE Stays(l)
      BY <2>2, <3>2 DEF CreateListing, WriteListing, Stays, Sellable, TypeOK
    <3> QED
      BY <3>1, <3>2 DEF RowStep
  <2>3. ASSUME NEW committed \in BOOLEAN, NEW priced \in BOOLEAN,
               EditContent(m, committed, priced)
        PROVE  RowStep(l)
    <3>1. PICK row : /\ row = [listing[m] EXCEPT !.committed = @ \/ committed,
                                                 !.free = @ /\ ~priced]
                     /\ WriteListing(m, row) /\ UNCHANGED draft
                     /\ Stocked(m) => OrdersOf(m) = {}
      BY <2>3 DEF EditContent
    <3>2. /\ row.exists = listing[m].exists /\ row.replaces = listing[m].replaces
          /\ row.review = listing[m].review
      BY <1>2, <3>1 DEF ListingRow
    <3> QED
      BY <3>1, <3>2, WriteStays
  <2>4. ASSUME NEW published \in BOOLEAN, SetPublication(m, published) PROVE RowStep(l)
    <3>1. PICK row : /\ row = [listing[m] EXCEPT !.published = published]
                     /\ WriteListing(m, row) /\ UNCHANGED draft
      BY <2>4 DEF SetPublication
    <3>2. /\ row.exists = listing[m].exists /\ row.replaces = listing[m].replaces
          /\ row.review = listing[m].review /\ row.committed = listing[m].committed
      BY <1>2, <3>1 DEF ListingRow
    <3> QED
      BY <3>1, <3>2, WriteStays DEF Sellable
  <2>5. ASSUME SourceResponse(Seller[m], m) PROVE RowStep(l)
    <3>1. PICK row : /\ row = [listing[m] EXCEPT !.answered = TRUE]
                     /\ WriteListing(m, row) /\ UNCHANGED draft
      BY <2>5 DEF SourceResponse
    <3>2. /\ row.exists = listing[m].exists /\ row.replaces = listing[m].replaces
          /\ row.review = listing[m].review /\ row.committed = listing[m].committed
      BY <1>2, <3>1 DEF ListingRow
    <3> QED
      BY <3>1, <3>2, WriteStays DEF Sellable
  <2> QED
    BY <1>3, <2>1, <2>2, <2>3, <2>4, <2>5 DEF SellerStep
<1>4. ASSUME NEW m \in Listing, AdminStep(m) PROVE RowStep(l)
  <2>1. ASSUME Dismiss(m) PROVE RowStep(l)
    <3>1. PICK row : /\ row = [listing[m] EXCEPT !.pending = FALSE, !.answered = FALSE]
                     /\ WriteListing(m, row) /\ UNCHANGED draft
      BY <2>1 DEF Dismiss
    <3>2. /\ row.exists = listing[m].exists /\ row.replaces = listing[m].replaces
          /\ row.review = listing[m].review /\ row.committed = listing[m].committed
      BY <1>2, <3>1 DEF ListingRow
    <3> QED
      BY <3>1, <3>2, WriteStays DEF Sellable
  <2>2. ASSUME NEW kind \in ReviewKinds, Pause(m, kind) PROVE RowStep(l)
    <3>1. PICK row : /\ row = [listing[m] EXCEPT !.review = "paused", !.pending = FALSE,
                                                 !.kind = kind, !.answered = FALSE]
                     /\ WriteListing(m, row) /\ UNCHANGED draft
      BY <2>2 DEF Pause
    <3>2. /\ row.exists = listing[m].exists /\ row.replaces = listing[m].replaces
          /\ row.review = "paused"
      BY <1>2, <3>1 DEF ListingRow
    <3> QED
      BY <3>1, <3>2, WriteStays
  <2>3. ASSUME NEW outcome \in {"resume", "continue_pause", "rule_violation"},
               Review(m, outcome)
        PROVE  RowStep(l)
    <3>1. PICK next, row :
            /\ next = (CASE outcome = "resume"         -> "clear"
                         [] outcome = "continue_pause" -> "paused"
                         [] outcome = "rule_violation" -> "rejected")
            /\ row = [listing[m] EXCEPT !.review = next, !.answered = FALSE]
            /\ WriteListing(m, row) /\ UNCHANGED draft
            /\ outcome = "resume" => MayResume(m)
      BY <2>3 DEF Review
    <3>2. next = "clear" => MayResume(m)
      BY <2>3, <3>1
    <3>3. /\ row.exists = listing[m].exists /\ row.replaces = listing[m].replaces
          /\ row.review = next
      BY <1>2, <3>1 DEF ListingRow
    <3> QED
      BY <3>1, <3>2, <3>3, WriteStays
  <2>4. ASSUME NEW o \in Order, ResolveAffectedOrder(m, o) PROVE RowStep(l)
    BY <1>1, <2>4 DEF ResolveAffectedOrder
  <2> QED
    BY <1>4, <2>1, <2>2, <2>3, <2>4 DEF AdminStep
<1>5. ASSUME NEW a \in Account, NEW m \in Listing, NEW kind \in ReviewKinds,
             Report(a, m, kind)
      PROVE  RowStep(l)
  <2>1. PICK row : /\ row = [listing[m] EXCEPT !.pending = TRUE, !.kind = kind,
                                               !.answered = FALSE]
                   /\ WriteListing(m, row) /\ UNCHANGED draft
    BY <1>5 DEF Report
  <2>2. /\ row.exists = listing[m].exists /\ row.replaces = listing[m].replaces
        /\ row.review = listing[m].review /\ row.committed = listing[m].committed
    BY <1>2, <2>1 DEF ListingRow
  <2> QED
    BY <2>1, <2>2, WriteStays DEF Sellable
<1>6. ASSUME NEW a \in Account, NEW o \in Order, ParticipantStep(a, o) PROVE RowStep(l)
  BY <1>1, <1>6
     DEF ParticipantStep, Cancel, Pay, Accept, Issue, RequestRefund, Deliver, Counteroffer,
         Refund, Restore
<1>7. ASSUME \/ \E a \in Account : Checkout(a)
             \/ \E o \in Order, outcome \in {"refund", "release"} : ResolveDispute(o, outcome)
             \/ \E o \in Order : Expire(o)
      PROVE  RowStep(l)
  BY <1>1, <1>7 DEF Checkout, CreateOrders, ResolveDispute, Expire
<1> QED
  BY <1>1, <1>3, <1>4, <1>5, <1>6, <1>7 DEF Next, vars

(* A transaction writes one listing at most.                               *)
LEMMA OneListingMoves ==
  ASSUME TypeOK, [Next]_vars, NEW l \in Listing, NEW m \in Listing,
         listing'[l] # listing[l], listing'[m] # listing[m]
  PROVE  l = m
<1>1. CASE UNCHANGED listing
  BY <1>1
<1>2. ASSUME NEW k \in Listing, NEW row, WriteListing(k, row) PROVE l = m
  BY <1>2 DEF WriteListing, TypeOK
<1>3. ASSUME NEW k \in Listing, SellerStep(k) PROVE l = m
  BY <1>1, <1>2, <1>3
     DEF SellerStep, ReadReplaced, CreateListing, EditContent, SetPublication, SourceResponse
<1>4. ASSUME NEW k \in Listing, AdminStep(k) PROVE l = m
  BY <1>1, <1>2, <1>4 DEF AdminStep, Dismiss, Pause, Review, ResolveAffectedOrder
<1>5. ASSUME NEW a \in Account, NEW k \in Listing, NEW kind \in ReviewKinds,
             Report(a, k, kind)
      PROVE  l = m
  BY <1>2, <1>5 DEF Report
<1>6. ASSUME NEW a \in Account, NEW o \in Order, ParticipantStep(a, o) PROVE l = m
  BY <1>1, <1>6
     DEF ParticipantStep, Cancel, Pay, Accept, Issue, RequestRefund, Deliver, Counteroffer,
         Refund, Restore
<1>7. ASSUME \/ \E a \in Account : Checkout(a)
             \/ \E o \in Order, outcome \in {"refund", "release"} : ResolveDispute(o, outcome)
             \/ \E o \in Order : Expire(o)
      PROVE  l = m
  BY <1>1, <1>7 DEF Checkout, CreateOrders, ResolveDispute, Expire
<1> QED
  BY <1>1, <1>3, <1>4, <1>5, <1>6, <1>7 DEF Next, vars

(* An order that was made stays an order of its article, and a listing     *)
(* that exists goes on existing.                                           *)
LEMMA OrdersStay ==
  ASSUME TypeOK, [Next]_vars, NEW old, Ordered(old)
  PROVE  Ordered(old)'
<1>1. PICK o \in Order : order[o].status # "none" /\ order[o].listing = old
  BY DEF Ordered, OrdersOf
<1>2. ASSUME order'[o].status # "none", order'[o].listing = order[o].listing,
             listing'[old].exists
      PROVE  Ordered(old)'
  BY <1>1, <1>2 DEF Ordered, OrdersOf, Stocked
<1>3. listing'[old].exists
  <2>1. RowStep(old)
    BY NextRows DEF Ordered
  <2> QED
    BY <2>1 DEF RowStep, Stays, Created, Ordered
<1>4. CASE Still
  BY <1>1, <1>2, <1>3, <1>4 DEF Still, Shipping, OpenStatuses, Paying
<1>5. ASSUME NEW p \in Order, Pays(p) PROVE Ordered(old)'
  BY <1>1, <1>2, <1>3, <1>5 DEF Pays, Becomes
<1>6. ASSUME NEW p \in Order, NEW status \in ClosedStatuses,
             NEW availability \in Availabilities, Closes(p, status, availability)
      PROVE  Ordered(old)'
  BY <1>1, <1>2, <1>3, <1>6 DEF Closes, Becomes, ClosedStatuses
<1>7. ASSUME NEW a \in Account, Restore(a, o) \/ \E p \in Order : Restore(a, p)
      PROVE  Ordered(old)'
  BY <1>1, <1>2, <1>3, <1>7 DEF Restore
<1>8. ASSUME NEW a \in Account, Checkout(a) PROVE Ordered(old)'
  <2>1. PICK items \in SUBSET Listing : \E id \in [items -> Order] : CreateOrders(a, id)
    BY <1>8 DEF Checkout
  <2>2. PICK id \in [items -> Order] : CreateOrders(a, id)
    BY <2>1
  <2>3. o \notin {id[l] : l \in items}
    BY <1>1, <2>2 DEF CreateOrders
  <2>4. order'[o] = order[o]
    BY <2>2, <2>3 DEF CreateOrders
  <2> QED
    BY <1>1, <1>2, <1>3, <2>4
<1>9. ASSUME NEW l \in Listing, NEW committed \in BOOLEAN,
             NEW replaces \in Listing \cup {NoListing}, CreateListing(l, committed, replaces)
      PROVE  Ordered(old)'
  BY <1>1, <1>2, <1>3, <1>9 DEF CreateListing
<1> QED
  BY <1>4, <1>5, <1>6, <1>7, <1>8, <1>9, NextSorted DEF Sorted

(* A listing that is out of trade is not drawn back into it by any order.  *)
LEMMA OutOfTrade ==
  ASSUME TypeOK, [Next]_vars, NEW old, Ordered(old), Retired(old)
  PROVE  OpenOrdersOf(old)' = {} /\ Idle(old)'
<1> DEFINE Out == OpenOrdersOf(old)' = {} /\ Idle(old)'
<1>0. /\ old \in Listing /\ Stocked(old) /\ OpenOrdersOf(old) = {} /\ ~Sellable(old)
      /\ inventory[old] = [availability |-> "available", holder |-> NoOrder]
  BY DEF Ordered, Retired, Idle
<1>1. ASSUME NEW p \in Order, order[p].listing = old PROVE order[p].status \notin OpenStatuses
  BY <1>0, <1>1 DEF OpenOrdersOf, OrdersOf, OpenStatuses
<1>2. ASSUME inventory'[old] = inventory[old],
             \A p \in Order : order'[p].listing = old /\ order'[p].status \in OpenStatuses =>
               order[p].listing = old /\ order[p].status \in OpenStatuses
      PROVE  Out
  BY <1>0, <1>1, <1>2 DEF OpenOrdersOf, OrdersOf, Idle, Stocked
<1>3. CASE Still
  BY <1>2, <1>3 DEF Still, Shipping
<1>4. ASSUME NEW p \in Order, Pays(p) PROVE Out
  <2>1. order[p].listing # old
    BY <1>1, <1>4 DEF Pays, Paying, OpenStatuses
  <2> QED
    BY <1>2, <1>4, <2>1 DEF Pays, Becomes
<1>5. ASSUME NEW p \in Order, NEW status \in ClosedStatuses,
             NEW availability \in Availabilities, Closes(p, status, availability)
      PROVE  Out
  <2>1. order[p].status \in OpenStatuses
    BY <1>5 DEF Closes, Paying, Shipping, OpenStatuses
  <2>2. order[p].listing # old /\ order[p].listing \in Listing
    BY <1>1, <2>1 DEF TypeOK, OrderRow
  <2>3. inventory'[old] = inventory[old]
    BY <1>0, <1>5, <2>2 DEF Closes, MoveStock, TypeOK
  <2> QED
    BY <1>2, <1>5, <2>2, <2>3 DEF Closes, Becomes
<1>6. ASSUME NEW a \in Account, NEW p \in Order, Restore(a, p) PROVE Out
  <2>1. order[p].listing # old
    BY <1>0, <1>6 DEF Restore, HeldBy
  <2>2. inventory'[old] = inventory[old]
    BY <1>0, <1>6, <2>1 DEF Restore, MoveStock, TypeOK
  <2> QED
    BY <1>2, <1>6, <2>2 DEF Restore
<1>7. ASSUME NEW a \in Account, Checkout(a) PROVE Out
  <2>1. PICK items \in SUBSET Listing : \E id \in [items -> Order] : CreateOrders(a, id)
    BY <1>7 DEF Checkout
  <2>2. PICK id \in [items -> Order] : CreateOrders(a, id)
    BY <2>1
  <2>3. old \notin items
    BY <1>0, <2>2 DEF CreateOrders, Purchasable
  <2>4. inventory'[old] = inventory[old]
    BY <1>0, <2>2, <2>3 DEF CreateOrders
  <2>5. ASSUME NEW p \in Order
        PROVE  order'[p] = order[p] \/ \E l \in items : order'[p] = NewOrder(l, a)
    BY <2>2 DEF CreateOrders
  <2>6. ASSUME NEW p \in Order, NEW l \in items, order'[p] = NewOrder(l, a)
        PROVE  order'[p].listing # old
    BY <2>3, <2>6 DEF NewOrder
  <2> QED
    BY <1>2, <2>4, <2>5, <2>6
<1>8. ASSUME NEW l \in Listing, NEW committed \in BOOLEAN,
             NEW replaces \in Listing \cup {NoListing}, CreateListing(l, committed, replaces)
      PROVE  Out
  <2>1. l # old
    BY <1>8 DEF CreateListing, Ordered
  <2> QED
    BY <1>0, <1>2, <1>8, <2>1 DEF CreateListing, TypeOK
<1> QED
  BY <1>3, <1>4, <1>5, <1>6, <1>7, <1>8, NextSorted DEF Sorted

LEMMA InitReplacement == Init => ReplacementInv
BY DEF Init, ReplacementInv, DraftsOrdered, ReplacedOrdered, ReplacedOnce, Succeeds,
       ReplacementExclusive

LEMMA NextReplacement ==
  ASSUME TypeOK, ReplacementInv, [Next]_vars
  PROVE  ReplacementInv'
<1>0. NoListing \notin Listing /\ \A l \in Listing : RowStep(l)
  BY NextRows, MarketAssumption
<1>1. \A old : Ordered(old) => Ordered(old)'
  BY OrdersStay
<1>2. ASSUME NEW l \in Listing, NEW committed \in BOOLEAN, NEW old \in Listing,
             Created(l, committed, old)
      PROVE  Ordered(old) /\ old # l /\ Replaces(old) = {}
  BY <1>0, <1>2
     DEF Created, CreateListing, MayReplace, ReplacementInv, DraftsOrdered, Ordered
<1>3. ASSUME NEW l \in Listing, NEW old, old = draft'[l], old # NoListing
      PROVE  ~listing'[l].exists /\ Ordered(old)'
  <2>1. Stays(l)
    BY <1>0, <1>3 DEF RowStep, Created
  <2>2. ~listing[l].exists /\ Ordered(old)
    BY <1>3, <2>1 DEF Stays, ReadReplaced, Ordered, ReplacementInv, DraftsOrdered
  <2> QED
    BY <1>1, <2>1, <2>2 DEF Stays
<1>4. DraftsOrdered'
  <2>1. ASSUME NEW l \in Listing, draft'[l] # NoListing
        PROVE  (~listing[l].exists /\ Ordered(draft[l]))'
    <3>1. PICK old : old = draft'[l]
      OBVIOUS
    <3>2. ~listing'[l].exists /\ Ordered(old)'
      BY <1>3, <2>1, <3>1
    <3> QED
      BY <3>1, <3>2 DEF Ordered, OrdersOf, Stocked
  <2> QED
    BY <2>1 DEF DraftsOrdered
<1>5. ASSUME NEW l \in Listing, NEW old, old = listing'[l].replaces,
             listing'[l].exists, old # NoListing
      PROVE  /\ Ordered(old)' /\ old # l
             /\ \/ Stays(l) /\ Succeeds(l)
                \/ /\ Replaces(old) = {}
                   /\ listing'[l].review = "paused" /\ ~listing[l].exists
  <2>1. CASE Stays(l)
    <3>1. Succeeds(l) /\ old = listing[l].replaces
      BY <1>5, <2>1 DEF Stays, Succeeds
    <3>2. Ordered(old) /\ old # l
      BY <3>1 DEF ReplacementInv, ReplacedOrdered
    <3>3. Ordered(old)'
      BY <1>1, <3>2
    <3> QED
      BY <2>1, <3>1, <3>2, <3>3
  <2>2. ASSUME NEW committed \in BOOLEAN, NEW r \in Listing \cup {NoListing},
               Created(l, committed, r)
        PROVE  /\ Ordered(old)' /\ old # l /\ Replaces(old) = {}
               /\ listing'[l].review = "paused" /\ ~listing[l].exists
    <3>1. r = old /\ r \in Listing /\ ~listing[l].exists /\ listing'[l].review = "paused"
      BY <1>5, <2>2 DEF Created, CreateListing
    <3>2. Ordered(old) /\ old # l /\ Replaces(old) = {}
      BY <1>2, <2>2, <3>1
    <3>3. Ordered(old)'
      BY <1>1, <3>2
    <3> QED
      BY <3>1, <3>2, <3>3
  <2> QED
    BY <1>0, <2>1, <2>2 DEF RowStep
<1>6. ReplacedOrdered'
  <2>1. ASSUME NEW l \in Listing, Succeeds(l)'
        PROVE  (Ordered(listing[l].replaces) /\ listing[l].replaces # l)'
    <3>1. PICK old : old = listing'[l].replaces
      OBVIOUS
    <3>2. Ordered(old)' /\ old # l
      BY <1>5, <2>1, <3>1 DEF Succeeds
    <3> QED
      BY <3>1, <3>2 DEF Ordered, OrdersOf, Stocked
  <2> QED
    BY <2>1 DEF ReplacedOrdered
<1>7. ASSUME NEW l \in Listing, NEW m \in Listing,
             listing'[l].exists, listing'[l].replaces # NoListing,
             listing'[m].exists, listing'[m].replaces = listing'[l].replaces, l # m
      PROVE  FALSE
  <2>1. CASE Succeeds(l) /\ Succeeds(m) /\ Stays(l) /\ Stays(m)
    BY <1>7, <2>1 DEF ReplacementInv, ReplacedOnce, Stays
  <2>2. ASSUME Stays(l), Succeeds(l), Replaces(listing'[l].replaces) = {} PROVE FALSE
    BY <2>2 DEF Stays, Succeeds, Replaces
  <2>3. ASSUME Stays(m), Succeeds(m), Replaces(listing'[m].replaces) = {} PROVE FALSE
    BY <2>3 DEF Stays, Succeeds, Replaces
  <2>4. ASSUME NEW c \in BOOLEAN, NEW r \in Listing \cup {NoListing}, Created(l, c, r),
               NEW d \in BOOLEAN, NEW q \in Listing \cup {NoListing}, Created(m, d, q)
        PROVE  FALSE
    BY <1>7, <2>4 DEF Created, CreateListing, WriteListing, TypeOK
  <2>5. ASSUME ~listing[l].exists, ~listing[m].exists PROVE FALSE
    <3>1. ~Stays(l) /\ ~Stays(m)
      BY <1>7, <2>5 DEF Stays
    <3> QED
      BY <1>0, <2>4, <3>1 DEF RowStep
  <2> QED
    BY <1>5, <1>7, <2>1, <2>2, <2>3, <2>5
<1>8. ReplacedOnce'
  BY <1>7 DEF ReplacedOnce, Succeeds
<1>9. ASSUME NEW l \in Listing, NEW old, old = listing'[l].replaces,
             listing'[l].exists, old # NoListing, listing'[l].review = "clear"
      PROVE  Retired(old)'
  <2>1. Stays(l) /\ Succeeds(l)
    BY <1>5, <1>9
  <2>2. old \in Listing /\ old = listing[l].replaces /\ Ordered(old) /\ old # l
    BY <1>9, <2>1 DEF ReplacementInv, ReplacedOrdered, Ordered, Stays, Succeeds
  <2>3. listing[l].review = "clear" \/ MayResume(l)
    BY <1>9, <2>1 DEF Stays
  <2>4. Retired(old)
    BY <1>0, <2>1, <2>2, <2>3
       DEF ReplacementInv, ReplacementExclusive, Succeeds, Retired, MayResume
  <2>5. OpenOrdersOf(old)' = {} /\ Idle(old)'
    BY <2>2, <2>4, OutOfTrade
  <2>6. ~Sellable(old)'
    <3>1. Stays(old)
      BY <1>0, <2>2 DEF RowStep, Created, CreateListing, Ordered
    <3>2. CASE listing[l].review = "clear"
      <4>1. ~MayResume(old)
        BY <2>1, <2>2, <3>2 DEF MayResume, Replaces, Succeeds
      <4> QED
        BY <2>2, <2>4, <3>1, <4>1 DEF Stays, Ordered, Retired
    <3>3. CASE listing[l].review # "clear"
      <4>1. listing'[old] = listing[old]
        BY <1>9, <2>2, <3>3, OneListingMoves
      <4> QED
        BY <2>4, <4>1 DEF Retired, Sellable
    <3> QED
      BY <3>2, <3>3
  <2> QED
    BY <2>5, <2>6 DEF Retired
<1>10. ReplacementExclusive'
  <2>1. ASSUME NEW l \in Listing, listing'[l].exists, listing'[l].replaces # NoListing,
               listing'[l].review = "clear"
        PROVE  (Retired(listing[l].replaces))'
    <3>1. PICK old : old = listing'[l].replaces
      OBVIOUS
    <3>2. Retired(old)'
      BY <1>9, <2>1, <3>1
    <3> QED
      BY <3>1, <3>2 DEF Retired, Sellable, OpenOrdersOf, OrdersOf, Idle
  <2> QED
    BY <2>1 DEF ReplacementExclusive
<1> QED
  BY <1>4, <1>6, <1>8, <1>10 DEF ReplacementInv

(* A one-off article sold again through a replacement listing is not for   *)
(* sale twice (create, review, createOne), whatever order the drafts, the  *)
(* reviews and the orders commit in.                                       *)
THEOREM ReplacementHolds == Spec => []ReplacementExclusive
<1>1. Init => ReplacementInv
  BY InitReplacement
<1>2. TypeOK /\ ReplacementInv /\ [Next]_vars => ReplacementInv'
  BY NextReplacement
<1>3. ReplacementInv => ReplacementExclusive
  BY DEF ReplacementInv
<1> QED
  BY <1>1, <1>2, <1>3, TypeCorrect, PTL DEF Spec

-----------------------------------------------------------------------------
(***************************************************************************)
(* The pages and the handlers agree in every market. What a handler asks   *)
(* of a row is what its page asks, but for one thing: the page of an order *)
(* takes the account for the buyer before it takes it for the seller, so   *)
(* the two must differ. No order ever has its seller for a buyer.          *)
(***************************************************************************)

Distinct == \A o \in Order : order[o].status # "none" => Buyer(o) # Merchant(o)

LEMMA InitDistinct == Init => Distinct
BY DEF Init, BlankOrder, Distinct

(* Checkout refuses the seller, and nothing else writes who buys what. *)
LEMMA NextDistinct ==
  TypeOK /\ FrozenUnderReview /\ Distinct /\ [Next]_vars => Distinct'
<1> SUFFICES ASSUME TypeOK, FrozenUnderReview, Distinct, [Next]_vars, NEW o \in Order,
                    order'[o].status # "none"
             PROVE  order'[o].buyer # Seller[order'[o].listing]
  BY DEF Distinct, Buyer, Merchant
<1>r. order[o] \in OrderRow
  BY DEF TypeOK
<1>k. ASSUME order[o].status # "none", order'[o].listing = order[o].listing,
             order'[o].buyer = order[o].buyer
      PROVE  order'[o].buyer # Seller[order'[o].listing]
  BY <1>k DEF Distinct, Buyer, Merchant
<1>s. ASSUME order'[o] = order[o]
      PROVE  order'[o].buyer # Seller[order'[o].listing]
  BY <1>s, <1>k
<1>1. ASSUME NEW p \in Order, Writes(p)
      PROVE  order'[o].buyer # Seller[order'[o].listing]
  BY <1>1, <1>k, <1>s DEF Writes
<1>2. ASSUME NEW l \in Listing, NEW next, Freezes(l, next)
      PROVE  order'[o].buyer # Seller[order'[o].listing]
  <2>1. PICK orders \in SUBSET Order, paused \in BOOLEAN : SetPaused(orders, paused)
    BY <1>2 DEF Freezes, OpenOrdersOf, OrdersOf
  <2>2. order'[o] = order[o] \/ order'[o] = [order[o] EXCEPT !.paused = paused]
    BY <2>1 DEF SetPaused
  <2>3. CASE order'[o] = [order[o] EXCEPT !.paused = paused]
    <3>1. order'[o].status = order[o].status /\ order'[o].listing = order[o].listing
          /\ order'[o].buyer = order[o].buyer
      BY <1>r, <2>3 DEF OrderRow
    <3> QED
      BY <1>k, <3>1
  <2> QED
    BY <1>s, <2>2, <2>3
<1>3. ASSUME NEW a \in Account, Checkout(a)
      PROVE  order'[o].buyer # Seller[order'[o].listing]
  <2>1. PICK items \in SUBSET Listing : \E id \in [items -> Order] : CreateOrders(a, id)
    BY <1>3 DEF Checkout
  <2>2. PICK id \in [items -> Order] : CreateOrders(a, id)
    BY <2>1
  <2>3. CASE o \notin {id[l] : l \in items}
    <3>1. order'[o] = order[o]
      BY <2>2, <2>3 DEF CreateOrders
    <3> QED
      BY <1>s, <3>1
  <2>4. CASE o \in {id[l] : l \in items}
    <3>1. PICK l \in items : id[l] = o
      BY <2>4
    <3> DEFINE m == CHOOSE n \in items : id[n] = o
    <3>2. m \in items
      BY <3>1
    <3>3. order'[o] = NewOrder(m, a)
      BY <2>2, <2>4 DEF CreateOrders
    <3>4. order'[o].buyer = a /\ order'[o].listing = m
      BY <3>3 DEF NewOrder
    <3>5. Seller[m] # a
      BY <2>2, <3>2 DEF CreateOrders, Purchasable
    <3> QED
      BY <3>4, <3>5
  <2> QED
    BY <2>3, <2>4
<1>4. CASE Spares
  BY <1>4, <1>s DEF Spares
<1> QED
  BY <1>1, <1>2, <1>3, <1>4, NextFreeze DEF FreezeSorted

(* The page of an order has a button for every action a handler takes. *)
LEMMA ParticipantOffered ==
  ASSUME TypeOK, Distinct, NEW a \in Account, NEW o \in Order,
         NEW action \in OrderAction, Handle(a, o, action)
  PROVE  o \in OrderList(a) /\ participantOrder(a, o) /\ action \in orderActions(a, o)
<1>d. order[o].status # "none" => Buyer(o) # Merchant(o)
  BY DEF Distinct
<1>b. ASSUME a = Buyer(o), ~order[o].paused,
             order[o].status \in DOMAIN BuyerOffer, action \in BuyerOffer[order[o].status]
      PROVE  action \in orderActions(a, o)
  BY <1>b DEF orderActions, OfferOf
<1>m. ASSUME a = Merchant(o), a # Buyer(o), ~order[o].paused,
             order[o].status \in DOMAIN SellerOffer, action \in SellerOffer[order[o].status]
      PROVE  action \in orderActions(a, o)
  BY <1>m DEF orderActions, OfferOf
<1>0. order[o].status # "none" /\ a \in {Buyer(o), Merchant(o)}
      => o \in OrderList(a) /\ participantOrder(a, o)
  BY DEF OrderList, participantOrder
<1>1. CASE action = "cancel"
  <2>1. Cancel(a, o)
    BY <1>1 DEF Handle
  <2>2. a = Buyer(o) /\ ~order[o].paused /\ order[o].status = "pending_payment"
    BY <2>1 DEF Cancel, MayAct
  <2> QED
    BY <1>0, <1>1, <1>b, <2>2 DEF BuyerOffer
<1>2. CASE action = "pay"
  <2>1. Pay(a, o)
    BY <1>2 DEF Handle
  <2>2. a = Buyer(o) /\ ~order[o].paused /\ order[o].status = "pending_payment"
    BY <2>1 DEF Pay, MayAct
  <2> QED
    BY <1>0, <1>2, <1>b, <2>2 DEF BuyerOffer
<1>3. CASE action = "issue"
  <2>1. Issue(a, o)
    BY <1>3 DEF Handle
  <2>2. a = Buyer(o) /\ ~order[o].paused
        /\ order[o].status \in {"pending_delivery", "pending_acceptance"}
    BY <2>1 DEF Issue, MayAct
  <2> QED
    BY <1>0, <1>3, <1>b, <2>2 DEF BuyerOffer
<1>4. CASE action = "request-refund"
  <2>1. RequestRefund(a, o)
    BY <1>4 DEF Handle
  <2>2. a = Buyer(o) /\ ~order[o].paused /\ order[o].status = "issue"
    BY <2>1 DEF RequestRefund, MayAct
  <2> QED
    BY <1>0, <1>4, <1>b, <2>2 DEF BuyerOffer
<1>5. CASE action = "accept"
  <2>1. Accept(a, o)
    BY <1>5 DEF Handle
  <2>2. a = Buyer(o) /\ ~order[o].paused /\ order[o].status \in {"pending_acceptance", "issue"}
    BY <2>1 DEF Accept, MayAct
  <2> QED
    BY <1>0, <1>5, <1>b, <2>2 DEF BuyerOffer
<1>6. CASE action = "deliver"
  <2>1. Deliver(a, o)
    BY <1>6 DEF Handle
  <2>2. a = Merchant(o) /\ ~order[o].paused /\ order[o].status \in {"pending_delivery", "issue"}
    BY <2>1 DEF Deliver, MayAct
  <2> QED
    BY <1>0, <1>6, <1>d, <1>m, <2>2 DEF SellerOffer
<1>7. CASE action = "counteroffer"
  <2>1. Counteroffer(a, o)
    BY <1>7 DEF Handle
  <2>2. a = Merchant(o) /\ ~order[o].paused /\ order[o].status = "issue"
    BY <2>1 DEF Counteroffer, MayAct
  <2> QED
    BY <1>0, <1>7, <1>d, <1>m, <2>2 DEF SellerOffer
<1>8. CASE action = "refund"
  <2>1. Refund(a, o)
    BY <1>8 DEF Handle
  <2>2. a = Merchant(o) /\ ~order[o].paused /\ order[o].status = "issue"
    BY <2>1 DEF Refund, MayAct
  <2> QED
    BY <1>0, <1>8, <1>d, <1>m, <2>2 DEF SellerOffer
<1>9. CASE action = "restore"
  <2>1. Restore(a, o)
    BY <1>9 DEF Handle
  <2>2. a = Merchant(o) /\ ~order[o].paused /\ order[o].status = "refunded"
        /\ Physical(order[o].listing)
    BY <2>1 DEF Restore
  <2>3. action \in orderActions(a, o)
    BY <1>9, <1>d, <2>2 DEF orderActions
  <2> QED
    BY <1>0, <2>2, <2>3
<1> QED
  BY <1>1, <1>2, <1>3, <1>4, <1>5, <1>6, <1>7, <1>8, <1>9 DEF OrderAction

(* Whoever may order listings, alone or together, finds each of them on    *)
(* the market with a button to buy it and one to put it in the cart, and   *)
(* the cart lets them check out.                                           *)
LEMMA OrderOffered ==
  ASSUME NEW a \in Account, NEW items \in SUBSET Listing \ {{}},
         NEW id \in [items -> Order]
  PROVE  OrderedWasOffered(a, id)
<1>0. DOMAIN id = items
  OBVIOUS
<1> SUFFICES ASSUME CreateOrders(a, id)
             PROVE  /\ items \subseteq Search
                    /\ \A l \in items : {"buy", "cart"} \subseteq ListingOffer(a, l)
                    /\ CartReady(items)
  BY <1>0 DEF OrderedWasOffered
<1>1. ASSUME NEW l \in items PROVE Purchasable(l, a)
  BY <1>0, <1>1 DEF CreateOrders
<1>2. ASSUME NEW l \in items
      PROVE  Public(l) /\ a # Seller[l] /\ listingCanBePurchased(ViewOf(l))
             /\ itemStatus(ViewOf(l)) = "active"
  <2>1. Public(l) /\ a # Seller[l]
    BY <1>1 DEF Purchasable, Public, Sellable
  <2>2. /\ ViewOf(l).published /\ ViewOf(l).purchaseEligible
        /\ ViewOf(l).availability \in {"available", "unlimited"}
    BY <1>1 DEF Purchasable, ViewOf
  <2> QED
    BY <2>1, <2>2 DEF listingCanBePurchased, itemStatus
<1>3. items \subseteq Search
  BY <1>2 DEF Search
<1>4. \A l \in items : {"buy", "cart"} \subseteq ListingOffer(a, l)
  BY <1>2 DEF ListingOffer
<1>5. CartReady(items)
  BY <1>2 DEF CartReady, resolveFavorites
<1> QED
  BY <1>3, <1>4, <1>5

(* The pages of a listing's seller and of its reviewer. *)
LEMMA ListingOffered ==
  ASSUME NEW l \in Listing
  PROVE  SellerWasOffered(l) /\ ReviewWasOffered(l)
<1>1. SellerWasOffered(l)
  <2> SUFFICES ASSUME l \in Mine(Seller[l])
               PROVE  /\ \A committed, priced \in BOOLEAN :
                           EditContent(l, committed, priced) => "edit" \in MyOffer(Seller[l], l)
                      /\ SetPublication(l, FALSE) => "withdraw" \in MyOffer(Seller[l], l)
                      /\ SourceResponse(Seller[l], l)
                         => "source-response" \in MyOffer(Seller[l], l)
    BY DEF SellerWasOffered
  <2>1. "withdraw" \in MyOffer(Seller[l], l)
    BY DEF MyOffer
  <2>2. ASSUME NEW committed \in BOOLEAN, NEW priced \in BOOLEAN,
               EditContent(l, committed, priced)
        PROVE  "edit" \in MyOffer(Seller[l], l)
    <3>1. ViewOf(l).canEdit
      BY <2>2 DEF EditContent, ViewOf
    <3> QED
      BY <3>1 DEF MyOffer
  <2>3. SourceResponse(Seller[l], l) => "source-response" \in MyOffer(Seller[l], l)
    BY DEF SourceResponse, MyOffer
  <2> QED
    BY <2>1, <2>2, <2>3
<1>2. Dismiss(l) => "dismiss" \in ReviewOffer(l)
  BY DEF Dismiss, ReviewOffer, Queued
<1>3. ASSUME NEW kind \in ReviewKinds, Pause(l, kind) PROVE "pause" \in ReviewOffer(l)
  BY <1>3 DEF Pause, ReviewOffer, Queued
<1>4. ASSUME NEW outcome \in {"resume", "continue_pause", "rule_violation"},
             Review(l, outcome)
      PROVE  outcome \in ReviewOffer(l)
  <2>1. listing[l].exists /\ listing[l].review = "paused"
    BY <1>4 DEF Review
  <2> QED
    BY <2>1 DEF ReviewOffer, Queued
<1>5. ASSUME NEW o \in Order, ResolveAffectedOrder(l, o) PROVE o \in ResolveOffer(l)
  <2>1. listing[l].exists /\ listing[l].review = "rejected"
        /\ o \in OpenOrdersOf(l) /\ order[o].paused
    BY <1>5 DEF ResolveAffectedOrder
  <2> QED
    BY <2>1 DEF ResolveOffer, Queued, FrozenOrdersOf, OpenOrdersOf
<1> QED
  BY <1>1, <1>2, <1>3, <1>4, <1>5 DEF ReviewWasOffered

(* The dispute page has both rulings for an order, or the order is not one *)
(* the administrator may rule on.                                          *)
LEMMA RulingOffered ==
  ASSUME NEW o \in Order, NEW outcome \in Outcomes, ResolveDispute(o, outcome)
  PROVE  o \in Disputes /\ outcome \in RulingsOffered(DisputeOf(o))
<1>1. order[o].status = "issue" /\ order[o].request = "pending" /\ order[o].offered
  BY DEF ResolveDispute
<1> QED
  BY <1>1 DEF Disputes, RulingsOffered, DisputeOf

(* Whatever a handler takes, the page that shows the current row had a     *)
(* button for, in every market: the participants of an order, whoever      *)
(* orders or reports a listing, its seller, its reviewer and the           *)
(* administrator of disputes.                                              *)
THEOREM HandledHolds == Spec => HandledWasOffered
<1> DEFINE Offered ==
      /\ \A a \in Account, o \in Order : \A action \in OrderAction :
           Handle(a, o, action) =>
             /\ o \in OrderList(a)
             /\ participantOrder(a, o)
             /\ action \in orderActions(a, o)
      /\ \A a \in Account, items \in SUBSET Listing \ {{}} :
           \A id \in [items -> Order] : OrderedWasOffered(a, id)
      /\ \A a \in Account, l \in Listing, kind \in ReviewKinds :
           Report(a, l, kind) => "report" \in ListingOffer(a, l)
      /\ \A o \in Disputes, outcome \in Outcomes :
           ResolveDispute(o, outcome) => outcome \in RulingsOffered(DisputeOf(o))
      /\ \A o \in Order \ Disputes, outcome \in Outcomes : ~ResolveDispute(o, outcome)
      /\ \A l \in Listing : SellerWasOffered(l) /\ ReviewWasOffered(l)
<1>1. Spec => []Distinct
  BY InitDistinct, NextDistinct, TypeCorrect, FrozenHolds, PTL DEF Spec
<1>2. TypeOK /\ Distinct => Offered
  <2> SUFFICES ASSUME TypeOK, Distinct PROVE Offered
    OBVIOUS
  <2>1. ASSUME NEW a \in Account, NEW l \in Listing, NEW kind \in ReviewKinds,
               Report(a, l, kind)
        PROVE  "report" \in ListingOffer(a, l)
    BY <2>1 DEF Report, ListingOffer, Public
  <2>2. \A o \in Disputes, outcome \in Outcomes :
          ResolveDispute(o, outcome) => outcome \in RulingsOffered(DisputeOf(o))
    BY RulingOffered DEF Disputes
  <2>3. \A o \in Order \ Disputes, outcome \in Outcomes : ~ResolveDispute(o, outcome)
    BY RulingOffered
  <2> QED
    BY <2>1, <2>2, <2>3, ParticipantOffered, OrderOffered, ListingOffered
<1> QED
  BY <1>1, <1>2, TypeCorrect, PTL DEF Spec, HandledWasOffered
=============================================================================
