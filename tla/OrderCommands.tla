--------------------------- MODULE OrderCommands ---------------------------
(***************************************************************************)
(* backend/src/orders/order-commands.ts: checkout, the nine participant    *)
(* actions of an order, the administrator's ruling on a dispute and the    *)
(* expiry of unpaid orders. The acting account is a parameter; a handler   *)
(* that throws changes nothing, so its conditions are the action's guard.  *)
(***************************************************************************)
EXTENDS Marketplace

CONSTANTS MaxItems  \* cartMaxItems: listings one checkout may order together

ASSUME ItemsAssumption == MaxItems \in Nat \ {0}

-----------------------------------------------------------------------------
(* Creating orders. *)

NewOrder(l, buyer) ==
  [ status      |-> "pending_payment",
    listing     |-> l,
    buyer       |-> buyer,
    free        |-> listing[l].free,
    paused      |-> FALSE,
    reservation |-> IF Physical(l) THEN "active" ELSE "none",
    delivered   |-> 0,
    issue       |-> "none",
    request     |-> "none",
    offered     |-> FALSE,
    settled     |-> {} ]

(* Fault: the review of the listing is not looked at again under the lock. *)
PurchasableUnreviewed(l, buyer) ==
  /\ listing[l].exists
  /\ Seller[l] # buyer
  /\ listing[l].published
  /\ Stocked(l) => inventory[l].availability = "available"

(* The conditions of createOne on one listing. *)
Purchasable(l, buyer) ==
  /\ listing[l].exists
  /\ Seller[l] # buyer
  /\ listing[l].published
  /\ Sellable(l)
  /\ Stocked(l) => inventory[l].availability = "available"

(* create (one line) and createCheckout (two to MaxItems lines): id maps   *)
(* each listing of the cart to its fresh order; all lines or none.         *)
CreateOrders(buyer, id) ==
  LET items == DOMAIN id
      made == {id[l] : l \in items}
      lineOf(o) == CHOOSE l \in items : id[l] = o
  IN  /\ \A l \in items : Purchasable(l, buyer)
      /\ \A l, m \in items : l # m => id[l] # id[m]
      /\ \A o \in made : order[o].status = "none"
      /\ order' = [o \in Order |-> IF o \in made THEN NewOrder(lineOf(o), buyer)
                                                 ELSE order[o]]
      /\ inventory' = [l \in Listing |->
                         IF l \in items /\ Stocked(l)
                         THEN [availability |-> "reserved", holder |-> id[l]]
                         ELSE inventory[l]]
      /\ UNCHANGED <<listing, draft>>

Checkout(buyer) ==
  \E items \in SUBSET Listing :
    /\ items # {} /\ Cardinality(items) <= MaxItems
    /\ \E id \in [items -> Order] : CreateOrders(buyer, id)

-----------------------------------------------------------------------------
(* act: what every action requires, and the writes it shares. *)

Buyer(o) == order[o].buyer
Merchant(o) == Seller[order[o].listing]

(* Fault: the pause is not checked. *)
MayActFrozen(o, actor, role) ==
  /\ order[o].status # "none"
  /\ actor = role
  /\ HeldBy(o, "reserved")

(* Role, stock and pause checks of act, for every action but restore. *)
MayAct(o, actor, role) ==
  /\ order[o].status # "none"
  /\ actor = role
  /\ HeldBy(o, "reserved")
  /\ ~order[o].paused

(* Fault: an order with a settlement record never gets another. *)
SettleOnce(o, operation) == IF order[o].free \/ order[o].settled # {}
                            THEN order[o].settled
                            ELSE order[o].settled \cup {operation}

(* settle inserts nothing for a free order; one record per operation. *)
Settle(o, operation) == IF order[o].free THEN order[o].settled
                                         ELSE order[o].settled \cup {operation}
MaySettle(o, operation) == order[o].free \/ operation \notin order[o].settled

Paid(o) == order[o].free \/ "payment" \in order[o].settled

(* closeInventory writes the reservation of a physical listing only. *)
CloseReservation(o, state) ==
  IF Physical(order[o].listing) THEN state ELSE order[o].reservation

Resolved(issue) == IF issue = "open" THEN "resolved" ELSE issue
(* Fault: closing the order leaves the refund request pending. *)
DroppedNever(request) == request

Dropped(request) == IF request = "pending" THEN "closed" ELSE request

Cancel(a, o) ==
  /\ MayAct(o, a, Buyer(o))
  /\ order[o].status = "pending_payment"
  /\ WriteOrder(o, [order[o] EXCEPT
              !.status = "cancelled",
              !.reservation = CloseReservation(o, "cancelled")])
  /\ MoveStock(o, "available")
  /\ UNCHANGED <<listing, draft>>

Pay(a, o) ==
  /\ MayAct(o, a, Buyer(o))
  /\ order[o].status = "pending_payment"
  /\ MaySettle(o, "payment")
  /\ WriteOrder(o, [order[o] EXCEPT
              !.status = "pending_delivery",
              !.settled = Settle(o, "payment")])
  /\ UNCHANGED <<listing, inventory, draft>>

Deliver(a, o) ==
  /\ MayAct(o, a, Merchant(o))
  /\ order[o].status \in {"pending_delivery", "issue"}
  /\ order[o].delivered < MaxDeliveries
  /\ WriteOrder(o, [order[o] EXCEPT
              !.delivered = @ + 1,
              !.status = IF @ = "issue" THEN "issue" ELSE "pending_acceptance"])
  /\ UNCHANGED <<listing, inventory, draft>>

Issue(a, o) ==
  /\ MayAct(o, a, Buyer(o))
  /\ order[o].status \in {"pending_delivery", "pending_acceptance"}
  /\ order[o].issue # "open"          \* index one_open_issue
  /\ WriteOrder(o, [order[o] EXCEPT !.status = "issue", !.issue = "open"])
  /\ UNCHANGED <<listing, inventory, draft>>

RequestRefund(a, o) ==
  /\ MayAct(o, a, Buyer(o))
  /\ order[o].status = "issue"
  /\ order[o].issue = "open"
  /\ order[o].request = "none"        \* RefundRequest.issueId is unique
  /\ WriteOrder(o, [order[o] EXCEPT !.request = "pending"])
  /\ UNCHANGED <<listing, inventory, draft>>

Counteroffer(a, o) ==
  /\ MayAct(o, a, Merchant(o))
  /\ order[o].status = "issue"
  /\ order[o].request = "pending"
  /\ ~order[o].offered
  /\ WriteOrder(o, [order[o] EXCEPT !.offered = TRUE])
  /\ UNCHANGED <<listing, inventory, draft>>

Accept(a, o) ==
  /\ MayAct(o, a, Buyer(o))
  /\ order[o].status \in {"pending_acceptance", "issue"}
  /\ order[o].delivered > 0
  /\ MaySettle(o, "release")
  /\ WriteOrder(o, [order[o] EXCEPT
              !.status = "completed",
              !.settled = Settle(o, "release"),
              !.reservation = CloseReservation(o, "completed"),
              !.issue = Resolved(@),
              !.request = Dropped(@)])
  /\ MoveStock(o, "sold")
  /\ UNCHANGED <<listing, draft>>

Refund(a, o) ==
  /\ MayAct(o, a, Merchant(o))
  /\ order[o].status = "issue"
  /\ order[o].request = "pending"
  /\ Paid(o)
  /\ MaySettle(o, "refund")
  /\ WriteOrder(o, [order[o] EXCEPT
              !.status = "refunded",
              !.settled = Settle(o, "refund"),
              !.reservation = CloseReservation(o, "refunded"),
              !.issue = "resolved",
              !.request = "approved"])
  /\ MoveStock(o, "refund_hold")
  /\ UNCHANGED <<listing, draft>>

(* Restore never touches the order row. *)
Restore(a, o) ==
  /\ order[o].status = "refunded"
  /\ a = Merchant(o)
  /\ Physical(order[o].listing)
  /\ HeldBy(o, "refund_hold")
  /\ ~order[o].paused
  /\ order[o].free \/ "refund" \in order[o].settled
  /\ MoveStock(o, "available")
  /\ UNCHANGED <<listing, order, draft>>

-----------------------------------------------------------------------------
(* The administrator rules on a refused refund. *)

ResolveDispute(o, outcome) ==
  /\ order[o].status = "issue"
  /\ ~order[o].paused
  /\ order[o].request = "pending"
  /\ order[o].offered
  /\ Paid(o)
  /\ HeldBy(o, "reserved")
  /\ outcome = "release" => order[o].delivered > 0
  /\ MaySettle(o, outcome)
  /\ LET next == IF outcome = "refund" THEN "refunded" ELSE "completed"
     IN  WriteOrder(o, [order[o] EXCEPT
                  !.status = next,
                  !.settled = Settle(o, outcome),
                  !.reservation = CloseReservation(o, next),
                  !.issue = "resolved",
                  !.request = IF outcome = "refund" THEN "approved" ELSE "closed"])
  /\ MoveStock(o, IF outcome = "refund" THEN "refund_hold" ELSE "sold")
  /\ UNCHANGED <<listing, draft>>

(* Fault: the order is closed and its stock is not put back. *)
ExpireKeepingStock(o) ==
  /\ order[o].status = "pending_payment"
  /\ HeldBy(o, "reserved")
  /\ WriteOrder(o, [order[o] EXCEPT
              !.status = "expired",
              !.paused = FALSE,
              !.reservation = CloseReservation(o, "expired")])
  /\ UNCHANGED <<listing, inventory, draft>>

(* One candidate of expirePendingPaymentOrders: any unpaid order may be    *)
(* old enough. Expiry ignores the pause and clears it.                     *)
Expire(o) ==
  /\ order[o].status = "pending_payment"
  /\ HeldBy(o, "reserved")
  /\ Physical(order[o].listing) => order[o].reservation = "active"
  /\ WriteOrder(o, [order[o] EXCEPT
              !.status = "expired",
              !.paused = FALSE,
              !.reservation = CloseReservation(o, "expired")])
  /\ MoveStock(o, "available")
  /\ UNCHANGED <<listing, draft>>
=============================================================================
