---------------------------- MODULE Marketplace ----------------------------
(***************************************************************************)
(* The database rows the order and listing handlers share, one function    *)
(* per group of tables:                                                    *)
(*   listing    the Listing row (backend/prisma/schema.prisma)             *)
(*   inventory  the PhysicalInventory or DigitalInventory row of a listing *)
(*   order      the Order row with the child rows an order owns: snapshot, *)
(*              reservation, deliveries, issue, refund request, counter-   *)
(*              offer event and settlement records                         *)
(*   draft      a create request in flight: the listing it found           *)
(*              replaceable when it read the row without a lock            *)
(* Every handler runs in one READ COMMITTED transaction that first locks   *)
(* the listing row, so one committed transaction is one step here.         *)
(***************************************************************************)
EXTENDS Naturals, FiniteSets

CONSTANTS
  Account,        \* active participants: sellers and buyers
  Listing,        \* listing ids
  Order,          \* order ids
  Kind,           \* Kind[l]: "physical", "single" (digital, one copy) or "unlimited"
  Seller,         \* Seller[l]: the account that owns listing l
  NoOrder,        \* activeOrderId IS NULL
  NoListing,      \* replacementOfListingId IS NULL
  MaxDeliveries   \* bound on the deliveries of one order (the code has none)

Kinds == {"physical", "single", "unlimited"}

(* Foreign keys and nulls of the schema. *)
ASSUME MarketAssumption ==
  /\ Kind \in [Listing -> Kinds]
  /\ Seller \in [Listing -> Account]
  /\ NoOrder \notin Order
  /\ NoListing \notin Listing
  /\ MaxDeliveries \in Nat

VARIABLES listing, inventory, order, draft

vars == <<listing, inventory, order, draft>>

-----------------------------------------------------------------------------
(* Row types. *)

OpenStatuses == {"pending_payment", "pending_delivery", "pending_acceptance", "issue"}
ClosedStatuses == {"completed", "cancelled", "expired", "refunded"}
Statuses == {"none"} \cup OpenStatuses \cup ClosedStatuses
Reservations == {"none", "active", "completed", "cancelled", "expired", "refunded"}
Issues == {"none", "open", "resolved"}
Requests == {"none", "pending", "approved", "closed"}
Operations == {"payment", "release", "refund"}

ListingRow ==
  [ exists:    BOOLEAN,
    published: BOOLEAN,              \* publicationStatus = 'published'
    committed: BOOLEAN,              \* commitmentVersion = 1 and commitment present
    free:      BOOLEAN,              \* priceAmount = 0
    review:    {"clear", "paused", "rejected"},
    pending:   BOOLEAN,              \* reviewPending
    kind:      {"none", "source", "listing_rule", "replacement"},
    answered:  BOOLEAN,              \* a source_response since reviewUpdatedAt
    replaces:  Listing \cup {NoListing} ]

InventoryRow ==
  [ availability: {"available", "reserved", "sold", "refund_hold"},
    holder:       Order \cup {NoOrder} ]

OrderRow ==
  [ status:      Statuses,
    listing:     Listing,
    buyer:       Account,
    free:        BOOLEAN,            \* snapshot.priceAmount = 0
    paused:      BOOLEAN,            \* transactionPausedAt IS NOT NULL
    reservation: Reservations,
    delivered:   0 .. MaxDeliveries, \* DeliveryRecord rows
    issue:       Issues,
    request:     Requests,
    offered:     BOOLEAN,            \* a 'counteroffer' event exists
    settled:     SUBSET Operations ] \* SettlementRecord rows

TypeOK ==
  /\ listing \in [Listing -> ListingRow]
  /\ inventory \in [Listing -> InventoryRow]
  /\ order \in [Order -> OrderRow]
  /\ draft \in [Listing -> Listing \cup {NoListing}]

-----------------------------------------------------------------------------
(* What the handlers ask of the rows. *)

Physical(l) == Kind[l] = "physical"
Stocked(l) == Kind[l] # "unlimited"          \* the listing has an inventory row
Type(l) == IF Physical(l) THEN "physical" ELSE "digital"

(* canPurchaseCommitment *)
Sellable(l) == listing[l].review = "clear" /\ listing[l].committed

OrdersOf(l) == {o \in Order : order[o].status # "none" /\ order[o].listing = l}
OpenOrdersOf(l) == {o \in OrdersOf(l) : order[o].status \in OpenStatuses}

(* The stock of l is on the shelf: nothing holds it. *)
Idle(l) == Stocked(l) => inventory[l] = [availability |-> "available", holder |-> NoOrder]

(* The stock of o's listing is held by o in the given state. *)
HeldBy(o, availability) ==
  LET l == order[o].listing
  IN  Stocked(l) => inventory[l] = [availability |-> availability, holder |-> o]

(* The inventory row after o's stock moves to the given availability. *)
MoveStock(o, availability) ==
  LET l == order[o].listing
  IN  inventory' =
        IF Stocked(l)
        THEN [inventory EXCEPT ![l] =
                [availability |-> availability,
                 holder |-> IF availability = "available" THEN NoOrder ELSE o]]
        ELSE inventory

(* One update of a listing row, and of an order row. *)
WriteListing(l, row) == listing' = [listing EXCEPT ![l] = row]
WriteOrder(o, row) == order' = [order EXCEPT ![o] = row]
=============================================================================
