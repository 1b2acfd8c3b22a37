------------------------------- MODULE Market -------------------------------
(***************************************************************************)
(* Orders and listings together: every committed transaction that writes   *)
(* a listing, its stock or an order, in any order the row locks allow.     *)
(***************************************************************************)
EXTENDS OrderCommands, ListingReview

CONSTANTS
  InitialListing, \* listings present at the start
  Legacy,         \* those of them without a commitment (rows older than it)
  FreeListing     \* those of them with price zero (allowed by listing_valid)

ASSUME InitialAssumption ==
  /\ Listing # {}
  /\ InitialListing \subseteq Listing
  /\ Legacy \subseteq Listing
  /\ FreeListing \subseteq Listing

(* Rows that do not exist yet hold arbitrary but fixed values. *)
BlankOrder ==
  [ status |-> "none", listing |-> CHOOSE l \in Listing : TRUE,
    buyer |-> CHOOSE a \in Account : TRUE, free |-> FALSE, paused |-> FALSE,
    reservation |-> "none", delivered |-> 0, issue |-> "none",
    request |-> "none", offered |-> FALSE, settled |-> {} ]

Init ==
  /\ listing = [l \in Listing |->
       [ exists    |-> l \in InitialListing,
         published |-> l \in InitialListing,
         committed |-> l \in InitialListing \ Legacy,
         free      |-> l \in InitialListing \cap FreeListing,
         review    |-> "clear",
         pending   |-> FALSE,
         kind      |-> "none",
         answered  |-> FALSE,
         replaces  |-> NoListing ]]
  /\ inventory = [l \in Listing |-> [availability |-> "available", holder |-> NoOrder]]
  /\ order = [o \in Order |-> BlankOrder]
  /\ draft = [l \in Listing |-> NoListing]

ParticipantStep(a, o) ==
  \/ Cancel(a, o) \/ Pay(a, o) \/ Accept(a, o)
  \/ Issue(a, o) \/ RequestRefund(a, o)
  \/ Deliver(a, o) \/ Counteroffer(a, o) \/ Refund(a, o) \/ Restore(a, o)

SellerStep(l) ==
  \/ \E old \in Listing : ReadReplaced(l, old)
  \/ \E committed \in BOOLEAN, replaces \in Listing \cup {NoListing} :
       CreateListing(l, committed, replaces)
  \/ \E committed, priced \in BOOLEAN : EditContent(l, committed, priced)
  \/ \E published \in BOOLEAN : SetPublication(l, published)
  \/ SourceResponse(Seller[l], l)

AdminStep(l) ==
  \/ Dismiss(l)
  \/ \E kind \in ReviewKinds : Pause(l, kind)
  \/ \E outcome \in {"resume", "continue_pause", "rule_violation"} : Review(l, outcome)
  \/ \E o \in Order : ResolveAffectedOrder(l, o)

Next ==
  \/ \E a \in Account : Checkout(a)
  \/ \E a \in Account, o \in Order : ParticipantStep(a, o)
  \/ \E o \in Order, outcome \in {"refund", "release"} : ResolveDispute(o, outcome)
  \/ \E o \in Order : Expire(o)
  \/ \E a \in Account, l \in Listing, kind \in ReviewKinds : Report(a, l, kind)
  \/ \E l \in Listing : SellerStep(l) \/ AdminStep(l)

Spec == Init /\ [][Next]_vars

-----------------------------------------------------------------------------
(* One copy of a one-off listing is never in two hands: while an order     *)
(* that is open or completed claims the stock, the inventory row is held   *)
(* by exactly that order, and a row that is on the shelf is claimed by     *)
(* none (order-commands.ts createOne, closeInventory; listing-review       *)
(* resolveAffectedOrder, which never looks at the row it overwrites).      *)
StockOf(status) == CASE status \in OpenStatuses -> "reserved"
                     [] status = "completed" -> "sold"
                     [] OTHER -> "refund_hold"

Claiming == OpenStatuses \cup {"completed"}

Holds(o, l) ==
  /\ order[o].status \in Claiming \cup {"refunded"}
  /\ inventory[l] = [availability |-> StockOf(order[o].status), holder |-> o]

HolderOwnsStock ==
  \A l \in Listing : Stocked(l) /\ ~Idle(l) => \E o \in OrdersOf(l) : Holds(o, l)

ClaimsHoldStock ==
  \A l \in Listing : Stocked(l) =>
    \A o \in OrdersOf(l) : order[o].status \in Claiming => inventory[l].holder = o

OrdersListed == \A l \in Listing : OrdersOf(l) # {} => listing[l].exists

StockLedger == OrdersListed /\ HolderOwnsStock /\ ClaimsHoldStock

(* The settlement records of a priced order tell the story of its status:  *)
(* the payment is recorded exactly when the order got past payment, the    *)
(* release exactly on completion, the refund exactly on a refund, so money *)
(* never goes both ways; a free order has none (settle in act,             *)
(* resolveDispute, resolveAffectedOrder, expiry and cancellation).         *)
Owed(status) ==
  CASE status \in {"none", "pending_payment", "cancelled", "expired"} -> {}
    [] status = "completed" -> {"payment", "release"}
    [] status = "refunded"  -> {"payment", "refund"}
    [] OTHER                -> {"payment"}

EscrowMatchesStatus ==
  \A o \in Order : order[o].settled = IF order[o].free THEN {} ELSE Owed(order[o].status)

(* The child rows agree with the status on every path that closes an       *)
(* order: the reservation of a physical order follows it, an issue is open *)
(* only while the order is disputed, a pending refund request belongs to   *)
(* an open issue, an approved one to a refunded order, and nothing is      *)
(* completed undelivered (accept, refund, resolveDispute, expiry,          *)
(* resolveAffectedOrder).                                                  *)
ReservationOf(status) ==
  IF status \in OpenStatuses THEN "active" ELSE status

RecordsAgree(o) ==
  /\ Physical(order[o].listing) /\ order[o].status # "none" =>
       order[o].reservation = ReservationOf(order[o].status)
  /\ order[o].issue = "open" <=> order[o].status = "issue"
  /\ order[o].request = "pending" => order[o].issue = "open"
  /\ order[o].request = "approved" => order[o].status = "refunded"
  /\ order[o].offered => order[o].request # "none"
  /\ order[o].status = "completed" => order[o].delivered > 0

ChildRowsAgree == \A o \in Order : RecordsAgree(o)

(* A listing under review or rejected has no open order that trades on,    *)
(* and an order is frozen only by the review of its own listing, so that a *)
(* cleared listing leaves no order stuck (pause, review, createOne).       *)
FrozenUnderReview ==
  /\ \A l \in Listing : listing[l].review # "clear" =>
       \A o \in OpenOrdersOf(l) : order[o].paused
  /\ \A o \in Order : order[o].paused =>
       /\ order[o].status \in OpenStatuses
       /\ listing[order[o].listing].review # "clear"

(* A one-off article sold again through a replacement listing is not for   *)
(* sale twice: while the replacement is cleared, the replaced listing      *)
(* cannot be bought, has no open order and no order holds its stock        *)
(* (create and review check the pair under different locks and with an     *)
(* unlocked read).                                                         *)
Retired(old) == ~Sellable(old) /\ OpenOrdersOf(old) = {} /\ Idle(old)

ReplacementExclusive ==
  \A l \in Listing :
    /\ listing[l].exists
    /\ listing[l].replaces # NoListing
    /\ listing[l].review = "clear"
    => Retired(listing[l].replaces)

(* A closed order stays closed, with the same money records, whatever      *)
(* handler, ruling or timer comes late.                                    *)
TerminalIsFinal ==
  [][\A o \in Order : order[o].status \in ClosedStatuses => order'[o] = order[o]]_vars

(* A frozen order moves only when the administrator resumes or resolves    *)
(* it, or the payment timer expires it: no participant action and no       *)
(* dispute ruling gets through.                                            *)
FrozenOrderStands ==
  [][\A o \in Order : order[o].paused /\ order'[o] # order[o] =>
       /\ ~order'[o].paused
       /\ \/ order'[o] = [order[o] EXCEPT !.paused = FALSE]
          \/ order'[o].status = "expired"
          \/ listing[order[o].listing].review = "rejected"]_vars

(* A frozen order of a rejected listing can still be closed: "rule         *)
(* violation requires manual cancellation or simulated refund"             *)
(* (backend/tests/product-commitment.integration.mjs:165), and a free      *)
(* order is refunded "without zero-amount settlement rows"                 *)
(* (backend/tests/dispute-resolution.integration.mjs:75). The frozen order *)
(* needs resolveAffectedOrder or the payment timer to be open to it.       *)
FrozenOrderHasExit ==
  \A l \in Listing : listing[l].review = "rejected" =>
    \A o \in OpenOrdersOf(l) : ENABLED (ResolveAffectedOrder(l, o) \/ Expire(o))

-----------------------------------------------------------------------------
(* The market implements Trade: a status is a phase, the order that holds  *)
(* the inventory row is the owner of the article; a listing without such a *)
(* row has no owner.                                                       *)
PhaseOf(status) ==
  CASE status = "none"                                   -> "none"
    [] status = "pending_payment"                        -> "open"
    [] status \in OpenStatuses \ {"pending_payment"}     -> "paid"
    [] status = "completed"                              -> "released"
    [] status = "refunded"                               -> "refunded"
    [] OTHER                                             -> "void"

OneOffListings == {l \in Listing : Stocked(l)}

MarketTrade == INSTANCE Trade WITH
  OneOff  <- OneOffListings,
  phase   <- [o \in Order |-> PhaseOf(order[o].status)],
  article <- [o \in Order |-> order[o].listing],
  owner   <- [l \in Listing |-> IF Stocked(l) THEN inventory[l].holder ELSE NoOrder]

(* Every committed transaction is a step of Trade or changes nothing a     *)
(* buyer or a seller was promised: each handler of order-commands.ts and   *)
(* listing-review.controller.ts, the timer and the rulings included.       *)
ImplementsTrade == MarketTrade!TradeSpec
=============================================================================
