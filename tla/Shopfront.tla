------------------------------ MODULE Shopfront ------------------------------
(***************************************************************************)
(* What the market shows, and the buttons its pages have for a row: the    *)
(* catalogue and the page of a listing, a seller's own listings, the page  *)
(* of an order, the dispute page and the review queue, beside the handlers *)
(* the API dispatches a request to.                                        *)
(***************************************************************************)
EXTENDS Market

-----------------------------------------------------------------------------
(* listing.service.ts: the public pages show what is published and not     *)
(* under review; a seller also finds what is under review, by its          *)
(* publication status.                                                     *)
Public(l) == listing[l].exists /\ listing[l].published /\ listing[l].review = "clear"

resolveFavorites(ids) == {l \in ids : Public(l)}
Search == {l \in Listing : Public(l)}
Mine(a) == {l \in Listing : listing[l].exists /\ listing[l].published /\ Seller[l] = a}

(* view: what is said of a listing, beside its text and price.             *)
ViewOf(l) ==
  [ canEdit             |-> Stocked(l) => OrdersOf(l) = {},
    published           |-> listing[l].published,
    availability        |-> IF Stocked(l) THEN inventory[l].availability ELSE "unlimited",
    purchaseEligible    |-> Sellable(l) ]

(* backend-api.ts, listingCanBePurchased and the status of toItem.         *)
listingCanBePurchased(view) ==
  /\ view.published
  /\ view.purchaseEligible
  /\ view.availability \in {"available", "unlimited"}

itemStatus(view) ==
  CASE view.availability = "sold" -> "sold"
    [] view.availability # "sold" /\ listingCanBePurchased(view) -> "active"
    [] OTHER -> "locked"

(* The page of a listing, for a signed-in account; its dialog looks the    *)
(* listing up once more before it confirms.                                *)
ListingOffer(a, l) ==
  IF ~Public(l) THEN {}
  ELSE {x \in {"report"} : a # Seller[l]}
         \cup {x \in {"buy"} : itemStatus(ViewOf(l)) = "active"}
         \cup {x \in {"cart"} : itemStatus(ViewOf(l)) = "active" /\ a # Seller[l]}

(* The cart page checks out when every line is resolved and purchasable.   *)
CartReady(items) ==
  /\ resolveFavorites(items) = items
  /\ \A l \in items : listingCanBePurchased(ViewOf(l))

(* A seller's own listings, of which the page asks for the published ones. *)
MyOffer(a, l) ==
  IF l \notin Mine(a) THEN {}
  ELSE {"withdraw"}
         \cup {x \in {"edit"} : ViewOf(l).canEdit}
         \cup {x \in {"source-response"} :
                 listing[l].review = "paused" /\ listing[l].kind = "source"}

-----------------------------------------------------------------------------
(* Fault: while an issue is open the buyer is left to wait.                *)
BuyerOfferToWait ==
  [ pending_payment    |-> {"pay", "cancel"},
    pending_delivery   |-> {"issue"},
    pending_acceptance |-> {"accept", "issue"},
    issue              |-> {} ]

(* frontend/src/lib/order-api.ts, orderActions: the buttons of the order   *)
(* page for the account that is signed in.                                 *)
BuyerOffer ==
  [ pending_payment    |-> {"pay", "cancel"},
    pending_delivery   |-> {"issue"},
    pending_acceptance |-> {"accept", "issue"},
    issue              |-> {"accept", "request-refund"} ]

SellerOffer ==
  [ pending_delivery   |-> {"deliver"},
    pending_acceptance |-> {"deliver"},
    issue              |-> {"deliver", "counteroffer", "refund"} ]

OfferOf(offer, status) == IF status \in DOMAIN offer THEN offer[status] ELSE {}

orderActions(a, o) ==
  CASE order[o].paused -> {}
    [] ~order[o].paused /\ a = Buyer(o) -> OfferOf(BuyerOffer, order[o].status)
    [] ~order[o].paused /\ a = Merchant(o) /\ a # Buyer(o) ->
         OfferOf(SellerOffer, order[o].status)
           \cup {x \in {"restore"} : order[o].status = "refunded" /\ Physical(order[o].listing)}
    [] OTHER -> {}

(* dispute.controller.ts: the disputes listed for the administrator, what  *)
(* is said of one, and the page of it, which has both rulings or neither.  *)
Disputes == {o \in Order : order[o].status = "issue" /\ order[o].request = "pending"}

DisputeOf(o) ==
  [ status          |-> order[o].status,
    refundRequested |-> order[o].request = "pending",
    counteroffer    |-> order[o].offered ]

Outcomes == {"refund", "release"}

RulingsOffered(dispute) ==
  IF dispute.status = "issue" /\ dispute.refundRequested /\ dispute.counteroffer
  THEN Outcomes ELSE {}

(* The review queue lists a listing that waits for a review or is under    *)
(* one, with its frozen orders, and has the buttons of its state.          *)
Queued(l) == listing[l].exists /\ (listing[l].pending \/ listing[l].review # "clear")
FrozenOrdersOf(l) == {o \in OrdersOf(l) : order[o].paused}

ReviewOffer(l) ==
  CASE ~Queued(l)                   -> {}
    [] listing[l].review = "paused" -> {"resume", "continue_pause", "rule_violation"}
    [] Queued(l) /\ listing[l].review = "clear" -> {"pause", "dismiss"}
    [] OTHER                        -> {}

ResolveOffer(l) == IF Queued(l) /\ listing[l].review = "rejected" THEN FrozenOrdersOf(l) ELSE {}

-----------------------------------------------------------------------------
(* order.controller.ts: an order is listed for and shown to its two        *)
(* participants; to anyone else it is not there.                           *)
OrderList(a) == {o \in Order : order[o].status # "none" /\ (Buyer(o) = a \/ Merchant(o) = a)}

participantOrder(a, o) == order[o].status # "none" /\ a \in {Buyer(o), Merchant(o)}

(* action: the handler a request is dispatched to.                         *)
Handle(a, o, action) ==
  CASE action = "cancel"         -> Cancel(a, o)
    [] action = "pay"            -> Pay(a, o)
    [] action = "deliver"        -> Deliver(a, o)
    [] action = "issue"          -> Issue(a, o)
    [] action = "request-refund" -> RequestRefund(a, o)
    [] action = "counteroffer"   -> Counteroffer(a, o)
    [] action = "accept"         -> Accept(a, o)
    [] action = "refund"         -> Refund(a, o)
    [] action = "restore"        -> Restore(a, o)

OrderAction == {"cancel", "pay", "deliver", "issue", "request-refund",
                "counteroffer", "accept", "refund", "restore"}

-----------------------------------------------------------------------------
(* The pages and the handlers agree: whatever a handler takes, the page    *)
(* that shows the current row had a button for it, so nobody who keeps to  *)
(* the pages is without a step the API would allow: whoever may order      *)
(* finds the listing and may buy it alone or in a cart, the participants   *)
(* of an order, the administrator and the seller of a published listing    *)
(* have every step of theirs (listing page, backend-listings.tsx,          *)
(* order-api.ts orderActions, dispute page and listing-review-queue.tsx    *)
(* beside createOne, act, resolveDispute, edit and the review handlers).   *)
(* The converse fails: a second delivery is offered before acceptance and  *)
(* refused. So does the premise: a withdrawn listing is on no page.        *)
OrderedWasOffered(a, id) ==
  LET items == DOMAIN id
  IN  CreateOrders(a, id) =>
        /\ items \subseteq Search
        /\ \A l \in items : {"buy", "cart"} \subseteq ListingOffer(a, l)
        /\ CartReady(items)

SellerWasOffered(l) ==
  l \in Mine(Seller[l]) =>
    /\ \A committed, priced \in BOOLEAN :
         EditContent(l, committed, priced) => "edit" \in MyOffer(Seller[l], l)
    /\ SetPublication(l, FALSE) => "withdraw" \in MyOffer(Seller[l], l)
    /\ SourceResponse(Seller[l], l) => "source-response" \in MyOffer(Seller[l], l)

ReviewWasOffered(l) ==
  /\ Dismiss(l) => "dismiss" \in ReviewOffer(l)
  /\ \A kind \in ReviewKinds : Pause(l, kind) => "pause" \in ReviewOffer(l)
  /\ \A outcome \in {"resume", "continue_pause", "rule_violation"} :
       Review(l, outcome) => outcome \in ReviewOffer(l)
  /\ \A o \in Order : ResolveAffectedOrder(l, o) => o \in ResolveOffer(l)

HandledWasOffered ==
  [][/\ \A a \in Account, o \in Order : \A action \in OrderAction :
          Handle(a, o, action) =>
            /\ o \in OrderList(a)
            /\ participantOrder(a, o)
            /\ action \in orderActions(a, o)
     /\ \A a \in Account, items \in SUBSET Listing \ {{}} :
          \A id \in [items -> Order] : OrderedWasOffered(a, id)
     /\ \A a \in Account, l \in Listing, kind \in ReviewKinds :
          Report(a, l, kind) => "report" \in ListingOffer(a, l)
     /\ \A o \in Disputes, outcome \in Outcomes :
          ResolveDispute(o, outcome) => outcome \in RulingsOffered(DisputeOf(o))
     /\ \A o \in Order \ Disputes, outcome \in Outcomes : ~ResolveDispute(o, outcome)
     /\ \A l \in Listing : SellerWasOffered(l) /\ ReviewWasOffered(l)]_vars
=============================================================================
