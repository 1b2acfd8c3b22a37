--------------------------- MODULE ListingReview ---------------------------
(***************************************************************************)
(* The listing side: publishing and editing (listing.service.ts,           *)
(* listing-commands.ts) and the review of reported listings                *)
(* (listing-review.controller.ts), whose pause, ruling and resolution also *)
(* write the open orders of the listing.                                   *)
(***************************************************************************)
EXTENDS Marketplace

CONSTANTS CommitmentPolicy  \* LISTING_COMMITMENT_POLICY: "compat" or "enforce"

ASSUME PolicyAssumption == CommitmentPolicy \in {"compat", "enforce"}

-----------------------------------------------------------------------------
(* Publishing and editing. *)

Replaces(old) == {l \in Listing : listing[l].exists /\ listing[l].replaces = old}

(* A seller with an ordered one-off listing that is unpurchasable for good *)
(* or under review gets every new one-off listing of that type reviewed.   *)
LockedLegacy(l) ==
  Stocked(l) /\ \E m \in Listing :
    /\ listing[m].exists
    /\ Seller[m] = Seller[l]
    /\ Type(m) = Type(l)
    /\ Stocked(m)
    /\ ~listing[m].committed \/ listing[m].review # "clear"
    /\ OrdersOf(m) # {}

(* A create that replaces listing old reads the old row before it locks    *)
(* it, so what it learnt of the review may be stale when it goes on.       *)
ReadReplaced(l, old) ==
  /\ ~listing[l].exists
  /\ Stocked(l)
  /\ listing[old].exists
  /\ Seller[old] = Seller[l]
  /\ Type(old) = Type(l)
  /\ Stocked(old)
  /\ OrdersOf(old) # {}
  /\ ~Sellable(old)
  /\ draft' = [draft EXCEPT ![l] = old]
  /\ UNCHANGED <<listing, inventory, order>>

(* What create asks once it holds the lock on the old row.                 *)
MayReplace(old, l) ==
  /\ draft[l] = old
  /\ OpenOrdersOf(old) = {}
  /\ Idle(old)
  /\ Replaces(old) = {}               \* replacementOfListingId is unique

(* The create commits; any other outcome of the request leaves no trace    *)
(* but the draft, which the next read overwrites.                          *)
CreateListing(l, committed, replaces) ==
  LET reviewed == replaces # NoListing \/ LockedLegacy(l)
  IN  /\ ~listing[l].exists
      /\ committed \/ CommitmentPolicy = "compat"
      /\ replaces # NoListing => MayReplace(replaces, l)
      /\ WriteListing(l,
           [ exists    |-> TRUE,
             published |-> TRUE,
             committed |-> committed,
             free      |-> FALSE,
             review    |-> IF reviewed THEN "paused" ELSE "clear",
             pending   |-> FALSE,
             kind      |-> IF reviewed THEN "replacement" ELSE "none",
             answered  |-> FALSE,
             replaces  |-> replaces ])
      /\ inventory' = [inventory EXCEPT ![l] =
           [availability |-> "available", holder |-> NoOrder]]
      /\ draft' = [draft EXCEPT ![l] = NoListing]
      /\ UNCHANGED order

(* An edit of anything but the publication status: it may set a price,     *)
(* which is never zero, or add the commitment. A one-off listing is locked *)
(* once it has an order.                                                   *)
EditContent(l, committed, priced) ==
  /\ listing[l].exists
  /\ Stocked(l) => OrdersOf(l) = {}
  /\ WriteListing(l, [listing[l] EXCEPT
                 !.committed = @ \/ committed,
                 !.free = @ /\ ~priced])
  /\ UNCHANGED <<inventory, order, draft>>

SetPublication(l, published) ==
  /\ listing[l].exists
  /\ WriteListing(l, [listing[l] EXCEPT !.published = published])
  /\ UNCHANGED <<inventory, order, draft>>

-----------------------------------------------------------------------------
(* Review. Only the effective report is a step: any other leaves an event. *)

ReviewKinds == {"source", "listing_rule"}

Report(a, l, kind) ==
  /\ listing[l].exists
  /\ listing[l].published
  /\ Seller[l] # a
  /\ listing[l].review = "clear"
  /\ ~listing[l].pending
  /\ WriteListing(l, [listing[l] EXCEPT
                 !.pending = TRUE,
                 !.kind = kind,
                 !.answered = FALSE])
  /\ UNCHANGED <<inventory, order, draft>>

Dismiss(l) ==
  /\ listing[l].exists
  /\ listing[l].review = "clear"
  /\ listing[l].pending
  /\ WriteListing(l, [listing[l] EXCEPT !.pending = FALSE, !.answered = FALSE])
  /\ UNCHANGED <<inventory, order, draft>>

SetPaused(orders, paused) ==
  order' = [o \in Order |-> IF o \in orders THEN [order[o] EXCEPT !.paused = paused]
                                            ELSE order[o]]

(* Pausing freezes every open order of the listing in the same commit. *)
Pause(l, kind) ==
  /\ listing[l].exists
  /\ listing[l].review = "clear"
  /\ listing[l].pending
  /\ WriteListing(l, [listing[l] EXCEPT
                 !.review = "paused",
                 !.pending = FALSE,
                 !.kind = kind,
                 !.answered = FALSE])
  /\ SetPaused(OpenOrdersOf(l), TRUE)
  /\ UNCHANGED <<inventory, draft>>

SourceResponse(a, l) ==
  /\ listing[l].exists
  /\ a = Seller[l]
  /\ listing[l].review = "paused"
  /\ listing[l].kind = "source"
  /\ WriteListing(l, [listing[l] EXCEPT !.answered = TRUE])
  /\ UNCHANGED <<inventory, order, draft>>

(* Fault: only the replacement is looked at, not the listing it replaces. *)
MayResumeAlone(l) ==
  /\ \A m \in Replaces(l) : listing[m].review = "rejected"
  /\ listing[l].kind = "source" => listing[l].answered

(* What a resume asks: the replaced listing is out of trade and nothing    *)
(* holds its stock; no live listing replaces this one; a source question   *)
(* has been answered since it was last raised.                             *)
MayResume(l) ==
  LET old == listing[l].replaces
  IN  /\ old # NoListing => ~Sellable(old) /\ OpenOrdersOf(old) = {} /\ Idle(old)
      /\ \A m \in Replaces(l) : listing[m].review = "rejected"
      /\ listing[l].kind = "source" => listing[l].answered

Review(l, outcome) ==
  LET next == CASE outcome = "resume"         -> "clear"
                [] outcome = "continue_pause" -> "paused"
                [] outcome = "rule_violation" -> "rejected"
  IN  /\ listing[l].exists
      /\ listing[l].review = "paused"
      /\ outcome = "resume" => MayResume(l)
      /\ WriteListing(l, [listing[l] EXCEPT
                     !.review = next,
                     !.answered = FALSE])
      /\ SetPaused(IF next = "clear" THEN OpenOrdersOf(l) ELSE {}, FALSE)
      /\ UNCHANGED <<inventory, draft>>

(* The administrator closes one frozen order of a rejected listing: an     *)
(* unpaid order is cancelled, any other is refunded. The handler does not  *)
(* look at the inventory row it overwrites, and asks for the payment       *)
(* record whatever the price.                                              *)
ResolveAffectedOrder(l, o) ==
  LET refund == order[o].status # "pending_payment"
      next == IF refund THEN "refunded" ELSE "cancelled"
  IN  /\ listing[l].exists
      /\ listing[l].review = "rejected"
      /\ o \in OpenOrdersOf(l)
      /\ order[o].paused
      /\ refund => "payment" \in order[o].settled /\ "refund" \notin order[o].settled
      /\ WriteOrder(o, [order[o] EXCEPT
                  !.status = next,
                  !.paused = FALSE,
                  !.settled = IF refund THEN @ \cup {"refund"} ELSE @,
                  !.request = IF refund /\ @ = "pending" THEN "closed" ELSE @,
                  !.issue = IF refund /\ @ = "open" THEN "resolved" ELSE @,
                  !.reservation = IF Physical(l) THEN next ELSE @])
      /\ MoveStock(o, IF refund THEN "refund_hold" ELSE "available")
      /\ UNCHANGED <<listing, draft>>
=============================================================================
