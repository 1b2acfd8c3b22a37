------------------------------ MODULE MCMarket ------------------------------
(* Small markets: the values the .cfg files give to the constants. *)
EXTENDS Market, TLC

CONSTANTS l1, l2, s1, b1, b2, o1, o2, o3

(* One physical article, one seller. *)
OneListing == {l1}
PhysicalKind == [l \in OneListing |-> "physical"]
SoleSeller == [l \in OneListing |-> s1]

(* A physical article and an unlimited download. *)
TwoListings == {l1, l2}
MixedKind == [l \in TwoListings |-> IF l = l1 THEN "physical" ELSE "unlimited"]
SameSeller == [l \in TwoListings |-> s1]

(* An article and the id of a listing that may replace it. *)
PairKind == [l \in TwoListings |-> "physical"]

(* Two one-off articles, for carts of two lines. *)
CartKind == [l \in TwoListings |-> IF l = l1 THEN "physical" ELSE "single"]

(* A market in which no listing is reported, withdrawn or edited. *)
QuietNext ==
  \/ \E a \in Account : Checkout(a)
  \/ \E a \in Account, o \in Order : ParticipantStep(a, o)
  \/ \E o \in Order, outcome \in {"refund", "release"} : ResolveDispute(o, outcome)
  \/ \E o \in Order : Expire(o)

(* A market in which no seller edits, withdraws, replaces or explains.     *)
FirmNext ==
  \/ QuietNext
  \/ \E a \in Account, l \in Listing, kind \in ReviewKinds : Report(a, l, kind)
  \/ \E l \in Listing : AdminStep(l)

FirmSpec == Init /\ [][FirmNext]_vars

(* A market in which no refund is answered by an offer, so that none comes *)
(* before an administrator. A ruling moves the stock as Refund or Accept.  *)
UnruledNext ==
  \/ \E a \in Account : Checkout(a)
  \/ \E a \in Account, o \in Order :
       \/ Cancel(a, o) \/ Pay(a, o) \/ Deliver(a, o) \/ Accept(a, o) \/ Restore(a, o)
       \/ Issue(a, o) \/ RequestRefund(a, o) \/ Refund(a, o)
  \/ \E o \in Order : Expire(o)
  \/ \E a \in Account, l \in Listing, kind \in ReviewKinds : Report(a, l, kind)
  \/ \E l \in Listing : SellerStep(l) \/ AdminStep(l)

OrderSymmetry == Permutations({o1, o2})
CartSymmetry == Permutations({o1, o2, o3})
=============================================================================
