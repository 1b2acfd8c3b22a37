----------------------------- MODULE OrderDesk -----------------------------
(***************************************************************************)
(* The market with the two things an order leaves behind once it is over:  *)
(* the buyer's rating and the balances.                                    *)
(***************************************************************************)
EXTENDS Market, Integers

CONSTANTS
  Rating,    \* the ratings a buyer may give (1 to 5)
  Unrated    \* SellerReview has no row for the order

ASSUME RatingAssumption == Unrated \notin Rating

(* The table of orders is finite: a balance is a sum over its rows. *)
ASSUME OrdersFinite == IsFiniteSet(Order)

VARIABLE rating     \* the SellerReview row of an order, unique by orderId

deskVars == <<vars, rating>>

DeskInit == Init /\ rating = [o \in Order |-> Unrated]

-----------------------------------------------------------------------------
(* seller-review.controller.ts, review: the buyer of a completed order     *)
(* rates once; the same rating again is answered and changes nothing,      *)
(* another one is refused.                                                 *)
RateSeller(a, o, stars) ==
  /\ a = Buyer(o)
  /\ order[o].status = "completed"
  /\ rating[o] \in {Unrated, stars}
  /\ rating' = [rating EXCEPT ![o] = stars]
  /\ UNCHANGED vars

Desk(market) ==
  \/ market /\ UNCHANGED rating
  \/ \E a \in Account, o \in Order, stars \in Rating : RateSeller(a, o, stars)

DeskSpec == DeskInit /\ [][Desk(Next)]_deskVars

-----------------------------------------------------------------------------
(* balance.controller.ts: an account's balance in units of one price, the  *)
(* payments it made, the refunds it got back and the releases it earned.   *)
Recorded(operation) == {o \in Order : operation \in order[o].settled}

(* Fault: a refund is paid back to the seller. *)
BalanceRefundToSeller(a) ==
  Cardinality({o \in Recorded("release") \cup Recorded("refund") : Merchant(o) = a})
    - Cardinality({o \in Recorded("payment") : Buyer(o) = a})

Balance(a) ==
  Cardinality({o \in Recorded("release") : Merchant(o) = a})
    + Cardinality({o \in Recorded("refund") : Buyer(o) = a})
    - Cardinality({o \in Recorded("payment") : Buyer(o) = a})

-----------------------------------------------------------------------------
(* Money is neither made nor lost, and nobody keeps what is not theirs: an *)
(* account is up by the orders completed for it and down by those it has   *)
(* paid and not got back, over every path that settles                     *)
(* (balance.controller.ts), and what a seller was rated for has been       *)
(* released to it for good.                                                *)
Charged(statuses) == {o \in Order : order[o].status \in statuses /\ ~order[o].free}
Earned(a) == {o \in Charged({"completed"}) : Merchant(o) = a}
Spent(a) == {o \in Charged({"completed"} \cup (OpenStatuses \ {"pending_payment"})) :
               Buyer(o) = a}

BooksClose ==
  /\ \A a \in Account : Balance(a) = Cardinality(Earned(a)) - Cardinality(Spent(a))
  /\ \A o \in Order : rating[o] # Unrated =>
       order[o].free \/ order[o].settled = {"payment", "release"}
=============================================================================
