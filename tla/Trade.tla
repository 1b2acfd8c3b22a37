------------------------------- MODULE Trade -------------------------------
(***************************************************************************)
(* What the marketplace promises to the two sides of an order, and no      *)
(* more: an order is opened, paid and then either released to the seller   *)
(* or refunded, or it is void before any payment; a one-off article is     *)
(* claimed by at most one order, is kept by the order that was released    *)
(* and comes back on the shelf only from a void or a refunded order.       *)
(***************************************************************************)
CONSTANTS Listing, Order, NoOrder,
  OneOff    \* the listings that have one article to sell

VARIABLES
  phase,    \* phase[o] of each order
  article,  \* article[o]: the listing o is for
  owner     \* owner[l]: the order that claims the one-off article l

tradeVars == <<phase, article, owner>>

Phases == {"none", "open", "paid", "released", "refunded", "void"}

TradeInit ==
  /\ phase = [o \in Order |-> "none"]
  /\ article \in [Order -> Listing]
  /\ owner = [l \in Listing |-> NoOrder]

Claims(o) == article[o] \in OneOff => owner[article[o]] = o

(* Several orders open together, each on an article of its own. *)
Open(made, of) ==
  /\ \A o \in made : phase[o] = "none"
  /\ \A o, p \in made : of[o] = of[p] => o = p
  /\ \A o \in made : of[o] \in OneOff => owner[of[o]] = NoOrder
  /\ phase' = [o \in Order |-> IF o \in made THEN "open" ELSE phase[o]]
  /\ article' = [o \in Order |-> IF o \in made THEN of[o] ELSE article[o]]
  /\ \A l \in Listing :
       \/ \E o \in made : of[o] = l /\ l \in OneOff /\ owner'[l] = o
       \/ (~\E o \in made : of[o] = l /\ l \in OneOff) /\ owner'[l] = owner[l]
  /\ owner' \in [Listing -> Order \cup {NoOrder}]

Move(o, from, to) ==
  /\ phase[o] = from
  /\ Claims(o)
  /\ phase' = [phase EXCEPT ![o] = to]
  /\ UNCHANGED article

FreeArticle(o) ==
  owner' = [l \in Listing |-> IF l = article[o] /\ l \in OneOff THEN NoOrder
                                                               ELSE owner[l]]

Pay(o) == Move(o, "open", "paid") /\ UNCHANGED owner
Release(o) == Move(o, "paid", "released") /\ UNCHANGED owner
Refund(o) == Move(o, "paid", "refunded") /\ UNCHANGED owner
Void(o) == Move(o, "open", "void") /\ FreeArticle(o)

Restock(o) ==
  /\ phase[o] = "refunded"
  /\ article[o] \in OneOff
  /\ owner[article[o]] = o
  /\ FreeArticle(o)
  /\ UNCHANGED <<phase, article>>

TradeNext ==
  \/ \E made \in SUBSET Order : \E of \in [made -> Listing] : Open(made, of)
  \/ \E o \in Order : Pay(o) \/ Release(o) \/ Refund(o) \/ Void(o) \/ Restock(o)

TradeSpec == TradeInit /\ [][TradeNext]_tradeVars
=============================================================================
