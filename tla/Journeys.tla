------------------------------ MODULE Journeys ------------------------------
(***************************************************************************)
(* The acceptance scripts of backend/scripts against the market: what the  *)
(* seed writes past the handlers (v2-seed.mjs), and the clicks of three    *)
(* browser scripts (check-alpha-journey.mjs, check-v2-journey.mjs,         *)
(* check-i5-browser.mjs). In the repository each script has a market of    *)
(* its own; here the three share one, in any interleaving. A fourth market *)
(* holds one order of the seed and lives on under every handler.           *)
(***************************************************************************)
EXTENDS Naturals, Sequences, FiniteSets

VARIABLES
  listing, inventory, order, draft, \* Marketplace
  at                                \* at[s]: the steps script s has taken

(* The cast: listings by kind, and who sells them.                         *)
PhysicalItems == {"alpha item", "v2 target", "v2 cart item", "i5 item", "i5 refund",
                  "i5 photo", "i5 second", "seed item"}
SingleFiles == {"seed copy"}
SharedFiles == {"alpha file", "v2 cart file", "i5 file", "seed file"}
Stalls == PhysicalItems \cup SingleFiles \cup SharedFiles

KindOf == [l \in Stalls |-> CASE l \in PhysicalItems -> "physical"
                              [] l \in SingleFiles   -> "single"
                              [] OTHER               -> "unlimited"]
(* Each script has its own sellers: while a listing is under review, every  *)
(* new one-off listing of its seller begins under review too.              *)
Sellers == {"alpha seller", "v2 seller", "v2 review seller", "i5 seller", "i5 second seller"}
Sells == [l \in Stalls |->
            CASE l \in {"alpha item", "alpha file"} -> "alpha seller"
              [] l = "v2 cart item"                 -> "v2 review seller"
              [] l \in {"i5 item", "i5 refund", "i5 photo", "i5 file"} -> "i5 seller"
              [] l = "i5 second"                    -> "i5 second seller"
              [] OTHER                              -> "v2 seller"]

Copies == {"first", "repeated"}  \* orders of one listing
Rows == Stalls \X Copies

M == INSTANCE Shopfront WITH
       Account <- Sellers \cup {"buyer", "outsider"},
       Listing <- Stalls, Kind <- KindOf, Seller <- Sells, Order <- Rows,
       NoOrder <- <<"no", "order">>, NoListing <- "no listing",
       MaxDeliveries <- 2, MaxItems <- 2, CommitmentPolicy <- "enforce",
       InitialListing <- {}, Legacy <- {}, FreeListing <- {}

marketVars == <<listing, inventory, order, draft>>
first(l) == <<l, "first">>

-----------------------------------------------------------------------------
(* The seed: rows written one by one, for each status of an order.         *)
orderStateSequence == {"pending_payment", "pending_delivery", "pending_acceptance", "issue",
                       "completed", "refunded", "cancelled", "expired"}

SeededListing ==
  [ exists |-> TRUE, published |-> TRUE, committed |-> TRUE, free |-> FALSE,
    review |-> "clear", pending |-> FALSE, kind |-> "none", answered |-> FALSE,
    replaces |-> "no listing" ]

Closed(status) == status \in {"completed", "refunded", "cancelled", "expired"}

(* Fault: the article of an expired order is not given back.               *)
AvailabilityBeforeExpiry(status) ==
  CASE status = "completed" -> "sold"
    [] status = "refunded"  -> "refund_hold"
    [] status = "cancelled" -> "available"
    [] OTHER -> "reserved"

Availability(status) ==
  CASE status = "completed" -> "sold"
    [] status = "refunded"  -> "refund_hold"
    [] status \in {"cancelled", "expired"} -> "available"
    [] OTHER -> "reserved"

SeededStock(o, status) ==
  [ availability |-> Availability(status),
    holder |-> IF Availability(status) = "available" THEN <<"no", "order">> ELSE o ]

SeededOrder(l, free, status, partialDelivery) ==
  [ status |-> status, listing |-> l, buyer |-> "buyer", free |-> free, paused |-> FALSE,
    reservation |-> CASE KindOf[l] # "physical" -> "none"
                      [] Closed(status)         -> status
                      [] OTHER                  -> "active",
    delivered |-> IF status \notin {"pending_acceptance", "issue", "completed", "refunded"} THEN 0
                  ELSE IF partialDelivery THEN 2 ELSE 1,
    issue |-> CASE status = "issue" -> "open" [] status = "refunded" -> "resolved"
                [] OTHER -> "none",
    request |-> CASE status = "issue" -> "pending" [] status = "refunded" -> "approved"
                  [] OTHER -> "none",
    offered |-> status = "issue",
    settled |-> IF free \/ status \in {"pending_payment", "cancelled", "expired"} THEN {}
                ELSE {"payment"} \cup {x \in {"refund"} : status = "refunded"}
                                 \cup {x \in {"release"} : status = "completed"} ]

Unlisted == [SeededListing EXCEPT !.exists = FALSE, !.published = FALSE, !.committed = FALSE]
NoStock == [availability |-> "available", holder |-> <<"no", "order">>]

Market(l, row, stock, made) ==
  /\ listing = [m \in Stalls |-> IF m \in l THEN row ELSE Unlisted]
  /\ inventory = [m \in Stalls |-> IF m \in l THEN stock[m] ELSE NoStock]
  /\ order = [o \in Rows |-> IF o \in DOMAIN made THEN made[o] ELSE M!BlankOrder]
  /\ draft = [m \in Stalls |-> "no listing"]
(* One listing of the plan with its order; the free one is unpaid.         *)
Seeded(l, free, status, partialDelivery) ==
  Market({l}, [SeededListing EXCEPT !.free = free],
         [m \in {l} |-> IF KindOf[l] = "unlimited" THEN NoStock ELSE SeededStock(first(l), status)],
         [o \in {first(l)} |-> SeededOrder(l, free, status, partialDelivery)])

(* The rows the v2 script starts from: a delivered order, and two listings *)
(* of different sellers that have none.                                    *)
SeededForScripts ==
  LET target == first("v2 target")
      listings == {"v2 target", "v2 cart item", "v2 cart file"}
  IN  Market(listings, SeededListing,
             [m \in listings |-> IF m = "v2 target" THEN SeededStock(target, "pending_acceptance")
                                                    ELSE NoStock],
             [o \in {target} |-> SeededOrder("v2 target", FALSE, "pending_acceptance", FALSE)])

-----------------------------------------------------------------------------
(* The steps of a script.                                                  *)
Publish(l) == [do |-> "publish", item |-> l]
Edit(l) == [do |-> "edit", item |-> l]
EditRefused(l) == [do |-> "edit refused", item |-> l]
Look(items) == [do |-> "look", items |-> items]
Favorite(l) == [do |-> "favorite", item |-> l]
Buy(items, copy) == [do |-> "buy", items |-> items, copy |-> copy]
Click(who, o, action, then) == [do |-> "click", who |-> who, order |-> o, action |-> action, then |-> then]
Retry(o, then) == [do |-> "retry", order |-> o, then |-> then]
Hidden(who, o) == [do |-> "hidden", who |-> who, order |-> o]
Rule(o, outcome, then) == [do |-> "rule", order |-> o, outcome |-> outcome, then |-> then]
Review(action, l) == [do |-> action, item |-> l]

Dispute(o) ==
  << Click("buyer", o, "issue", "issue"), Click("buyer", o, "request-refund", "issue") >>

(* check-alpha-journey.mjs *)
Alpha ==
  LET file == first("alpha file")
  IN  << Publish("alpha item"), Publish("alpha file"), Edit("alpha file"),
         Look({"alpha item", "alpha file"}), Favorite("alpha file"),
         Buy({"alpha item"}, "first"), Buy({"alpha file"}, "first"),
         Click("buyer", file, "pay", "pending_delivery"),
         Click("alpha seller", file, "deliver", "pending_acceptance") >>
      \o Dispute(file) \o << Click("alpha seller", file, "refund", "refunded") >>

(* check-v2-journey.mjs *)
V2 ==
  LET target == first("v2 target")
  IN  Dispute(target)
      \o << Click("v2 seller", target, "counteroffer", "issue"), Rule(target, "refund", "refunded"),
            Buy({"v2 cart item", "v2 cart file"}, "first"),
            Review("report", "v2 cart item"), Review("pause", "v2 cart item"),
            Review("source_response", "v2 cart item"), Review("resume", "v2 cart item") >>

(* check-i5-browser.mjs *)
PhysicalSale(o) ==
  << Buy({"i5 item"}, "first"), Click("buyer", o, "pay", "pending_delivery"),
     Retry(o, "pending_delivery"), EditRefused("i5 item"),
     Click("i5 seller", o, "deliver", "pending_acceptance"),
     Click("buyer", o, "accept", "completed"), Hidden("outsider", o) >>

DigitalSale(o) ==
  << Buy({"i5 file"}, "first"), Click("buyer", o, "pay", "pending_delivery"),
     Click("i5 seller", o, "deliver", "pending_acceptance"), Click("buyer", o, "issue", "issue"),
     Click("i5 seller", o, "deliver", "issue"), Click("buyer", o, "accept", "completed"),
     Edit("i5 file") >>

RepeatSale(o) ==
  << Buy({"i5 file"}, "repeated"), Click("buyer", o, "pay", "pending_delivery"),
     Click("i5 seller", o, "deliver", "pending_acceptance"), Click("buyer", o, "accept", "completed") >>

Returned(o) ==
  << Buy({"i5 refund"}, "first"), Click("buyer", o, "pay", "pending_delivery") >> \o Dispute(o)
  \o << Click("i5 seller", o, "refund", "refunded"), Click("i5 seller", o, "restore", "refunded"),
        EditRefused("i5 refund") >>

SecondSeller(o) ==
  << Publish("i5 second"), Look({"i5 second"}), Buy({"i5 second"}, "first"),
     Click("buyer", o, "pay", "pending_delivery"),
     Click("i5 second seller", o, "deliver", "pending_acceptance"),
     Click("buyer", o, "accept", "completed") >>

PhotoSale == << Publish("i5 photo"), Buy({"i5 photo"}, "first") >>

I5 ==
  << Publish("i5 item"), Publish("i5 refund"), Publish("i5 file") >>
  \o PhysicalSale(first("i5 item")) \o DigitalSale(first("i5 file"))
  \o RepeatSale(<<"i5 file", "repeated">>) \o Returned(first("i5 refund"))
  \o PhotoSale \o SecondSeller(first("i5 second"))

Script == [s \in {"alpha", "v2", "i5"} |->
             CASE s = "alpha" -> Alpha [] s = "v2" -> V2 [] s = "i5" -> I5]

-----------------------------------------------------------------------------
(* What the API makes of a step.                                           *)
Takes(step) ==
  \/ step.do = "publish" /\ M!CreateListing(step.item, TRUE, "no listing")
  \/ step.do \in {"edit", "edit refused"} /\ M!EditContent(step.item, TRUE, TRUE)
  \/ step.do = "buy" /\ M!CreateOrders("buyer", [l \in step.items |-> <<l, step.copy>>])
  \/ step.do = "click" /\ M!Handle(step.who, step.order, step.action)
  \/ step.do = "rule" /\ M!ResolveDispute(step.order, step.outcome)
  \/ step.do = "report" /\ M!Report("buyer", step.item, "source")
  \/ step.do = "pause" /\ M!Pause(step.item, "source")
  \/ step.do = "source_response" /\ M!SourceResponse(Sells[step.item], step.item)
  \/ step.do = "resume" /\ M!Review(step.item, "resume")
  \/ step.do \in {"look", "favorite", "retry", "hidden"} /\ UNCHANGED marketVars

(* The page has the button, or shows what the script waits for.            *)
Offered(step) ==
  \/ step.do \in {"publish", "edit refused"}
  \/ step.do = "edit" /\ "edit" \in M!MyOffer(Sells[step.item], step.item)
  \/ step.do = "look" /\ step.items \subseteq M!Search
  \/ step.do = "favorite" /\ M!resolveFavorites({step.item}) = {step.item}
  \/ step.do = "buy" /\ IF Cardinality(step.items) = 1
                        THEN \A l \in step.items : "buy" \in M!ListingOffer("buyer", l)
                        ELSE /\ \A l \in step.items : "cart" \in M!ListingOffer("buyer", l)
                             /\ M!CartReady(step.items)
  \/ step.do = "click" /\ step.action \in M!orderActions(step.who, step.order)
  \/ step.do = "retry" /\ order[step.order].status = step.then
  \/ step.do = "hidden" /\ ~M!participantOrder(step.who, step.order)
  \/ step.do = "rule" /\ step.order \in M!Disputes
                      /\ step.outcome \in M!RulingsOffered(M!DisputeOf(step.order))
  \/ step.do = "report" /\ "report" \in M!ListingOffer("buyer", step.item)
  \/ step.do \in {"pause", "resume"} /\ step.do \in M!ReviewOffer(step.item)
  \/ step.do = "source_response" /\ "source-response" \in M!MyOffer(Sells[step.item], step.item)

(* What the script reads once the step is done.                            *)
ReservedFor(o) ==
  /\ order[o].status = "pending_payment"
  /\ M!HeldBy(o, "reserved")

Saw(step) ==
  /\ step.do \in {"click", "rule", "retry"} => order[step.order].status = step.then
  /\ step.do = "buy" => \A l \in step.items : ReservedFor(<<l, step.copy>>)
  /\ step.do = "report" => listing[step.item].pending
  /\ step.do = "pause" => order[first(step.item)].paused
  /\ step.do = "resume" => ~order[first(step.item)].paused

(* The rows the script reads at its end.                                   *)
Refunded(o) ==
  /\ order[o].status = "refunded" /\ order[o].delivered = 1
  /\ order[o].request = "approved" /\ order[o].settled = {"payment", "refund"}

Facts(s) ==
  CASE s = "alpha" -> Refunded(first("alpha file"))
    [] s = "v2"    -> /\ Refunded(first("v2 target"))
                      /\ order[first("v2 target")].reservation = "refunded"
                      /\ M!HeldBy(first("v2 target"), "refund_hold")
                      /\ listing["v2 cart item"].review = "clear"
    [] s = "i5"    -> order[first("i5 file")].delivered = 2

-----------------------------------------------------------------------------
Step(s) == Script[s][at[s] + 1]
Ended(s) == at[s] = Len(Script[s])

Init ==
  \/ SeededForScripts /\ at = [s \in DOMAIN Script |-> 0]
  \/ \E l \in {"seed item", "seed copy", "seed file"}, status \in orderStateSequence,
        free, partialDelivery \in BOOLEAN :
       /\ free => l = "seed item" /\ status = "pending_payment"
       /\ Seeded(l, free, status, partialDelivery)
       /\ at = [s \in {} |-> 0]

Play(s) ==
  /\ ~Ended(s)
  /\ IF Step(s).do = "edit refused" THEN UNCHANGED marketVars ELSE Takes(Step(s))
  /\ at' = [at EXCEPT ![s] = @ + 1]

(* The seeded order and a second one of its listing, under every handler   *)
(* of orders and reviews.                                                  *)
LiveOn(l) ==
  /\ DOMAIN at = {} /\ listing[l].exists
  /\ \E copy \in Copies :
       LET o == <<l, copy>>
       IN  \/ \E a \in {"buyer", Sells[l]} : M!ParticipantStep(a, o)
           \/ \E outcome \in M!Outcomes : M!ResolveDispute(o, outcome)
           \/ M!Expire(o)
           \/ M!CreateOrders("buyer", [m \in {l} |-> o])
           \/ M!Report("buyer", l, "source") \/ M!SourceResponse(Sells[l], l) \/ M!AdminStep(l)
  /\ UNCHANGED at

Next ==
  \/ \E s \in DOMAIN at : Play(s)
  \/ \E l \in Stalls : LiveOn(l)

journeyVars == <<marketVars, at>>
Spec == Init /\ [][Next]_journeyVars

-----------------------------------------------------------------------------
(* The scripts stand on firm ground: the rows the seed writes past the     *)
(* handlers are rows the handlers could have written, so stock, money and  *)
(* child rows agree then and ever after (v2-seed.mjs); and each script     *)
(* goes through whatever the others do meanwhile: its next button is there *)
(* and the API takes it, an edit it expects to be refused is refused, and  *)
(* it reads what it asserts.                                               *)
RowsAgree ==
  M!StockLedger /\ M!EscrowMatchesStatus /\ M!ChildRowsAgree /\ M!FrozenUnderReview

(* check-v2-journey.mjs: a shelf that is not free says so on its page, and *)
(* the page does not sell it.                                              *)
StatusOf == [availability \in {"refund_hold", "reserved", "sold"} |->
               IF availability = "sold" THEN "sold" ELSE "locked"]

ShelvesShown ==
  \A l \in Stalls :
    listing[l].exists /\ inventory[l].availability \in DOMAIN StatusOf =>
      /\ M!itemStatus(M!ViewOf(l)) = StatusOf[inventory[l].availability]
      /\ "buy" \notin M!ListingOffer("buyer", l)

GoesOn(s) ==
  IF Ended(s) THEN Facts(s)
  ELSE Offered(Step(s)) /\ (ENABLED Takes(Step(s)) <=> Step(s).do # "edit refused")

JourneysStand ==
  /\ RowsAgree /\ ShelvesShown
  /\ \A s \in DOMAIN at : GoesOn(s) /\ (at[s] > 0 => Saw(Script[s][at[s]]))
=============================================================================
