----------------------------- MODULE DeskProofs -----------------------------
(***************************************************************************)
(* Theorems about what an order leaves behind and what is seen of it: the  *)
(* balances and ratings, the page of one order, a listing on its way from  *)
(* the form to an order, and the workloads that write orders.              *)
(***************************************************************************)
EXTENDS MarketProofs, MCOrderDesk, MCScripts, FiniteSetTheorems

-----------------------------------------------------------------------------
(***************************************************************************)
(* The books close (BooksClose). The balances are sums over the settlement *)
(* records, which agree with the statuses (EscrowMatchesStatus): what was  *)
(* paid is what is spent and what was refunded, and no order is in both.   *)
(* A rating stands because the order it is for stays completed.            *)
(***************************************************************************)
Refunded(a) == {o \in Charged({"refunded"}) : Buyer(o) = a}

RatedDone ==
  /\ rating \in [Order -> Rating \cup {Unrated}]
  /\ \A o \in Order : rating[o] # Unrated => order[o].status = "completed"

(* The release records of a seller are what it earned, the refunds of a    *)
(* buyer its refunded orders, and its payments those and what it spent.    *)
LEMMA RecordsSplit ==
  ASSUME TypeOK, EscrowMatchesStatus, NEW a \in Account
  PROVE  /\ {o \in Recorded("release") : Merchant(o) = a} = Earned(a)
         /\ {o \in Recorded("refund") : Buyer(o) = a} = Refunded(a)
         /\ {o \in Recorded("payment") : Buyer(o) = a} = Spent(a) \cup Refunded(a)
         /\ Spent(a) \cap Refunded(a) = {}
<1>1. ASSUME NEW o \in Order
      PROVE  /\ "release" \in order[o].settled <=> o \in Charged({"completed"})
             /\ "refund" \in order[o].settled <=> o \in Charged({"refunded"})
             /\ "payment" \in order[o].settled <=>
                  o \in Charged({"completed", "refunded"}
                                  \cup (OpenStatuses \ {"pending_payment"}))
  <2>1. order[o].settled = IF order[o].free THEN {} ELSE Owed(order[o].status)
    BY DEF EscrowMatchesStatus
  <2>2. order[o].status \in Statuses
    BY DEF TypeOK, OrderRow
  <2> QED
    BY <2>1, <2>2 DEF Owed, Charged, Statuses, OpenStatuses, ClosedStatuses
<1> QED
  BY <1>1 DEF Recorded, Earned, Spent, Refunded, Charged, OpenStatuses

LEMMA BalanceAdds ==
  ASSUME TypeOK, EscrowMatchesStatus, NEW a \in Account
  PROVE  Balance(a) = Cardinality(Earned(a)) - Cardinality(Spent(a))
<1> DEFINE paid == Spent(a) \cup Refunded(a)
<1>1. /\ Balance(a) = Cardinality(Earned(a)) + Cardinality(Refunded(a)) - Cardinality(paid)
      /\ Spent(a) \cap Refunded(a) = {}
  BY RecordsSplit DEF Balance
<1>2. IsFiniteSet(Earned(a)) /\ IsFiniteSet(Spent(a)) /\ IsFiniteSet(Refunded(a))
  <2>1. Earned(a) \subseteq Order /\ Spent(a) \subseteq Order /\ Refunded(a) \subseteq Order
    BY DEF Earned, Spent, Refunded, Charged
  <2> QED
    BY <2>1, OrdersFinite, FS_Subset
<1>3. /\ Cardinality(Earned(a)) \in Nat /\ Cardinality(Spent(a)) \in Nat
      /\ Cardinality(Refunded(a)) \in Nat
  BY <1>2, FS_CardinalityType
<1>4. Cardinality(paid) = Cardinality(Spent(a)) + Cardinality(Refunded(a))
  <2>1. Cardinality(Spent(a) \cap Refunded(a)) = 0
    BY <1>1, FS_EmptySet
  <2>2. Cardinality(paid) = Cardinality(Spent(a)) + Cardinality(Refunded(a))
                              - Cardinality(Spent(a) \cap Refunded(a))
    BY <1>2, FS_Union
  <2> QED
    BY <1>3, <2>1, <2>2
<1> QED
  BY <1>1, <1>3, <1>4

LEMMA InitDesk == DeskInit => RatedDone
BY DEF DeskInit, RatedDone

(* A completed order is final, so that no command undoes what was rated.   *)
LEMMA NextDesk ==
  ASSUME RatedDone, [Desk(Next)]_deskVars,
         \A o \in Order : order[o].status \in ClosedStatuses => order'[o] = order[o]
  PROVE  RatedDone'
<1>1. CASE UNCHANGED rating
  BY <1>1 DEF RatedDone, ClosedStatuses
<1>2. ASSUME NEW a \in Account, NEW o \in Order, NEW stars \in Rating,
             RateSeller(a, o, stars)
      PROVE  RatedDone'
  BY <1>2 DEF RateSeller, RatedDone, vars
<1> QED
  BY <1>1, <1>2 DEF Desk, deskVars

(* An account is up by the orders completed for it and down by those it    *)
(* has paid and not got back, and what a seller was rated for has been     *)
(* released to it (balance.controller.ts, seller-review.controller.ts).    *)
THEOREM BooksHold == DeskSpec => []BooksClose
<1>1. DeskInit => Init
  BY DEF DeskInit
<1>2. [Desk(Next)]_deskVars => [Next]_vars
  BY DEF Desk, RateSeller, deskVars
<1>3. DeskSpec => Spec
  BY <1>1, <1>2, PTL DEF DeskSpec, Spec
<1>4. TypeOK /\ EscrowMatchesStatus /\ RatedDone => BooksClose
  <2>1. ASSUME EscrowMatchesStatus, RatedDone, NEW o \in Order, rating[o] # Unrated
        PROVE  order[o].free \/ order[o].settled = {"payment", "release"}
    BY <2>1 DEF EscrowMatchesStatus, RatedDone, Owed
  <2> QED
    BY <2>1, BalanceAdds DEF BooksClose
<1>5. TypeOK /\ RatedDone /\ [Desk(Next)]_deskVars
        /\ [\A o \in Order : order[o].status \in ClosedStatuses => order'[o] = order[o]]_vars
      => RatedDone'
  <2>1. ASSUME UNCHANGED vars
        PROVE  \A o \in Order : order'[o] = order[o]
    BY <2>1 DEF vars
  <2> QED
    BY <2>1, NextDesk
<1> QED
  BY <1>3, <1>4, <1>5, InitDesk, TypeCorrect, EscrowHolds, ClosedIsFinal, PTL
     DEF DeskSpec, TerminalIsFinal

-----------------------------------------------------------------------------
(***************************************************************************)
(* The page of one order. Each of the records below it is either due to be *)
(* read again, or under way or read since the status on show was written.  *)
(* Nothing that is read goes back: a status that was answered is no newer  *)
(* than the row, whenever the answer is taken.                             *)
(***************************************************************************)
Answered == V!Commit \cup {Unread, Failed}

RequestRow ==
  [inFlight : BOOLEAN, queued : BOOLEAN, scheduled : BOOLEAN, answer : Answered]

ViewType ==
  /\ rows \in [status : Nat, last : Nat] /\ rows.status <= rows.last
  /\ rows.last <= MaxSteps
  /\ request \in [V!Resource -> RequestRow]
  /\ result \in [V!Resource -> Answered]
  /\ previous \in V!Commit \cup {Unread} /\ changed \in BOOLEAN

(* What the page knows of the status.                                      *)
Known ==
  /\ previous \in V!Commit => previous <= rows.status
  /\ request["order"].answer \in V!Commit => request["order"].answer <= rows.status
  /\ result["order"] \in V!Commit => result["order"] = previous
  /\ changed => previous # Unread

(* A request under way has no other due; what is queued waits for one.     *)
OneRequest ==
  \A r \in V!Resource :
    /\ request[r].inFlight => ~request[r].scheduled
    /\ request[r].queued => request[r].inFlight

Follows(r) ==
  \/ request[r].scheduled \/ request[r].queued
  \/ request[r].inFlight /\ (request[r].answer \in V!Commit => request[r].answer >= previous)
  \/ ~request[r].inFlight /\ (result[r] \in V!Commit => result[r] >= previous)

ViewInv ==
  /\ ViewType /\ Known /\ OneRequest
  /\ changed => \A r \in V!Records : Follows(r)

LEMMA NotCommits == Unread \notin V!Commit /\ Failed \notin V!Commit /\ Unread # Failed
BY NamesApart DEF V!Commit

LEMMA FreshRow ==
  /\ V!Fresh \in RequestRow
  /\ V!Fresh.inFlight /\ ~V!Fresh.scheduled /\ ~V!Fresh.queued /\ V!Fresh.answer = Unread
BY DEF V!Fresh, RequestRow, Answered

LEMMA InitView == V!Init => ViewInv
<1> SUFFICES ASSUME V!Init PROVE ViewInv
  OBVIOUS
<1>1. ViewType
  <2>1. rows = [status |-> 0, last |-> 0] /\ rows.status = 0 /\ rows.last = 0
    BY DEF V!Init
  <2>2. request \in [V!Resource -> RequestRow] /\ result \in [V!Resource -> Answered]
    BY FreshRow DEF V!Init, Answered
  <2>3. rows \in [status : Nat, last : Nat] /\ rows.status <= rows.last
    BY <2>1
  <2>4. rows.last <= MaxSteps
    BY <2>1, NamesApart
  <2>5. previous = Unread /\ changed = FALSE
    BY DEF V!Init
  <2> QED
    BY <2>2, <2>3, <2>4, <2>5 DEF ViewType
<1>2. Known
  BY NotCommits, FreshRow DEF V!Init, Known, V!Resource
<1>3. OneRequest
  BY FreshRow DEF V!Init, OneRequest
<1> QED
  BY <1>1, <1>2, <1>3 DEF V!Init, ViewInv

(* The row moves on, and nothing that was read is newer.                   *)
LEMMA RowsMove ==
  ASSUME ViewInv, V!Advance \/ V!Record, rows.last < MaxSteps,
         UNCHANGED <<request, result, previous, changed>>
  PROVE  ViewInv'
<1>1. /\ rows' \in [status : Nat, last : Nat] /\ rows'.status <= rows'.last
      /\ rows'.last <= MaxSteps /\ rows'.status >= rows.status
  BY NamesApart DEF V!Advance, V!Record, ViewInv, ViewType
<1>2. ViewType'
  BY <1>1 DEF ViewInv, ViewType
<1>3. Known'
  BY <1>1, NamesApart DEF ViewInv, ViewType, Known, V!Commit
<1> QED
  BY <1>2, <1>3 DEF ViewInv, OneRequest, Follows

(* One request changes, or several are asked to be made again.             *)
LEMMA RequestMoves ==
  ASSUME ViewInv, UNCHANGED <<rows, result, previous, changed>>,
         request' \in [V!Resource -> RequestRow], OneRequest',
         request'["order"].answer \in V!Commit => request'["order"].answer <= rows.status,
         changed => \A r \in V!Records : Follows(r)'
  PROVE  ViewInv'
<1>1. ViewType'
  BY DEF ViewInv, ViewType
<1>2. Known'
  BY DEF ViewInv, Known
<1> QED
  BY <1>1, <1>2 DEF ViewInv

(* A reload leaves what is under way alone.                                *)
LEMMA ReloadedRows ==
  ASSUME NEW which, NEW q \in [V!Resource -> RequestRow],
         \A r \in V!Resource : /\ q[r].inFlight => ~q[r].scheduled
                               /\ q[r].queued => q[r].inFlight
  PROVE  LET n == V!Reloaded(which, q)
         IN  /\ n \in [V!Resource -> RequestRow]
             /\ \A r \in V!Resource :
                  /\ n[r].answer = q[r].answer /\ n[r].inFlight = q[r].inFlight
                  /\ n[r].inFlight => ~n[r].scheduled
                  /\ n[r].queued => n[r].inFlight
                  /\ q[r].scheduled => n[r].scheduled
                  /\ q[r].queued => n[r].queued
                  /\ r \in which => n[r].scheduled \/ n[r].queued
                  /\ n[r].scheduled \/ n[r].queued \/ n[r] = q[r]
<1> DEFINE n == V!Reloaded(which, q)
<1>1. ASSUME NEW r \in V!Resource
      PROVE  /\ n[r] \in RequestRow
             /\ n[r].answer = q[r].answer /\ n[r].inFlight = q[r].inFlight
             /\ n[r].inFlight => ~n[r].scheduled
             /\ n[r].queued => n[r].inFlight
             /\ q[r].scheduled => n[r].scheduled
             /\ q[r].queued => n[r].queued
             /\ r \in which => n[r].scheduled \/ n[r].queued
             /\ n[r].scheduled \/ n[r].queued \/ n[r] = q[r]
  <2>1. n[r] = IF r \notin which \/ q[r].scheduled THEN q[r]
               ELSE IF q[r].inFlight THEN [q[r] EXCEPT !.queued = TRUE]
                                     ELSE [q[r] EXCEPT !.scheduled = TRUE]
    BY DEF V!Reloaded
  <2>2. q[r] \in RequestRow
    OBVIOUS
  <2> QED
    BY <2>1, <2>2 DEF RequestRow
<1>2. n = [r \in V!Resource |-> n[r]]
  BY DEF V!Reloaded
<1> HIDE DEF n
<1>3. n \in [V!Resource -> RequestRow]
  BY <1>1, <1>2
<1> QED
  BY <1>1, <1>3 DEF n

LEMMA ReloadStep ==
  ASSUME ViewInv, NEW which, request' = V!Reloaded(which, request),
         UNCHANGED <<rows, result, previous, changed>>
  PROVE  ViewInv'
<1>1. /\ request \in [V!Resource -> RequestRow]
      /\ \A r \in V!Resource : /\ request[r].inFlight => ~request[r].scheduled
                               /\ request[r].queued => request[r].inFlight
  BY DEF ViewInv, ViewType, OneRequest
<1>2. request' \in [V!Resource -> RequestRow] /\ OneRequest'
  BY <1>1, ReloadedRows DEF OneRequest
<1>3. request'["order"].answer \in V!Commit => request'["order"].answer <= rows.status
  BY <1>1, ReloadedRows DEF ViewInv, Known, V!Resource
<1>4. ASSUME changed, NEW r \in V!Records PROVE Follows(r)'
  <2>1. Follows(r) /\ r \in V!Resource
    BY <1>4 DEF ViewInv, V!Resource
  <2>2. \/ request'[r].scheduled \/ request'[r].queued
        \/ request'[r] = request[r]
    BY <1>1, <2>1, ReloadedRows
  <2> QED
    BY <2>1, <2>2 DEF Follows
<1> QED
  BY <1>2, <1>3, <1>4, RequestMoves

(* One request is answered, or begun.                                      *)
LEMMA RowMoves ==
  ASSUME ViewInv, NEW r \in V!Resource, NEW asks \in RequestRow,
         request' = [request EXCEPT ![r] = asks],
         UNCHANGED <<rows, result, previous, changed>>,
         asks.inFlight /\ ~asks.scheduled,
         r = "order" /\ asks.answer \in V!Commit => asks.answer <= rows.status,
         asks.answer \in V!Commit /\ changed /\ r # "order" => asks.answer >= previous
  PROVE  ViewInv'
<1>1. \A q \in V!Resource : request'[q] = IF q = r THEN asks ELSE request[q]
  BY DEF ViewInv, ViewType
<1>2. request' \in [V!Resource -> RequestRow] /\ OneRequest'
  BY <1>1 DEF ViewInv, ViewType, OneRequest
<1>3. request'["order"].answer \in V!Commit => request'["order"].answer <= rows.status
  BY <1>1 DEF ViewInv, Known, V!Resource
<1>4. ASSUME changed, NEW q \in V!Records PROVE Follows(q)'
  BY <1>1, <1>4 DEF ViewInv, V!Resource, V!Records, Follows
<1> QED
  BY <1>2, <1>3, <1>4, RequestMoves

LEMMA AnswerStep ==
  ASSUME ViewInv, NEW r \in V!Resource, V!Answer(r)
  PROVE  ViewInv'
<1>1. /\ request \in [V!Resource -> RequestRow] /\ request[r] \in RequestRow
      /\ request[r].inFlight /\ ~request[r].scheduled
  BY DEF V!Answer, ViewInv, ViewType, OneRequest
<1>2. PICK a \in {V!Read(r), Failed} : request' = [request EXCEPT ![r].answer = a]
  BY DEF V!Answer
<1>3. PICK asks : asks = [request[r] EXCEPT !.answer = a] /\ request' = [request EXCEPT ![r] = asks]
  BY <1>1, <1>2
<1>4. /\ a \in Answered
      /\ r = "order" /\ a \in V!Commit => a <= rows.status
      /\ a \in V!Commit /\ changed /\ r # "order" => a >= previous
  <2>1. /\ rows.status \in V!Commit /\ rows.last \in V!Commit
        /\ changed => previous \in V!Commit /\ previous <= rows.status
    BY NamesApart DEF ViewInv, ViewType, Known, V!Commit
  <2>2. rows.status <= rows.last /\ rows.status \in Nat /\ rows.last \in Nat
    BY DEF ViewInv, ViewType
  <2>3. a = Failed \/ a = IF r = "order" THEN rows.status ELSE rows.last
    BY DEF V!Read
  <2> QED
    BY <2>1, <2>2, <2>3, NotCommits DEF Answered, V!Commit
<1>5. asks \in RequestRow /\ asks.answer = a /\ asks.inFlight /\ ~asks.scheduled
  BY <1>1, <1>3, <1>4 DEF RequestRow
<1> QED
  BY <1>3, <1>4, <1>5, RowMoves DEF V!Answer

LEMMA BeginStep ==
  ASSUME ViewInv, NEW r \in V!Resource, V!Begin(r)
  PROVE  ViewInv'
BY FreshRow, NotCommits, RowMoves DEF V!Begin

(* The request is over, and what was queued is due.                        *)
LEMMA FinishedRows ==
  ASSUME ViewInv, NEW r \in V!Resource
  PROVE  /\ V!Finished(r) \in [V!Resource -> RequestRow]
         /\ ~V!Finished(r)[r].inFlight /\ ~V!Finished(r)[r].queued
         /\ V!Finished(r)[r].scheduled = request[r].queued
         /\ V!Finished(r)[r].answer = request[r].answer
         /\ \A q \in V!Resource \ {r} : V!Finished(r)[q] = request[q]
<1>1. PICK asks : asks = [request[r] EXCEPT !.inFlight = FALSE, !.queued = FALSE,
                                            !.scheduled = request[r].queued]
  OBVIOUS
<1>2. request \in [V!Resource -> RequestRow] /\ request[r] \in RequestRow
  BY DEF ViewInv, ViewType
<1>3. /\ asks \in RequestRow /\ ~asks.inFlight /\ ~asks.queued
      /\ asks.scheduled = request[r].queued /\ asks.answer = request[r].answer
  BY <1>1, <1>2 DEF RequestRow
<1>4. V!Finished(r) = [request EXCEPT ![r] = asks]
  BY <1>1, <1>2 DEF V!Finished
<1> QED
  BY <1>2, <1>3, <1>4

LEMMA RecordsStep ==
  ASSUME ViewInv, NEW r \in V!Records, V!TakeRecords(r)
  PROVE  ViewInv'
<1>0. r \in V!Resource /\ r # "order" /\ "order" \in V!Resource
  BY DEF V!Records, V!Resource
<1>1. /\ request' = V!Finished(r) /\ result' = [result EXCEPT ![r] = request[r].answer]
      /\ request[r].inFlight /\ ~request[r].scheduled
      /\ UNCHANGED <<rows, previous, changed>>
  BY <1>0 DEF V!TakeRecords, V!Take, ViewInv, OneRequest
<1>2. request[r].answer \in Answered
  BY <1>0 DEF ViewInv, ViewType, RequestRow
<1>3. \A q \in V!Resource : result'[q] = IF q = r THEN request[r].answer ELSE result[q]
  BY <1>1 DEF ViewInv, ViewType
<1>4. ViewType'
  BY <1>0, <1>1, <1>2, FinishedRows DEF ViewInv, ViewType
<1>5. Known'
  BY <1>0, <1>1, <1>3, FinishedRows DEF ViewInv, Known
<1>6. OneRequest'
  BY <1>0, <1>1, FinishedRows DEF ViewInv, OneRequest
<1>7. ASSUME changed, NEW q \in V!Records PROVE Follows(q)'
  <2>1. q \in V!Resource /\ Follows(q)
    BY <1>7 DEF ViewInv, V!Resource
  <2>2. CASE q = r
    BY <1>0, <1>1, <1>3, <2>1, <2>2, FinishedRows DEF Follows
  <2>3. CASE q # r
    BY <1>0, <1>1, <1>3, <2>1, <2>3, FinishedRows DEF Follows
  <2> QED
    BY <2>2, <2>3
<1> QED
  BY <1>1, <1>4, <1>5, <1>6, <1>7 DEF ViewInv

(* The status is taken; if it has moved, the records are due.              *)
LEMMA OrderStep == ASSUME ViewInv, V!TakeOrder PROVE ViewInv'
<1> DEFINE status == request["order"].answer
           done == V!Finished("order")
<1>0. "order" \in V!Resource /\ "order" \notin V!Records
  BY DEF V!Resource, V!Records
<1>1. /\ request["order"].inFlight /\ status # Unread /\ status \in Answered
      /\ result' = [result EXCEPT !["order"] = status] /\ UNCHANGED rows
  BY <1>0 DEF V!TakeOrder, V!Take, ViewInv, ViewType, RequestRow
<1>2. \A q \in V!Resource : result'[q] = IF q = "order" THEN status ELSE result[q]
  BY <1>1 DEF ViewInv, ViewType
<1>3. /\ done \in [V!Resource -> RequestRow]
      /\ \A r \in V!Resource : /\ done[r].inFlight => ~done[r].scheduled
                               /\ done[r].queued => done[r].inFlight
      /\ done["order"].answer = status
      /\ \A r \in V!Records : r \in V!Resource /\ done[r] = request[r] /\ result'[r] = result[r]
  BY <1>0, <1>2, FinishedRows DEF ViewInv, OneRequest, V!Records, V!Resource
<1>4. result' \in [V!Resource -> Answered]
  BY <1>1 DEF ViewInv, ViewType
<1> HIDE DEF done
<1>5. CASE status = Failed
  <2>1. request' = done /\ UNCHANGED <<previous, changed>>
    BY <1>5 DEF V!TakeOrder, done
  <2>2. ViewType' /\ OneRequest'
    BY <1>1, <1>3, <1>4, <2>1 DEF ViewInv, ViewType, OneRequest
  <2>3. Known'
    BY <1>0, <1>1, <1>2, <1>3, <1>5, <2>1, NotCommits DEF ViewInv, Known
  <2>4. ASSUME changed, NEW r \in V!Records PROVE Follows(r)'
    BY <1>3, <2>1, <2>4 DEF ViewInv, Follows
  <2> QED
    BY <2>1, <2>2, <2>3, <2>4 DEF ViewInv
<1>6. CASE status # Failed
  <2>1. status \in V!Commit /\ status <= rows.status
    BY <1>1, <1>6 DEF Answered, ViewInv, Known
  <2>2. PICK moved \in BOOLEAN :
          /\ moved = (previous # Unread /\ status # previous)
          /\ previous' = status /\ changed' = (changed \/ moved)
          /\ request' = V!Reloaded(IF moved THEN V!Records ELSE {}, done)
    BY <1>6 DEF V!TakeOrder, done
  <2>3. PICK which : /\ which = IF moved THEN V!Records ELSE {}
                     /\ request' = V!Reloaded(which, done)
    BY <2>2
  <2>4. request' \in [V!Resource -> RequestRow] /\ OneRequest'
        /\ request'["order"].answer = status
    BY <1>0, <1>3, <2>3, ReloadedRows DEF OneRequest
  <2>5. ViewType'
    BY <1>1, <1>4, <2>1, <2>2, <2>4 DEF ViewInv, ViewType
  <2>6. Known'
    BY <1>0, <1>1, <1>2, <2>1, <2>2, <2>4, NotCommits DEF ViewInv, Known
  <2>7. ASSUME changed', NEW r \in V!Records PROVE Follows(r)'
    <3>1. CASE moved
      BY <1>3, <2>2, <2>3, <3>1, ReloadedRows DEF Follows
    <3>2. CASE ~moved
      <4>1. changed /\ previous = status
        BY <2>2, <2>7, <3>2 DEF ViewInv, Known
      <4>2. Follows(r) /\ done[r] = request[r] /\ result'[r] = result[r]
        BY <1>3, <4>1 DEF ViewInv
      <4>3. \/ request'[r].scheduled \/ request'[r].queued
            \/ request'[r] = request[r]
        BY <1>3, <2>3, <4>2, ReloadedRows
      <4> QED
        BY <2>2, <4>1, <4>2, <4>3 DEF Follows
    <3> QED
      BY <3>1, <3>2
  <2> QED
    BY <2>4, <2>5, <2>6, <2>7 DEF ViewInv
<1> QED
  BY <1>5, <1>6

LEMMA NextView == ASSUME ViewInv, [V!Next]_(V!vars) PROVE ViewInv'
<1>1. CASE UNCHANGED <<rows, request, result, previous, changed>>
  BY <1>1 DEF ViewInv, ViewType, Known, OneRequest, Follows
<1>2. CASE V!Elsewhere \/ V!CarriedOut
  BY <1>2, RowsMove DEF V!Elsewhere, V!CarriedOut
<1>3. CASE V!Poll \/ V!CommandAnswered
  BY <1>3, ReloadStep DEF V!Poll, V!CommandAnswered
<1>4. CASE V!Send \/ V!Refused \/ UNCHANGED V!vars
  BY <1>1, <1>4 DEF V!Send, V!Refused, V!vars
<1> QED
  BY <1>2, <1>3, <1>4, AnswerStep, BeginStep, RecordsStep, OrderStep
     DEF V!Next

(* Once the page has seen the status change, the records it settles on are *)
(* no older than the status they stand under (page.tsx effect on the       *)
(* status, useApiResource reload).                                         *)
THEOREM HistoryFollowsHolds == V!Spec => []HistoryFollows
<1>1. ViewInv /\ [V!Next]_(V!vars) => ViewInv'
  BY NextView
<1>2. ViewInv => HistoryFollows
  <2>1. ASSUME ViewInv, changed, result["order"] \in V!Commit, NEW r \in V!Records,
               V!Settled(r), result[r] \in V!Commit
        PROVE  result[r] >= result["order"]
    <3>1. r \in V!Resource /\ Follows(r) /\ result["order"] = previous
      BY <2>1 DEF ViewInv, Known, V!Resource
    <3> QED
      BY <2>1, <3>1 DEF ViewInv, OneRequest, Follows, V!Settled
  <2> QED
    BY <2>1 DEF HistoryFollows, V!HistoryFollows
<1> QED
  BY <1>1, <1>2, InitView, PTL DEF V!Spec

-----------------------------------------------------------------------------
(***************************************************************************)
(* From the form to an order. A form is of one type in all that hangs on   *)
(* the type, whatever was switched; what was stored parses, and opens as a *)
(* draft of its type. A version of a listing has one content, and versions *)
(* only go up, so that a sight of the present version is of the present    *)
(* content.                                                                *)
(***************************************************************************)
(* A commitment of the type, with at most one of the two boxes ticked.     *)
Fits(type, c) ==
  /\ c \in F!ProductCommitment
  /\ F!IsDigital(c) <=> type = "digital"
  /\ F!IsDigital(c) => ~(c.noOtherRestrictions /\ c.exclusions)

FormFits ==
  form # None =>
    /\ form \in F!Form
    /\ Fits(form.type, form.commitment)
    /\ form.for = "new" =>
         form.category = form.type /\ (form.type = "physical" => form.saleMode = "one_off")

(* What is stored is what parseCommitment keeps.                           *)
Stored(type, c) ==
  F!commitmentReady(c) /\ F!Parses(type, c) /\ F!Parsed(c) = c /\ Fits(type, c)

RowFits(l) == l \in Sold /\ (l.commitment # None => Stored(l.type, l.commitment))

RowsFit ==
  /\ row # None => RowFits(row)
  /\ listed # None => RowFits(listed) /\ row # None

(* A sight is of a version that was, and of its content.                   *)
True(sight) ==
  /\ row # None /\ sight.version \in Nat /\ sight.version <= row.version
  /\ sight.version = row.version => sight.content = row.content

SightsTrue == (shown # None => True(shown)) /\ (asked # None => True(asked))

PublishingInv == FormFits /\ RowsFit /\ SightsTrue /\ BoughtAsShown

LEMMA DigitalHasMode ==
  /\ \A c \in F!DigitalCommitment : F!IsDigital(c)
  /\ \A c \in F!PhysicalCommitment : ~F!IsDigital(c)
BY DEF F!DigitalCommitment, F!PhysicalCommitment, F!IsDigital

LEMMA InitialFits == ASSUME NEW type \in F!Type PROVE Fits(type, F!Initial(type))
<1>1. CASE type = "physical"
  <2>1. F!Initial(type) \in F!PhysicalCommitment
    BY <1>1 DEF F!Initial, F!initialPhysicalCommitment, F!PhysicalCommitment, F!Answer
  <2> QED
    BY <1>1, <2>1, DigitalHasMode DEF Fits, F!ProductCommitment
<1>2. CASE type = "digital"
  <2>1. F!Initial(type) = F!initialDigitalCommitment
    BY <1>2 DEF F!Initial
  <2>2. F!initialDigitalCommitment \in F!DigitalCommitment
        /\ ~F!initialDigitalCommitment.exclusions
    BY DEF F!initialDigitalCommitment, F!DigitalCommitment, F!Answer, F!Held, F!Flag
  <2> QED
    BY <1>2, <2>1, <2>2, DigitalHasMode DEF Fits, F!ProductCommitment
<1> QED
  BY <1>1, <1>2 DEF F!Type

(* Whatever is filled in, the commitment stays of its type.                *)
LEMMA RefilledFits ==
  ASSUME NEW type, NEW c, Fits(type, c), NEW d \in F!Refilled(c)
  PROVE  Fits(type, d)
<1>1. CASE ~F!IsDigital(c)
  <2>1. c \in F!PhysicalCommitment
    BY <1>1, DigitalHasMode DEF Fits, F!ProductCommitment
  <2>2. PICK a \in F!Answer : d = [c EXCEPT !.common = a]
    BY <1>1 DEF F!Refilled
  <2>3. d \in F!PhysicalCommitment
    BY <2>1, <2>2 DEF F!PhysicalCommitment
  <2> QED
    BY <1>1, <2>3, DigitalHasMode DEF Fits, F!ProductCommitment
<1>2. CASE F!IsDigital(c)
  <2>1. /\ c \in F!DigitalCommitment /\ type = "digital"
        /\ ~(c.noOtherRestrictions /\ c.exclusions)
    BY <1>2, DigitalHasMode DEF Fits, F!ProductCommitment
  <2>2. F!Opened(c.access) \in F!Held
    BY <2>1 DEF F!Opened, F!Held, F!Answer, F!DigitalCommitment
  <2>3. ASSUME d \in F!DigitalCommitment, ~(d.noOtherRestrictions /\ d.exclusions)
        PROVE  Fits(type, d)
    BY <2>1, <2>3, DigitalHasMode DEF Fits, F!ProductCommitment
  <2>4. ASSUME NEW a \in F!Answer,
               \/ d = [c EXCEPT !.common = a] \/ d = [c EXCEPT !.file = a]
               \/ d = [c EXCEPT !.access = a]
        PROVE  Fits(type, d)
    BY <2>1, <2>3, <2>4 DEF F!DigitalCommitment, F!Held
  <2>5. ASSUME NEW m \in {"file", "access"}, d = [c EXCEPT !.mode = m, !.access = F!Opened(@)]
        PROVE  Fits(type, d)
    BY <2>1, <2>2, <2>3, <2>5 DEF F!DigitalCommitment
  <2>6. ASSUME NEW b \in BOOLEAN,
               \/ d = [c EXCEPT !.noOtherRestrictions = b, !.exclusions = FALSE]
               \/ d = [c EXCEPT !.exclusions = b] /\ ~c.noOtherRestrictions
        PROVE  Fits(type, d)
    BY <2>1, <2>3, <2>6 DEF F!DigitalCommitment
  <2>7. ASSUME NEW g \in F!Flag, d = [c EXCEPT !.flags = @ \cup {g}] PROVE Fits(type, d)
    BY <2>1, <2>3, <2>7 DEF F!DigitalCommitment
  <2> QED
    BY <1>2, <2>4, <2>5, <2>6, <2>7 DEF F!Refilled
<1> QED
  BY <1>1, <1>2

(* What is parsed and stored parses again, as it is.                       *)
LEMMA ParsedStored ==
  ASSUME NEW type, NEW c, Fits(type, c), F!Parses(type, c)
  PROVE  Stored(type, F!Parsed(c))
<1>1. CASE ~F!IsDigital(c)
  BY <1>1 DEF F!Parsed, F!Parses, F!commitmentReady, Stored
<1>2. CASE F!IsDigital(c)
  <2>1. /\ c \in F!DigitalCommitment /\ type = "digital"
        /\ c.noOtherRestrictions # c.exclusions
        /\ c.mode = "file" => c.flags = F!Flag
        /\ F!Asked(c) = {"given"}
    BY <1>2, DigitalHasMode DEF Fits, F!ProductCommitment, F!Parses
  <2>2. ASSUME NEW d \in F!DigitalCommitment, d.common = c.common, d.mode = c.mode,
               d.noOtherRestrictions = c.noOtherRestrictions, d.exclusions = c.exclusions,
               d.mode = "file" => d.file = c.file /\ d.flags = c.flags,
               d.mode # "file" => d.access = c.access
        PROVE  /\ F!commitmentReady(d) /\ F!Parses(type, d) /\ Fits(type, d)
    <3>1. F!IsDigital(d)
      BY DigitalHasMode
    <3>2. F!Asked(d) = {"given"}
      BY <1>2, <2>1, <2>2, <3>1 DEF F!Asked
    <3>3. d.noOtherRestrictions \in BOOLEAN /\ d.exclusions \in BOOLEAN
      BY DEF F!DigitalCommitment
    <3> QED
      BY <2>1, <2>2, <3>1, <3>2, <3>3
         DEF F!commitmentReady, F!Parses, Fits, F!ProductCommitment
  <2>3. CASE c.mode = "file"
    <3>1. PICK d : d = [c EXCEPT !.access = "absent"] /\ F!Parsed(c) = d
      BY <1>2, <2>3 DEF F!Parsed
    <3>2. d \in F!DigitalCommitment /\ d.mode = "file" /\ d.access = "absent"
      BY <2>1, <2>3, <3>1 DEF F!DigitalCommitment, F!Held
    <3>3. F!Parsed(d) = d
      <4>1. F!Parsed(d) = [d EXCEPT !.access = "absent"]
        BY <3>2, DigitalHasMode DEF F!Parsed
      <4> QED
        BY <3>2, <4>1 DEF F!DigitalCommitment
    <3>4. F!commitmentReady(d) /\ F!Parses(type, d) /\ Fits(type, d)
      BY <2>1, <2>2, <2>3, <3>1, <3>2 DEF F!DigitalCommitment
    <3> QED
      BY <3>1, <3>3, <3>4 DEF Stored
  <2>4. CASE c.mode # "file"
    <3>1. PICK d : d = [c EXCEPT !.file = "absent", !.flags = {}] /\ F!Parsed(c) = d
      BY <1>2, <2>4 DEF F!Parsed
    <3>2. d \in F!DigitalCommitment /\ d.mode # "file" /\ d.file = "absent" /\ d.flags = {}
      BY <2>1, <2>4, <3>1 DEF F!DigitalCommitment, F!Held
    <3>3. F!Parsed(d) = d
      <4>1. F!Parsed(d) = [[d EXCEPT !.file = "absent"] EXCEPT !.flags = {}]
        BY <3>2, DigitalHasMode DEF F!Parsed, F!DigitalCommitment
      <4>2. [d EXCEPT !.file = "absent"] = d
        BY <3>2 DEF F!DigitalCommitment
      <4>3. [d EXCEPT !.flags = {}] = d
        BY <3>2 DEF F!DigitalCommitment
      <4> QED
        BY <4>1, <4>2, <4>3
    <3>4. F!commitmentReady(d) /\ F!Parses(type, d) /\ Fits(type, d)
      BY <2>1, <2>2, <2>4, <3>1, <3>2 DEF F!DigitalCommitment
    <3> QED
      BY <3>1, <3>3, <3>4 DEF Stored
  <2> QED
    BY <2>3, <2>4
<1> QED
  BY <1>1, <1>2

-----------------------------------------------------------------------------
LEMMA InitPublishing == F!Init => PublishingInv
<1> SUFFICES ASSUME F!Init PROVE PublishingInv
  OBVIOUS
<1>1. form = F!NewForm("physical")
  BY DEF F!Init
<1>2. Fits("physical", F!Initial("physical"))
  BY InitialFits DEF F!Type
<1> QED
  BY <1>1, <1>2
     DEF F!Init, PublishingInv, FormFits, Fits, RowsFit, SightsTrue, BoughtAsShown,
         F!BoughtAsShown, F!NewForm, F!Form, F!Type, F!SaleMode

(* A new form is of one type; so is the editor of what fits its type.      *)
LEMMA NewFits ==
  ASSUME NEW type \in F!Type
  PROVE  /\ F!NewForm(type) \in F!Form
         /\ F!NewForm(type).type = type /\ F!NewForm(type).category = type
         /\ F!NewForm(type).for = "new" /\ F!NewForm(type).commitment = F!Initial(type)
         /\ type = "physical" => F!NewForm(type).saleMode = "one_off"
<1>1. F!Initial(type) \in F!ProductCommitment
  BY InitialFits DEF Fits
<1> QED
  BY <1>1 DEF F!NewForm, F!Form, F!Type, F!SaleMode

(* Only the form changes.                                                  *)
LEMMA FormMoves ==
  ASSUME PublishingInv, UNCHANGED <<row, listed, shown, asked, orders>>, FormFits'
  PROVE  PublishingInv'
BY DEF PublishingInv, RowsFit, RowFits, SightsTrue, True, BoughtAsShown, F!BoughtAsShown

LEMMA FormStep ==
  ASSUME PublishingInv,
         \/ F!OpenNew \/ F!Choose \/ F!Fill \/ F!OpenEdit \/ F!Close
         \/ \E type \in F!Type : F!SwitchTab(type)
  PROVE  PublishingInv'
<1>1. UNCHANGED <<row, listed, shown, asked, orders>>
  BY DEF F!OpenNew, F!Choose, F!Fill, F!OpenEdit, F!Close, F!SwitchTab
<1>2. CASE F!OpenNew
  <2>1. "physical" \in F!Type /\ form' = F!NewForm("physical")
    BY <1>2 DEF F!OpenNew, F!Type
  <2>2. FormFits'
    BY <2>1, NewFits, InitialFits DEF FormFits
  <2> QED
    BY <1>1, <2>2, FormMoves
<1>3. CASE F!Close
  BY <1>1, <1>3, FormMoves DEF F!Close, FormFits
<1>4. ASSUME NEW type \in F!Type, F!SwitchTab(type) PROVE PublishingInv'
  <2>1. form # None /\ form.replacement \in BOOLEAN
    BY <1>4 DEF F!SwitchTab, PublishingInv, FormFits, F!Form
  <2>2. PICK next : next = [F!NewForm(type) EXCEPT !.replacement = form.replacement]
                    /\ form' = next
    BY <1>4 DEF F!SwitchTab, F!Switched
  <2>3. /\ next \in F!Form /\ next.type = type /\ next.category = type
        /\ next.commitment = F!Initial(type)
        /\ type = "physical" => next.saleMode = "one_off"
    BY <2>1, <2>2, NewFits DEF F!Form
  <2>4. FormFits'
    BY <2>2, <2>3, InitialFits DEF FormFits
  <2> QED
    BY <1>1, <2>4, FormMoves
<1>5. ASSUME form # None, NEW next \in F!Form, form' = next, next.type = form.type,
             next.category = form.category, next.for = form.for,
             Fits(form.type, next.commitment),
             form.type = "physical" => next.saleMode = form.saleMode
      PROVE  PublishingInv'
  <2>1. FormFits'
    BY <1>5 DEF PublishingInv, FormFits
  <2> QED
    BY <1>1, <2>1, FormMoves
<1>6. CASE F!Choose
  <2>1. form # None /\ form \in F!Form /\ Fits(form.type, form.commitment)
    BY <1>6 DEF F!Choose, PublishingInv, FormFits
  <2>2. ASSUME NEW mode \in F!SaleMode, form.type = "digital",
               form' = [form EXCEPT !.saleMode = mode]
        PROVE  PublishingInv'
    BY <1>5, <2>1, <2>2 DEF F!Form
  <2>3. ASSUME NEW b \in BOOLEAN, form' = [form EXCEPT !.replacement = b]
        PROVE  PublishingInv'
    BY <1>5, <2>1, <2>3 DEF F!Form
  <2> QED
    BY <1>6, <2>2, <2>3 DEF F!Choose
<1>7. CASE F!Fill
  <2>1. form # None /\ form \in F!Form /\ Fits(form.type, form.commitment)
    BY <1>7 DEF F!Fill, PublishingInv, FormFits
  <2>2. PICK c \in F!Refilled(form.commitment) : form' = [form EXCEPT !.commitment = c]
    BY <1>7 DEF F!Fill
  <2>3. Fits(form.type, c)
    BY <2>1, RefilledFits
  <2> QED
    BY <1>5, <2>1, <2>2, <2>3 DEF F!Form, Fits
<1>8. CASE F!OpenEdit
  <2>1. listed # None /\ RowFits(listed)
    BY <1>8 DEF F!OpenEdit, PublishingInv, RowsFit
  <2>2. listed.type \in F!Type /\ listed.saleMode \in F!SaleMode
    BY <2>1 DEF RowFits, Sold
  <2>3. Fits(listed.type, F!Draft(listed))
    BY <2>1, <2>2, InitialFits DEF F!Draft, RowFits, Stored
  <2>4. PICK next : /\ next = [F!NewForm(listed.type) EXCEPT !.for = "edit",
                                 !.saleMode = listed.saleMode, !.commitment = F!Draft(listed)]
                    /\ form' = next
    BY <1>8 DEF F!OpenEdit
  <2>5. /\ next \in F!Form /\ next.for = "edit" /\ next.type = listed.type
        /\ next.commitment = F!Draft(listed)
    <3>1. PICK base : base = F!NewForm(listed.type) /\ base \in F!Form /\ base.type = listed.type
      BY <2>2, NewFits
    <3>2. PICK content : content = F!Draft(listed) /\ content \in F!ProductCommitment
      BY <2>3 DEF Fits
    <3>3. PICK mode : mode = listed.saleMode /\ mode \in F!SaleMode
      BY <2>2
    <3>4. next = [base EXCEPT !.for = "edit", !.saleMode = mode, !.commitment = content]
      BY <2>4, <3>1, <3>2, <3>3
    <3>5. next \in F!Form /\ next.for = "edit" /\ next.type = base.type
      BY <3>1, <3>2, <3>3, <3>4 DEF F!Form
    <3>6. next.commitment = content
      BY <3>1, <3>4 DEF F!Form
    <3> QED
      BY <3>1, <3>2, <3>5, <3>6
  <2>6. FormFits'
    BY <2>3, <2>4, <2>5 DEF FormFits
  <2> QED
    BY <1>1, <2>6, FormMoves
<1> QED
  BY <1>2, <1>3, <1>4, <1>6, <1>7, <1>8

(* The row is written: by Submit or Earlier when there was none, or as a   *)
(* version of its own.                                                     *)
LEMMA FirstRow ==
  ASSUME PublishingInv, row = None, NEW first \in Sold, row' = first,
         first.commitment # None => Stored(first.type, first.commitment),
         form' = None \/ form' = form, UNCHANGED <<listed, shown, asked, orders>>
  PROVE  PublishingInv'
<1>1. listed = None /\ shown = None /\ asked = None
  BY DEF PublishingInv, RowsFit, SightsTrue, True
<1>2. FormFits'
  BY DEF PublishingInv, FormFits
<1> QED
  BY <1>1, <1>2, NoRow
     DEF PublishingInv, RowsFit, RowFits, SightsTrue, BoughtAsShown, F!BoughtAsShown

LEMMA NextRow ==
  ASSUME PublishingInv, row # None, NEW next \in Sold, row' = next,
         next.commitment # None => Stored(next.type, next.commitment),
         next.version = row.version + 1,
         form' = None \/ form' = form, UNCHANGED <<listed, shown, asked, orders>>
  PROVE  PublishingInv'
<1>1. row.version \in Nat
  BY DEF PublishingInv, RowsFit, RowFits, Sold
<1>2. FormFits'
  BY DEF PublishingInv, FormFits
<1>3. RowsFit' /\ row' # None
  BY NoRow DEF PublishingInv, RowsFit, RowFits
<1>4. ASSUME NEW sight, True(sight) PROVE True(sight)'
  BY <1>1, <1>3, <1>4 DEF True
<1>5. SightsTrue'
  BY <1>4 DEF PublishingInv, SightsTrue
<1> QED
  BY <1>2, <1>3, <1>5 DEF PublishingInv, BoughtAsShown, F!BoughtAsShown

(* The form that is sent is of one type and is stored as it parses.        *)
LEMMA SoldStep ==
  ASSUME PublishingInv, F!Submit \/ F!Earlier \/ F!Save \/ F!EditElsewhere
  PROVE  PublishingInv'
<1>1. CASE F!Submit
  <2>1. form # None /\ form \in F!Form /\ Fits(form.type, form.commitment)
    BY <1>1 DEF F!Submit, PublishingInv, FormFits
  <2>2. F!Parses(form.type, form.commitment)
    BY <1>1 DEF F!Submit, F!CreateTakes, F!BodyOf
  <2>3. PICK kept : kept = F!Parsed(form.commitment) /\ Stored(form.type, kept)
    BY <2>1, <2>2, ParsedStored
  <2>4. PICK type \in F!Type, mode \in F!SaleMode : type = form.type /\ mode = form.saleMode
    BY <2>1 DEF F!Form
  <2>5. PICK first : first = [ type |-> type, saleMode |-> mode, commitment |-> kept,
                               published |-> TRUE, version |-> 1, content |-> 1 ]
    OBVIOUS
  <2>6. row' = first
    BY <1>1, <2>3, <2>4, <2>5 DEF F!Submit
  <2>7. first \in Sold
    BY <2>3, <2>5 DEF Sold, Stored, Fits
  <2>8. first.commitment = kept /\ first.type = type
    BY <2>5
  <2> QED
    BY <1>1, <2>3, <2>4, <2>6, <2>7, <2>8, FirstRow DEF F!Submit
<1>2. CASE F!Earlier
  <2>1. PICK type \in F!Type :
          row' = [ type |-> type, saleMode |-> F!NewForm(type).saleMode, commitment |-> None,
                   published |-> TRUE, version |-> 1, content |-> 1 ]
    BY <1>2 DEF F!Earlier
  <2>2. PICK mode \in F!SaleMode : mode = F!NewForm(type).saleMode
    BY NewFits DEF F!Form
  <2>3. PICK first : first = [ type |-> type, saleMode |-> mode, commitment |-> None,
                               published |-> TRUE, version |-> 1, content |-> 1 ]
    OBVIOUS
  <2>4. row' = first /\ first \in Sold /\ first.commitment = None
    BY <2>1, <2>2, <2>3 DEF Sold
  <2> QED
    BY <1>2, <2>4, FirstRow DEF F!Earlier
<1>3. CASE F!Save
  <2>1. row # None /\ row \in Sold /\ form # None /\ form \in F!Form
        /\ Fits(form.type, form.commitment)
    BY <1>3 DEF F!Save, PublishingInv, RowsFit, RowFits, FormFits
  <2>2. F!Parses(row.type, form.commitment) /\ Fits(row.type, form.commitment)
    <3>1. F!Parses(row.type, form.commitment)
      BY <1>3 DEF F!Save
    <3> QED
      BY <2>1, <3>1 DEF F!Parses, Fits
  <2>3. PICK kept : kept = F!Parsed(form.commitment) /\ Stored(row.type, kept)
    BY <2>2, ParsedStored
  <2>4. kept \in F!ProductCommitment
    BY <2>3 DEF Stored, Fits
  <2>5. PICK next : next = [row EXCEPT !.version = @ + 1, !.content = @ + 1, !.commitment = kept]
                    /\ row' = next
    BY <1>3, <2>3 DEF F!Save, F!Edited
  <2>6. next \in Sold /\ next.version = row.version + 1
    <3>1. row.version \in Nat /\ row.content \in Nat
      BY <2>1 DEF Sold
    <3>2. PICK v \in Nat, n \in Nat : v = row.version + 1 /\ n = row.content + 1
      BY <3>1
    <3>3. next = [row EXCEPT !.version = v, !.content = n, !.commitment = kept]
      BY <2>5, <3>2
    <3> QED
      BY <2>1, <2>4, <3>2, <3>3 DEF Sold
  <2>7. next.type = row.type /\ next.commitment = kept
    BY <2>1, <2>5 DEF Sold
  <2> QED
    BY <1>3, <2>1, <2>3, <2>5, <2>6, <2>7, NextRow DEF F!Save
<1>4. CASE F!EditElsewhere
  <2>1. row # None /\ row \in Sold /\ (row.commitment # None => Stored(row.type, row.commitment))
    BY <1>4 DEF F!EditElsewhere, PublishingInv, RowsFit, RowFits
  <2>2. ASSUME NEW next, row' = next,
               \/ next = [row EXCEPT !.version = @ + 1, !.content = @ + 1, !.commitment = row.commitment]
               \/ next = [row EXCEPT !.version = @ + 1, !.published = ~@]
        PROVE  PublishingInv'
    <3>1. next \in Sold /\ next.version = row.version + 1
      <4>1. PICK v \in Nat, n \in Nat : v = row.version + 1 /\ n = row.content + 1
        BY <2>1 DEF Sold
      <4>2. PICK c : c = row.commitment
        BY <2>1 DEF Sold
      <4>3. CASE next = [row EXCEPT !.version = v, !.content = n, !.commitment = c]
        BY <2>1, <4>1, <4>2, <4>3 DEF Sold
      <4>4. CASE next = [row EXCEPT !.version = v, !.published = ~@]
        BY <2>1, <4>1, <4>4 DEF Sold
      <4> QED
        BY <2>2, <4>1, <4>2, <4>3, <4>4
    <3>2. next.type = row.type /\ next.commitment = row.commitment
      BY <2>1, <2>2 DEF Sold
    <3> QED
      BY <1>4, <2>1, <2>2, <3>1, <3>2, NextRow DEF F!EditElsewhere
  <2> QED
    BY <1>4, <2>2 DEF F!EditElsewhere, F!Edited
<1> QED
  BY <1>1, <1>2, <1>3, <1>4

(* The seller's list and the buyer's page see the row as it is; what is    *)
(* asked for was on the page; and an order is of the version on both.      *)
LEMMA SightStep ==
  ASSUME PublishingInv, F!ReadListed \/ F!Show \/ F!Confirm \/ F!Purchase \/ F!Refuse
  PROVE  PublishingInv'
<1>1. form' = form /\ row' = row /\ FormFits'
  BY DEF F!ReadListed, F!Show, F!Confirm, F!Purchase, F!Refuse, PublishingInv, FormFits
<1>2. ASSUME NEW sight, True(sight) PROVE True(sight)'
  BY <1>1, <1>2 DEF True
<1>3. RowsFit'
  <2>1. listed' = listed \/ listed' = None \/ (listed' = row /\ row # None)
    BY DEF F!ReadListed, F!Show, F!Confirm, F!Purchase, F!Refuse
  <2> QED
    BY <1>1, <2>1 DEF PublishingInv, RowsFit, RowFits
<1>4. (shown # None => True(shown))'
  <2>1. CASE F!Show
    <3>1. row # None /\ row.version \in Nat
      BY <2>1 DEF F!Show, PublishingInv, RowsFit, RowFits, Sold
    <3>2. PICK sight : sight = [version |-> row.version, content |-> row.content]
                       /\ shown' = sight
      BY <2>1 DEF F!Show, F!Sight
    <3>3. True(sight)
      BY <3>1, <3>2 DEF True
    <3> QED
      BY <1>2, <3>2, <3>3
  <2>2. CASE F!ReadListed \/ F!Confirm \/ F!Purchase \/ F!Refuse
    <3>1. shown' = shown
      BY <2>2 DEF F!ReadListed, F!Confirm, F!Purchase, F!Refuse
    <3> QED
      BY <1>2, <3>1 DEF PublishingInv, SightsTrue
  <2> QED
    BY <2>1, <2>2
<1>5. (asked # None => True(asked))'
  <2>1. asked' = asked \/ asked' = None \/ (asked' = shown /\ shown # None)
    BY DEF F!ReadListed, F!Show, F!Confirm, F!Purchase, F!Refuse
  <2> QED
    BY <1>2, <2>1 DEF PublishingInv, SightsTrue
<1>6. BoughtAsShown'
  <2>1. CASE F!Purchase
    <3>1. asked # None /\ asked.version = row.version
      BY <2>1 DEF F!Purchase
    <3>2. asked.content = row.content
      BY <3>1 DEF PublishingInv, SightsTrue, True
    <3>3. PICK o : o = [shown |-> asked.content, copied |-> row.content]
                   /\ orders' = orders \cup {o}
      BY <2>1 DEF F!Purchase
    <3> QED
      BY <3>2, <3>3 DEF PublishingInv, BoughtAsShown, F!BoughtAsShown
  <2>2. CASE F!ReadListed \/ F!Show \/ F!Confirm \/ F!Refuse
    <3>1. orders' = orders
      BY <2>2 DEF F!ReadListed, F!Show, F!Confirm, F!Refuse
    <3> QED
      BY <3>1 DEF PublishingInv, BoughtAsShown, F!BoughtAsShown
  <2> QED
    BY <2>1, <2>2
<1> QED
  BY <1>1, <1>3, <1>4, <1>5, <1>6 DEF PublishingInv, SightsTrue

LEMMA NextPublishing == PublishingInv /\ [F!Next]_(F!vars) => PublishingInv'
<1>1. ASSUME PublishingInv, UNCHANGED F!vars PROVE PublishingInv'
  <2>1. UNCHANGED <<form, row, listed, shown, asked, orders>>
    BY <1>1 DEF F!vars
  <2>2. FormFits'
    BY <1>1, <2>1 DEF PublishingInv, FormFits
  <2> QED
    BY <1>1, <2>1, <2>2, FormMoves
<1>2. ASSUME PublishingInv, F!Next PROVE PublishingInv'
  BY <1>2, FormStep, SoldStep, SightStep DEF F!Next
<1> QED
  BY <1>1, <1>2

(* The forms and the API fit together, whatever was typed, chosen and      *)
(* switched before, and what was stored opens ready in the editor.         *)
THEOREM FormsAcceptedHolds == F!Spec => []FormsAccepted
<1>1. ASSUME PublishingInv PROVE FormsAccepted
  <2>1. ASSUME form # None
        PROVE  /\ form.for = "new" => F!publishSchema(form) /\ F!Consistent(F!BodyOf(form))
               /\ F!Parses(form.type, form.commitment) => F!commitmentReady(form.commitment)
               /\ F!commitmentReady(form.commitment) =>
                    F!Parses(form.type, form.commitment) \/ F!Unforeseen(form.commitment)
    <3>1. form \in F!Form /\ Fits(form.type, form.commitment)
      BY <1>1, <2>1 DEF PublishingInv, FormFits
    <3>2. PICK type, mode, c : type = form.type /\ mode = form.saleMode /\ c = form.commitment
      OBVIOUS
    <3>3. form.for = "new" => F!publishSchema(form) /\ F!Consistent(F!BodyOf(form))
      <4>1. ASSUME form.for = "new" PROVE F!publishSchema(form)
        BY <1>1, <2>1, <4>1 DEF PublishingInv, FormFits, F!publishSchema
      <4>2. ASSUME form.for = "new" PROVE F!Consistent(F!BodyOf(form))
        <5>1. /\ form.category = form.type /\ form.type \in {"physical", "digital"}
              /\ form.type = "physical" => form.saleMode = "one_off"
          BY <1>1, <2>1, <3>1, <4>2 DEF PublishingInv, FormFits, F!Form, F!Type
        <5> QED
          BY <5>1 DEF F!Consistent, F!BodyOf
      <4> QED
        BY <4>1, <4>2
    <3>4. F!Parses(type, c) => F!commitmentReady(c)
      <4>1. F!IsDigital(c) => c.noOtherRestrictions \in BOOLEAN /\ c.exclusions \in BOOLEAN
        BY <3>1, <3>2, DigitalHasMode DEF Fits, F!ProductCommitment, F!DigitalCommitment
      <4> QED
        BY <4>1 DEF F!Parses, F!commitmentReady
    <3>5. F!commitmentReady(c) => F!Parses(type, c) \/ F!Unforeseen(c)
      <4> SUFFICES ASSUME F!commitmentReady(c), ~F!Unforeseen(c) PROVE F!Parses(type, c)
        OBVIOUS
      <4>1. F!Asked(c) = {"given"}
        BY DEF F!commitmentReady, F!Unforeseen, F!Asked
      <4>2. F!IsDigital(c) <=> type = "digital"
        BY <3>1, <3>2 DEF Fits
      <4>3. ASSUME F!IsDigital(c)
            PROVE  c.noOtherRestrictions # c.exclusions /\ (c.mode = "file" => c.flags = F!Flag)
        <5>1. c \in F!DigitalCommitment /\ ~(c.noOtherRestrictions /\ c.exclusions)
          BY <3>1, <3>2, <4>3, DigitalHasMode DEF Fits, F!ProductCommitment
        <5>2. c.noOtherRestrictions \in BOOLEAN /\ c.exclusions \in BOOLEAN
          BY <5>1 DEF F!DigitalCommitment
        <5> QED
          BY <4>3, <5>1, <5>2 DEF F!commitmentReady, F!Unforeseen
      <4> QED
        BY <4>1, <4>2, <4>3 DEF F!Parses, F!IsDigital
    <3> QED
      BY <3>2, <3>3, <3>4, <3>5
  <2>2. ASSUME row # None, row.commitment # None
        PROVE  /\ F!commitmentReady(row.commitment) /\ F!Parses(row.type, row.commitment)
               /\ F!Parsed(row.commitment) = row.commitment
    BY <1>1, <2>2 DEF PublishingInv, RowsFit, RowFits, Stored
  <2> QED
    BY <2>1, <2>2 DEF FormsAccepted, F!FormsAccepted
<1> QED
  BY <1>1, InitPublishing, NextPublishing, PTL DEF F!Spec

(* An order says what its buyer was shown when confirming it, whatever the *)
(* seller edits in the meantime and from wherever.                         *)
THEOREM BoughtAsShownHolds == F!Spec => []BoughtAsShown
<1>1. PublishingInv => BoughtAsShown
  BY DEF PublishingInv
<1> QED
  BY <1>1, InitPublishing, NextPublishing, PTL DEF F!Spec

-----------------------------------------------------------------------------
(***************************************************************************)
(* The write workloads account for their writes (WritesAccounted). Three   *)
(* facts hold in all of them: the idempotency records, the orders and what *)
(* holds the items agree (Books), every record is one of a request that    *)
(* was planned (Traced), and the client was told what is on record         *)
(* (Spoken). A request that runs, in time or late, then either finds its   *)
(* key on record or does what nothing else has done. What differs is how   *)
(* far the client is, which is an invariant of each workload.              *)
(***************************************************************************)
(* What a request does if nothing is on record for its key: its order.     *)
Due(r) == IF r.do = "create" THEN <<r.key, 1>> ELSE r.order

Ends(k) == k[3] = "cancel"

(* What each workload sends.                                               *)
OutagePlan ==
  {W!Create(op, op) : op \in W!Operations \ W!Cancellations}
    \cup {W!Create(op, W!PrepareKey(op)) : op \in W!Cancellations}
    \cup {W!Cancel(<<W!PrepareKey(op), 1>>, op) : op \in W!Cancellations}

RoundRequest(n) ==
  IF (n - 1) % 4 < 2 THEN W!Create(W!Item, W!KeyOf(n))
  ELSE W!Cancel(<<W!CreateKey(n), 1>>, W!KeyOf(n))

Made(n) == <<n, 0, "create">>
Undone(n) == <<n, 0, "cancel">>
RacePlan ==
  {W!Sale(1), W!Cancel(<<Made(1), 1>>, Undone(1))}
    \cup {W!Create(<<1, 0, "item">>, Made(n)) : n \in {2, 3}}
    \cup {W!Cancel(<<Made(n), 1>>, Undone(2)) : n \in {2, 3}}

SalePlan == {W!Sale(n) : n \in 1..4}

Plan ==
  IF load = "outage" THEN OutagePlan
  ELSE IF load = "rounds" THEN {RoundRequest(n) : n \in 1..Rounds}
  ELSE IF load = "competition" THEN RacePlan ELSE SalePlan

Load == {"outage", "rounds", "ingress", "gateway", "competition"}

(* Every planned request is one of the two kinds.                          *)
Asks(r) ==
  \/ \E i \in Label, k \in Label : r = W!Create(i, k) /\ ~Ends(k)
  \/ \E i \in Label \X Nat, k \in Label : r = W!Cancel(i, k) /\ Ends(k)

(* A request is never none.                                                *)
LEMMA Some == \A r : Asks(r) => r # NoOrder
<1> SUFFICES ASSUME NEW r, Asks(r), r = NoOrder PROVE FALSE
  OBVIOUS
<1>1. r \in Written
  BY DEF Asks, Written, W!Create, W!Cancel
<1> QED
  BY <1>1, WorkloadAssumption

(* An operation is a creation or a cancellation.                           *)
LEMMA OpShape == \A op \in W!Operations :
   /\ op \in Label
   /\ op[3] = "create" <=> op \notin W!Cancellations
   /\ op \in W!Cancellations => op[3] = "cancel"
   /\ op = <<op[1], op[2], op[3]>>
<1> SUFFICES ASSUME NEW i \in 1..Arrivals
             PROVE  /\ W!OperationOf(i) \in Label
                    /\ W!OperationOf(i)[3] \in {"create", "cancel"}
                    /\ W!OperationOf(i) = <<W!OperationOf(i)[1], W!OperationOf(i)[2],
                                             W!OperationOf(i)[3]>>
  BY DEF W!Operations, W!Cancellations
<1>0. i \in Nat /\ i >= 1 /\ Buyers \in Nat /\ Buyers > 0
  BY WorkloadAssumption
<1>1. (i - 1) \div Buyers \in Nat /\ (i - 1) % Buyers \in Nat
  BY <1>0
<1>2. PICK g : g = (i - 1) \div Buyers
  OBVIOUS
<1>3. g \div 4 \in Nat /\ g % 4 \in Nat
  BY <1>1, <1>2
<1>4. W!OperationOf(i) = <<g \div 4, (i - 1) % Buyers, IF g % 4 < 2 THEN "create" ELSE "cancel">>
  BY <1>2 DEF W!OperationOf, W!RoundOf
<1>5. PICK a \in Nat, b \in Nat, c \in {"create", "cancel"} : W!OperationOf(i) = <<a, b, c>>
  <2>1. (IF g % 4 < 2 THEN "create" ELSE "cancel") \in {"create", "cancel"}
    OBVIOUS
  <2> QED
    BY <1>1, <1>3, <1>4, <2>1
<1> QED
  BY <1>5 DEF Label

(* The runner and the arrivals of an outage create and cancel.             *)
LEMMA OutageAsks == \A r \in OutagePlan : Asks(r)
<1> SUFFICES ASSUME NEW op \in W!Operations
             PROVE  /\ op \notin W!Cancellations => Asks(W!Create(op, op))
                    /\ op \in W!Cancellations => /\ Asks(W!Create(op, W!PrepareKey(op)))
                                                 /\ Asks(W!Cancel(<<W!PrepareKey(op), 1>>, op))
  BY DEF OutagePlan, W!Cancellations
<1>1. W!PrepareKey(op) \in Label /\ W!PrepareKey(op)[3] = "prepare"
  BY OpShape DEF W!PrepareKey, Label
<1>2. <<W!PrepareKey(op), 1>> \in Label \X Nat
  BY <1>1
<1> QED
  BY <1>1, <1>2, OpShape DEF Asks, Ends

(* A round is a creation or a cancellation of its group.                   *)
LEMMA RoundShape ==
  ASSUME NEW n \in Nat \ {0}
  PROVE  \E g \in Nat :
           \/ /\ 4 * g < n /\ n <= 4 * g + 2
              /\ RoundRequest(n) = W!Create(W!Item, Made(g)) /\ W!KeyOf(n) = Made(g)
           \/ /\ 4 * g + 2 < n /\ n <= 4 * g + 4
              /\ RoundRequest(n) = W!Cancel(<<Made(g), 1>>, Undone(g))
              /\ W!KeyOf(n) = Undone(g) /\ W!CreateKey(n) = Made(g)
<1>1. PICK g : g = (n - 1) \div 4
  OBVIOUS
<1>2. /\ g \in Nat /\ 4 * g < n /\ n <= 4 * g + 4
      /\ n <= 4 * g + 2 <=> (n - 1) % 4 < 2
  BY <1>1
<1>3. CASE n <= 4 * g + 2
  BY <1>1, <1>2, <1>3 DEF RoundRequest, W!KeyOf, Made
<1>4. CASE ~(n <= 4 * g + 2)
  BY <1>1, <1>2, <1>4 DEF RoundRequest, W!KeyOf, W!CreateKey, Made, Undone
<1> QED
  BY <1>3, <1>4

(* So does every other workload.                                           *)
LEMMA PlanAsks == load \in Load => \A r \in Plan : Asks(r)
<1> SUFFICES ASSUME load \in Load, NEW r \in Plan PROVE Asks(r)
  OBVIOUS
<1>0. \A n \in Nat : Made(n) \in Label /\ Undone(n) \in Label /\ <<n, 0, "item">> \in Label
        /\ <<Made(n), 1>> \in Label \X Nat /\ ~Ends(Made(n)) /\ Ends(Undone(n))
  BY DEF Label, Made, Undone, Ends
<1>1. CASE load = "outage"
  BY <1>1, OutageAsks DEF Plan
<1>2. CASE load = "rounds"
  <2>1. PICK n \in 1..Rounds : r = RoundRequest(n)
    BY <1>2 DEF Plan
  <2>2. n \in Nat \ {0}
    BY WorkloadAssumption
  <2>3. PICK g \in Nat : r = W!Create(W!Item, Made(g)) \/ r = W!Cancel(<<Made(g), 1>>, Undone(g))
    BY <2>1, <2>2, RoundShape
  <2> QED
    BY <1>0, <2>3 DEF Asks, W!Item
<1>3. \A n \in Nat : W!Sale(n) = W!Create(<<n, 0, "item">>, Made(n))
  BY DEF W!Sale, Made
<1>4. CASE load \in {"ingress", "gateway"}
  <2>1. PICK n \in 1..4 : r = W!Sale(n)
    BY <1>4 DEF Plan, SalePlan
  <2>2. n \in Nat /\ r = W!Create(<<n, 0, "item">>, Made(n))
    BY <1>3, <2>1
  <2> QED
    BY <1>0, <2>2 DEF Asks
<1>5. CASE load = "competition"
  <2>1. \/ r = W!Create(<<1, 0, "item">>, Made(1)) \/ r = W!Create(<<1, 0, "item">>, Made(2))
        \/ r = W!Create(<<1, 0, "item">>, Made(3)) \/ r = W!Cancel(<<Made(1), 1>>, Undone(1))
        \/ r = W!Cancel(<<Made(2), 1>>, Undone(2)) \/ r = W!Cancel(<<Made(3), 1>>, Undone(2))
    BY <1>3, <1>5 DEF RacePlan, Plan
  <2>2. \A n \in 1..3 : n \in Nat
    OBVIOUS
  <2> HIDE DEF Made, Undone
  <2> QED
    BY <1>0, <2>1, <2>2 DEF Asks
<1> QED
  BY <1>1, <1>2, <1>4, <1>5 DEF Load

-----------------------------------------------------------------------------
(* The books of the API: which keys and orders are on record.              *)
Open(id) == \A k \in DOMAIN record : record[k] = id => ~Ends(k)

KeysKept ==
  \A k \in DOMAIN record : record[k] \in DOMAIN worder /\ (~Ends(k) => record[k] = <<k, 1>>)

OrdersKept == \A id \in DOMAIN worder : \E k \in DOMAIN record : ~Ends(k) /\ id = <<k, 1>>

EndedOnce ==
  \A j, k \in DOMAIN record : Ends(j) /\ Ends(k) /\ record[j] = record[k] => j = k

OpenRow(i) == [item |-> i, status |-> "pending_payment", events |-> <<"create">>]
EndedRow(i) == [item |-> i, status |-> "cancelled", events |-> <<"create", "cancel">>]

RowsFollow ==
  \A id \in DOMAIN worder :
    /\ Open(id) => worder[id] = OpenRow(worder[id].item)
    /\ ~Open(id) => worder[id] = EndedRow(worder[id].item)

Holding ==
  /\ \A id \in DOMAIN worder :
       Open(id) => worder[id].item \in DOMAIN wholder /\ wholder[worder[id].item] = id
  /\ \A i \in DOMAIN wholder :
       wholder[i] \in DOMAIN worder /\ worder[wholder[i]].item = i /\ Open(wholder[i])

Books == KeysKept /\ OrdersKept /\ EndedOnce /\ RowsFollow /\ Holding

(* The record of a key is the one this request would make.                 *)
Consistent(r) ==
  /\ r.key \in DOMAIN record => record[r.key] = Due(r)
  /\ Ends(r.key) => /\ r.order \in DOMAIN worder
                    /\ \A k \in DOMAIN record : Ends(k) /\ record[k] = r.order => k = r.key

(* What it asks for can be done, if it has not been done.                  *)
Welcome(r) == ~Ends(r.key) /\ r.key \notin DOMAIN record => r.item \notin DOMAIN wholder

(* Sizes are the same inside the instance.                                 *)
LEMMA Sizes == \A S : W!Cardinality(S) = Cardinality(S)
BY Zenon DEF W!Cardinality, Cardinality

(* A key that is not on record never made an order.                        *)
LEMMA Fresh ==
  ASSUME Books, NEW k, k \notin DOMAIN record
  PROVE  W!NewOrder(k) = <<k, 1>> /\ <<k, 1>> \notin DOMAIN worder
<1>1. \A id \in DOMAIN worder : id[1] # k
  BY DEF Books, OrdersKept
<1>2. {id \in DOMAIN worder : id[1] = k} = {}
  BY <1>1
<1>3. W!Cardinality({id \in DOMAIN worder : id[1] = k}) = 0
  BY <1>2, FS_EmptySet, Sizes
<1> QED
  BY <1>1, <1>3 DEF W!NewOrder

(* What comes of a request that may be served.                             *)
LEMMA AnswerDue ==
  ASSUME Books, NEW r, Asks(r), Consistent(r), Welcome(r)
  PROVE  W!AnswerTo(r) = W!Told(Due(r)) /\ (r.key \notin DOMAIN record => W!Allowed(r))
<1>1. CASE r.key \in DOMAIN record
  BY <1>1 DEF W!AnswerTo, Consistent
<1>2. CASE r.key \notin DOMAIN record
  <2>1. W!Allowed(r)
    <3>1. CASE r.do = "create"
      BY <1>2, <3>1 DEF Asks, W!Create, W!Cancel, Welcome, W!Allowed
    <3>2. CASE r.do # "create"
      <4>1. Ends(r.key)
        BY <3>2 DEF Asks, W!Create, W!Cancel
      <4>2. r.order \in DOMAIN worder /\ Open(r.order)
        BY <1>2, <4>1 DEF Consistent, Open
      <4>3. worder[r.order].status = "pending_payment"
        BY <4>2 DEF Books, RowsFollow, OpenRow
      <4> QED
        BY <3>2, <4>3 DEF W!Allowed
    <3> QED
      BY <3>1, <3>2
  <2>2. W!AnswerTo(r) = W!Told(IF r.do = "create" THEN W!NewOrder(r.key) ELSE r.order)
    BY <1>2, <2>1 DEF W!AnswerTo
  <2> QED
    BY <1>2, <2>1, <2>2, Fresh DEF Due
<1> QED
  BY <1>1, <1>2

(* What is on record stays, and the key of the request is with it.         *)
Grown(r) ==
  /\ DOMAIN record' = DOMAIN record \cup {r.key}
  /\ record'[r.key] = Due(r)
  /\ \A k \in DOMAIN record : record'[k] = record[k]
  /\ \A id \in DOMAIN worder : id \in DOMAIN worder' /\ worder'[id].item = worder[id].item
  /\ r.key \notin DOMAIN record /\ ~Ends(r.key) => worder'[Due(r)].item = r.item

(* A creation that runs keeps the books.                                   *)
LEMMA Makes ==
  ASSUME Books, NEW r, Asks(r), Consistent(r), Welcome(r), W!Run(r), r.key \notin DOMAIN record,
         ~Ends(r.key)
  PROVE  Books' /\ Grown(r)
<1>1. PICK k, i, id : k = r.key /\ i = r.item /\ id = <<k, 1>>
  OBVIOUS
<1>2. r.do = "create" /\ Due(r) = id
  BY <1>1 DEF Asks, W!Create, W!Cancel, Due
<1>3. /\ worder' = W!Insert(worder, id, OpenRow(i))
      /\ wholder' = W!Insert(wholder, i, id)
      /\ record' = W!Insert(record, k, id)
  BY <1>1, <1>2, AnswerDue DEF W!Run, W!Told, OpenRow
<1>4. k \notin DOMAIN record /\ id \notin DOMAIN worder /\ i \notin DOMAIN wholder /\ ~Ends(k)
  BY <1>1, Fresh DEF Welcome
<1>5. /\ DOMAIN record' = DOMAIN record \cup {k} /\ record'[k] = id
      /\ \A j \in DOMAIN record : record'[j] = record[j]
  BY <1>3, <1>4 DEF W!Insert
<1>6. /\ DOMAIN worder' = DOMAIN worder \cup {id} /\ worder'[id] = OpenRow(i)
      /\ \A j \in DOMAIN worder : worder'[j] = worder[j]
  BY <1>3, <1>4 DEF W!Insert
<1>7. /\ DOMAIN wholder' = DOMAIN wholder \cup {i} /\ wholder'[i] = id
      /\ \A j \in DOMAIN wholder : wholder'[j] = wholder[j]
  BY <1>3, <1>4 DEF W!Insert
<1>8. KeysKept' /\ OrdersKept' /\ EndedOnce'
  BY <1>1, <1>4, <1>5, <1>6 DEF Books, KeysKept, OrdersKept, EndedOnce
<1>9. Open(id)' /\ \A j \in DOMAIN worder : Open(j)' <=> Open(j)
  <2>1. \A j \in DOMAIN record : record[j] # id
    BY <1>4 DEF Books, KeysKept
  <2> QED
    BY <1>4, <1>5, <2>1 DEF Open
<1>10. OpenRow(i).item = i
  BY DEF OpenRow
<1>11. RowsFollow'
  BY <1>6, <1>9, <1>10 DEF Books, RowsFollow
<1>12. Holding'
  BY <1>4, <1>6, <1>7, <1>9, <1>10 DEF Books, Holding
<1> QED
  BY <1>1, <1>2, <1>4, <1>5, <1>6, <1>8, <1>10, <1>11, <1>12 DEF Books, Grown

(* What appending to a sequence gives.                                     *)
LEMMA Appends ==
  ASSUME NEW S, NEW s \in Seq(S), NEW e \in S
  PROVE  /\ Append(s, e) \in Seq(S) /\ Len(Append(s, e)) = Len(s) + 1
         /\ Append(s, e)[Len(s) + 1] = e /\ \A n \in 1..Len(s) : Append(s, e)[n] = s[n]
OBVIOUS

(* The events of an order that was made and cancelled.                     *)
LEMMA LogOfTwo == Append(<<"create">>, "cancel") = <<"create", "cancel">>
<1>1. PICK S : S = {"create", "cancel"}
  OBVIOUS
<1>2. PICK single : single = <<"create">>
  OBVIOUS
<1>3. single \in Seq(S) /\ "cancel" \in S
  BY <1>1, <1>2
<1>4. Len(single) = 1 /\ single[1] = "create"
  BY <1>2
<1>5. PICK two : two = Append(single, "cancel")
  OBVIOUS
<1>6. /\ two \in Seq(S) /\ Len(two) = Len(single) + 1 /\ two[Len(single) + 1] = "cancel"
      /\ \A n \in 1..Len(single) : two[n] = single[n]
  BY ONLY <1>3, <1>5, Appends, Zenon
<1>7. two = <<"create", "cancel">>
  BY <1>1, <1>4, <1>6
<1> QED
  BY <1>2, <1>5, <1>7

(* The row of an order that is cancelled.                                  *)
LEMMA RowEnds ==
  ASSUME NEW entry, NEW i, NEW log,
         entry = [item |-> i, status |-> "pending_payment", events |-> <<"create">>]
  PROVE  [entry EXCEPT !.status = "cancelled", !.events = log]
           = [item |-> i, status |-> "cancelled", events |-> log]
<1>1. PICK mid : mid = [entry EXCEPT !.status = "cancelled"]
  OBVIOUS
<1>2. mid = [item |-> i, status |-> "cancelled", events |-> <<"create">>]
  BY <1>1
<1>3. [mid EXCEPT !.events = log] = [item |-> i, status |-> "cancelled", events |-> log]
  BY <1>2
<1>4. [entry EXCEPT !.status = "cancelled", !.events = log] = [mid EXCEPT !.events = log]
  BY <1>1, Zenon
<1> QED
  BY <1>3, <1>4

(* A cancellation that runs keeps the books.                               *)
LEMMA Cancels ==
  ASSUME Books, NEW r, Asks(r), Consistent(r), Welcome(r), W!Run(r), r.key \notin DOMAIN record,
         Ends(r.key)
  PROVE  Books' /\ Grown(r)
<1>1. PICK k, i, id : k = r.key /\ i = worder[id].item /\ id = r.order
  OBVIOUS
<1>2. r.do = "cancel" /\ r.do # "create" /\ Due(r) = id
  BY <1>1 DEF Asks, W!Create, W!Cancel, Due
<1>3. id \in DOMAIN worder /\ Open(id) /\ \A j \in DOMAIN record : record[j] = id => ~Ends(j)
  BY <1>1 DEF Consistent, Open
<1>4. worder[id] = OpenRow(i)
  BY <1>1, <1>3 DEF Books, RowsFollow
<1>5. /\ worder' = [worder EXCEPT ![id].status = "cancelled", ![id].events = Append(@, "cancel")]
      /\ wholder' = [j \in DOMAIN wholder \ {i} |-> wholder[j]]
      /\ record' = W!Insert(record, k, id)
  <2>1. W!AnswerTo(r).order = id /\ W!Allowed(r)
    BY <1>2, AnswerDue DEF W!Told
  <2> QED
    BY <1>1, <1>2, <2>1, Zenon DEF W!Run
<1>6. /\ DOMAIN record' = DOMAIN record \cup {k} /\ record'[k] = id
      /\ \A j \in DOMAIN record : record'[j] = record[j]
  BY <1>1, <1>5 DEF W!Insert
<1>7. /\ DOMAIN worder' = DOMAIN worder /\ worder'[id] = EndedRow(i)
      /\ \A j \in DOMAIN worder : j # id => worder'[j] = worder[j]
  <2>1. Append(<<"create">>, "cancel") = <<"create", "cancel">>
    BY LogOfTwo
  <2>2. PICK entry : entry = worder[id]
    OBVIOUS
  <2>3. worder' = [worder EXCEPT ![id] = [entry EXCEPT !.status = "cancelled",
                                                    !.events = Append(entry.events, "cancel")]]
    BY <1>5, <2>2
  <2>4. [entry EXCEPT !.status = "cancelled", !.events = Append(entry.events, "cancel")]
          = EndedRow(i)
    <3>1. PICK log : log = Append(entry.events, "cancel")
      OBVIOUS
    <3>2. log = <<"create", "cancel">>
      BY <1>4, <2>1, <2>2, <3>1 DEF OpenRow
    <3>3. entry = [item |-> i, status |-> "pending_payment", events |-> <<"create">>]
      BY <1>4, <2>2 DEF OpenRow
    <3>4. [entry EXCEPT !.status = "cancelled", !.events = log]
            = [item |-> i, status |-> "cancelled", events |-> log]
      BY <3>3, RowEnds
    <3> QED
      BY <3>1, <3>2, <3>4 DEF EndedRow
  <2> QED
    BY <1>3, <2>3, <2>4
<1>8. KeysKept' /\ OrdersKept' /\ EndedOnce'
  BY <1>1, <1>3, <1>6, <1>7 DEF Books, KeysKept, OrdersKept, EndedOnce
<1>9. ~Open(id)' /\ \A j \in DOMAIN worder : j # id => (Open(j)' <=> Open(j))
  BY <1>1, <1>6 DEF Open
<1>10. EndedRow(i).item = i /\ \A j \in DOMAIN worder : worder'[j].item = worder[j].item
  BY <1>1, <1>7 DEF EndedRow
<1>11. RowsFollow'
  BY <1>7, <1>9, <1>10 DEF Books, RowsFollow
<1>12. Holding'
  <2>1. wholder[i] = id /\ \A j \in DOMAIN worder : j # id /\ Open(j) => worder[j].item # i
    BY <1>1, <1>3 DEF Books, Holding
  <2>2. \A j \in DOMAIN wholder : j # i => wholder[j] # id
    BY <1>1 DEF Books, Holding
  <2>3. /\ DOMAIN wholder' = DOMAIN wholder \ {i}
        /\ \A j \in DOMAIN wholder \ {i} : wholder'[j] = wholder[j]
    BY <1>5
  <2> QED
    BY <1>7, <1>9, <1>10, <2>1, <2>2, <2>3 DEF Books, Holding
<1> QED
  BY <1>1, <1>2, <1>6, <1>7, <1>8, <1>10, <1>11, <1>12 DEF Books, Grown

(* Serving a request keeps the books, whenever and however often it runs.  *)
LEMMA RunBooks ==
  ASSUME Books, NEW r, Asks(r), Consistent(r), Welcome(r), W!Run(r)
  PROVE  Books' /\ Grown(r)
<1>1. CASE r.key \in DOMAIN record
  <2>1. UNCHANGED W!rows
    BY <1>1 DEF W!Run
  <2> QED
    BY <1>1, <2>1 DEF W!rows, Books, KeysKept, OrdersKept, EndedOnce, RowsFollow, Holding, Open,
                      Grown, Consistent
<1> QED
  BY <1>1, Makes, Cancels

-----------------------------------------------------------------------------
(* What is on record comes from the plan of the workload.                  *)
Traced ==
  \A k \in DOMAIN record : \E q \in Plan :
    /\ q.key = k /\ record[k] = Due(q)
    /\ ~Ends(k) => worder[record[k]].item = q.item

(* What the client was told is on record.                                  *)
Spoken == \A k \in DOMAIN named : k \in DOMAIN record /\ named[k] = record[k]

Calm == trouble \cap {"refused", "renamed"} = {}

(* A request on its way: a cancellation names an order that was made.      *)
Underway(r) == r \in Plan /\ (Ends(r.key) => r.order \in DOMAIN worder)

BaseInv ==
  /\ load \in Load /\ Books /\ Traced /\ Spoken /\ Calm
  /\ call = [c \in W!Caller |-> call[c]]
  /\ \A c \in W!Caller : call[c] # NoOrder => Underway(call[c])
  /\ \A r \in late : Underway(r)

(* Two requests of a plan are told apart by their keys, and no two cancel  *)
(* one order.                                                              *)
ToldApart ==
  \A q, r \in Plan :
    /\ q.key = r.key => q = r
    /\ Ends(q.key) /\ Ends(r.key) /\ q.order = r.order => q.key = r.key

(* What is due for each kind of request.                                   *)
LEMMA DueOf == \A r : Asks(r) =>
  /\ ~Ends(r.key) => Due(r) = <<r.key, 1>>
  /\ Ends(r.key) => Due(r) = r.order
BY DEF Asks, Due, W!Create, W!Cancel

(* Nothing a workload sends can be answered with the order of another key. *)
LEMMA PlannedAgrees ==
  ASSUME BaseInv, ToldApart, NEW r, Underway(r)
  PROVE  Consistent(r)
<1>0. Asks(r) /\ r \in Plan /\ \A q \in Plan : Asks(q)
  BY PlanAsks DEF BaseInv, Underway
<1>1. r.key \in DOMAIN record => record[r.key] = Due(r)
  BY <1>0 DEF BaseInv, Traced, ToldApart
<1>2. ASSUME Ends(r.key), NEW k \in DOMAIN record, Ends(k), record[k] = r.order PROVE k = r.key
  <2>1. PICK q \in Plan : q.key = k /\ record[k] = Due(q)
    BY DEF BaseInv, Traced
  <2>2. q.order = r.order
    BY <1>0, <1>2, <2>1, DueOf
  <2> QED
    BY <1>0, <1>2, <2>1, <2>2 DEF ToldApart
<1> QED
  BY <1>1, <1>2 DEF Consistent, Underway

(* Where every key has an item of its own, an item is free until its key   *)
(* is on record.                                                           *)
ItemsApart ==
  \A q, r \in Plan : ~Ends(q.key) /\ ~Ends(r.key) /\ q.item = r.item => q.key = r.key

(* A creation whose item no other key asks for is never refused.           *)
LEMMA ItemFree ==
  ASSUME BaseInv, ItemsApart, NEW r \in Plan
  PROVE  Welcome(r)
<1> SUFFICES ASSUME ~Ends(r.key), r.key \notin DOMAIN record, r.item \in DOMAIN wholder
             PROVE  FALSE
  BY DEF Welcome
<1>1. PICK id : id = wholder[r.item]
  OBVIOUS
<1>2. id \in DOMAIN worder /\ worder[id].item = r.item
  BY <1>1 DEF BaseInv, Books, Holding
<1>3. PICK k \in DOMAIN record : ~Ends(k) /\ id = <<k, 1>>
  BY <1>2 DEF BaseInv, Books, OrdersKept
<1>4. record[k] = id
  BY <1>3 DEF BaseInv, Books, KeysKept
<1>5. PICK q \in Plan : q.key = k /\ worder[record[k]].item = q.item
  BY <1>3 DEF BaseInv, Traced
<1> QED
  BY <1>2, <1>3, <1>4, <1>5 DEF ItemsApart

(* Running a planned request adds a record of the plan.                    *)
LEMMA TracedStays ==
  ASSUME Books, Traced, NEW r \in Plan, Grown(r), load' = load
  PROVE  Traced'
<1>0. PICK P : P = Plan /\ P = Plan'
  BY DEF Plan
<1>1. ASSUME NEW k \in DOMAIN record
      PROVE  \E q \in P : /\ q.key = k /\ record'[k] = Due(q)
                          /\ ~Ends(k) => worder'[record'[k]].item = q.item
  BY <1>0 DEF Books, KeysKept, Traced, Grown
<1>2. ASSUME NEW k \in DOMAIN record', k \notin DOMAIN record
      PROVE  \E q \in P : /\ q.key = k /\ record'[k] = Due(q)
                          /\ ~Ends(k) => worder'[record'[k]].item = q.item
  <2>1. k = r.key /\ record'[k] = Due(r)
    BY <1>2 DEF Grown
  <2>2. ~Ends(k) => worder'[record'[k]].item = r.item
    BY <1>2, <2>1 DEF Grown
  <2> QED
    BY <1>0, <2>1, <2>2
<1> SUFFICES ASSUME NEW k \in DOMAIN record'
             PROVE  \E q \in P : /\ q.key = k /\ record'[k] = Due(q)
                                 /\ ~Ends(k) => worder'[record'[k]].item = q.item
  BY <1>0 DEF Traced
<1>3. CASE k \in DOMAIN record
  BY <1>1, <1>3, Zenon
<1>4. CASE k \notin DOMAIN record
  BY <1>2, <1>4, Zenon
<1> QED
  BY <1>3, <1>4

(* What the client was told stays on record.                               *)
LEMMA SpokenStays ==
  ASSUME Spoken, NEW r, Grown(r), named' = named
  PROVE  Spoken'
BY DEF Spoken, Grown

(* An answer that says what is due is no trouble.                          *)
LEMMA NoteDue ==
  ASSUME Spoken, Calm, NEW r, Asks(r), Consistent(r), Grown(r), W!Note(r, W!Told(Due(r)))
  PROVE  /\ Spoken' /\ trouble' = trouble
         /\ DOMAIN named' = DOMAIN named \cup {r.key}
<1>1. W!Told(Due(r)).status = 200 /\ W!Told(Due(r)).order = Due(r)
  BY DEF W!Told
<1>2. ~W!Renamed(r, Due(r))
  <2>1. r.do = "cancel" => Due(r) = r.order
    BY DEF Due
  <2>2. r.key \in DOMAIN named => named[r.key] = Due(r)
    BY DEF Spoken, Consistent
  <2> QED
    BY <2>1, <2>2 DEF W!Renamed
<1>3. trouble' = trouble /\ named' = W!Insert(named, r.key, Due(r))
  BY <1>1, <1>2 DEF W!Note
<1>4. /\ DOMAIN named' = DOMAIN named \cup {r.key}
      /\ \A k \in DOMAIN named : named'[k] = named[k]
      /\ r.key \notin DOMAIN named => named'[r.key] = Due(r)
  BY <1>3 DEF W!Insert
<1>5. Spoken'
  BY <1>4 DEF Spoken, Grown
<1> QED
  BY <1>3, <1>4, <1>5

(* A client that learns nothing notes nothing.                             *)
LEMMA NoteUnknown ==
  ASSUME NEW r, W!Note(r, W!Unknown)
  PROVE  named' = named /\ trouble' = trouble
<1>1. W!Unknown.status = 0
  BY DEF W!Unknown
<1> QED
  BY <1>1 DEF W!Note

(* A step that serves a request or lets an old copy of it run.             *)
LEMMA ServeBase ==
  ASSUME BaseInv, load' = load, NEW c \in W!Caller, NEW fate, W!Serve(c, fate),
         Consistent(call[c]), Welcome(call[c])
  PROVE  /\ Books' /\ Traced' /\ (named' = named => Spoken')
         /\ \A q : Underway(q) => Underway(q)'
         /\ \A q \in late' : Underway(q)'
         /\ fate \in {"answered", "discarded"} => Grown(call[c])
         /\ fate \notin {"answered", "discarded"} => UNCHANGED W!rows
         /\ fate = "answered" => W!Take(c, W!Told(Due(call[c])))
         /\ fate # "answered" => W!Take(c, W!Unknown)
         /\ call[c] # NoOrder /\ Underway(call[c]) /\ Asks(call[c])
<1>1. PICK r : r = call[c]
  OBVIOUS
<1>2. r # NoOrder /\ Underway(r) /\ Asks(r) /\ r \in Plan
  BY <1>1, PlanAsks DEF W!Serve, BaseInv, Underway
<1>3. Plan' = Plan
  BY DEF Plan
<1>4. W!AnswerTo(r) = W!Told(Due(r))
  BY <1>1, <1>2, AnswerDue DEF BaseInv
<1>5. /\ IF fate \in {"answered", "discarded"} THEN W!Run(r) ELSE UNCHANGED W!rows
      /\ late' = IF fate = "late" THEN late \cup {r} ELSE late
      /\ W!Take(c, IF fate = "answered" THEN W!Told(Due(r)) ELSE W!Unknown)
  BY <1>1, <1>4 DEF W!Serve
<1>6. CASE fate \in {"answered", "discarded"}
  <2>1. Books' /\ Grown(r)
    BY <1>1, <1>2, <1>5, <1>6, RunBooks DEF BaseInv
  <2>2. Traced' /\ (named' = named => Spoken')
    BY <1>2, <2>1, TracedStays, SpokenStays DEF BaseInv
  <2>3. \A q : Underway(q) => Underway(q)'
    BY <1>3, <2>1 DEF Underway, Grown
  <2>4. \A q \in late' : Underway(q)'
    BY <1>2, <1>5, <2>3 DEF BaseInv
  <2> QED
    BY <1>1, <1>2, <1>5, <1>6, <2>1, <2>2, <2>3, <2>4
<1>7. CASE fate \notin {"answered", "discarded"}
  <2>1. UNCHANGED <<worder, wholder, record>>
    BY <1>5, <1>7 DEF W!rows
  <2>2. Books' /\ Traced' /\ (named' = named => Spoken')
    BY <1>3, <2>1 DEF BaseInv, Books, KeysKept, OrdersKept, EndedOnce, RowsFollow, Holding, Open,
                     Traced, Spoken
  <2>3. \A q : Underway(q) => Underway(q)'
    BY <1>3, <2>1 DEF Underway
  <2>4. \A q \in late' : Underway(q)'
    BY <1>2, <1>5, <2>3 DEF BaseInv
  <2> QED
    BY <1>1, <1>2, <1>5, <1>7, <2>1, <2>2, <2>3, <2>4
<1> QED
  BY <1>6, <1>7

(* An old copy of a request runs long after its client gave it up.         *)
LEMMA LateBase ==
  ASSUME BaseInv, load' = load, NEW r \in late, W!RunLate(r), Consistent(r), Welcome(r)
  PROVE  BaseInv' /\ Grown(r)
<1>1. Underway(r) /\ Asks(r) /\ r \in Plan
  BY PlanAsks DEF BaseInv, Underway
<1>2. Books' /\ Grown(r)
  BY <1>1, RunBooks DEF BaseInv, W!RunLate
<1>3. UNCHANGED <<call, named, client, trouble>> /\ late' = late \ {r}
  BY DEF W!RunLate
<1>4. Traced' /\ Spoken' /\ Calm'
  BY <1>1, <1>2, <1>3, TracedStays, SpokenStays DEF BaseInv, Calm
<1>5. \A q : Underway(q) => Underway(q)'
  BY <1>2 DEF Underway, Grown, Plan
<1> QED
  BY <1>2, <1>3, <1>4, <1>5 DEF BaseInv

(* A client sends a planned request.                                       *)
LEMMA AskBase ==
  ASSUME BaseInv, load' = load, NEW c \in W!Caller, NEW r, Underway(r), W!Ask(c, r)
  PROVE  /\ BaseInv' /\ call' = [call EXCEPT ![c] = r] /\ call[c] = NoOrder
         /\ UNCHANGED <<worder, wholder, record, late, named, trouble>>
<1>1. /\ call' = [call EXCEPT ![c] = r] /\ call[c] = NoOrder
      /\ UNCHANGED <<worder, wholder, record, late, named, trouble>>
  BY DEF W!Ask, W!rows
<1>2. /\ Books' /\ Traced' /\ Spoken' /\ Calm'
  BY <1>1 DEF BaseInv, Books, KeysKept, OrdersKept, EndedOnce, RowsFollow, Holding,
              Open, Traced, Spoken, Calm, Plan
<1>3. \A q : Underway(q) => Underway(q)'
  BY <1>1 DEF Underway, Plan
<1> QED
  BY <1>1, <1>2, <1>3 DEF BaseInv

-----------------------------------------------------------------------------
(* The arrivals of an outage.                                              *)
LEMMA OutageApart == load = "outage" => ToldApart /\ ItemsApart
<1> SUFFICES ASSUME load = "outage" PROVE ToldApart /\ ItemsApart
  OBVIOUS
<1>0. \A r \in Plan : \E op \in W!Operations :
        /\ op \in Label /\ op = <<op[1], op[2], op[3]>>
        /\ \/ op[3] = "create" /\ r = W!Create(op, op)
           \/ op[3] = "cancel" /\ r = W!Create(op, <<op[1], op[2], "prepare">>)
           \/ op[3] = "cancel" /\ r = W!Cancel(<<<<op[1], op[2], "prepare">>, 1>>, op)
  <2> SUFFICES ASSUME NEW r \in OutagePlan
               PROVE  \E op \in W!Operations :
        /\ op \in Label /\ op = <<op[1], op[2], op[3]>>
        /\ \/ op[3] = "create" /\ r = W!Create(op, op)
           \/ op[3] = "cancel" /\ r = W!Create(op, W!PrepareKey(op))
           \/ op[3] = "cancel" /\ r = W!Cancel(<<W!PrepareKey(op), 1>>, op)
    BY DEF Plan, W!PrepareKey
  <2>1. \A op \in W!Cancellations : op \in W!Operations
    BY DEF W!Cancellations
  <2>2. CASE \E op \in W!Operations \ W!Cancellations : r = W!Create(op, op)
    BY <2>2, OpShape
  <2>3. CASE \E op \in W!Cancellations : \/ r = W!Create(op, W!PrepareKey(op))
                                        \/ r = W!Cancel(<<W!PrepareKey(op), 1>>, op)
    BY <2>1, <2>3, OpShape
  <2> QED
    BY <2>2, <2>3 DEF OutagePlan
<1>1. ASSUME NEW q \in Plan, NEW r \in Plan
      PROVE  /\ q.key = r.key => q = r
             /\ Ends(q.key) /\ Ends(r.key) /\ q.order = r.order => q.key = r.key
             /\ ~Ends(q.key) /\ ~Ends(r.key) /\ q.item = r.item => q.key = r.key
  <2>1. PICK op \in Label : /\ op = <<op[1], op[2], op[3]>>
        /\ \/ op[3] = "create" /\ q = W!Create(op, op)
           \/ op[3] = "cancel" /\ q = W!Create(op, <<op[1], op[2], "prepare">>)
           \/ op[3] = "cancel" /\ q = W!Cancel(<<<<op[1], op[2], "prepare">>, 1>>, op)
    BY <1>0
  <2>2. PICK on \in Label : /\ on = <<on[1], on[2], on[3]>>
        /\ \/ on[3] = "create" /\ r = W!Create(on, on)
           \/ on[3] = "cancel" /\ r = W!Create(on, <<on[1], on[2], "prepare">>)
           \/ on[3] = "cancel" /\ r = W!Cancel(<<<<on[1], on[2], "prepare">>, 1>>, on)
    BY <1>0
  <2>3. q.key = r.key => q = r
    BY <2>1, <2>2 DEF W!Create, W!Cancel
  <2>4. Ends(q.key) /\ Ends(r.key) /\ q.order = r.order => q.key = r.key
    BY <2>1, <2>2 DEF W!Create, W!Cancel, Ends
  <2>5. ~Ends(q.key) /\ ~Ends(r.key) /\ q.item = r.item => q.key = r.key
    BY <2>1, <2>2 DEF W!Create, W!Cancel, Ends
  <2> QED
    BY <2>3, <2>4, <2>5
<1> QED
  BY <1>1 DEF ToldApart, ItemsApart

Stages == {"prepare", "load", "reconcile", "audit", "given up"}

(* The orders to cancel are made before the load begins; what is drained   *)
(* was told.                                                               *)
OutageInv ==
  /\ client \in [stage : Stages, sent : Int, drained : SUBSET Label]
  /\ client.stage \in {"load", "reconcile", "audit"}
       => \A op \in W!Cancellations : W!PrepareKey(op) \in DOMAIN named
  /\ client.drained \subseteq DOMAIN named
  /\ client.stage = "audit" => client.drained = W!Operations

(* What is submitted for an operation.                                     *)
LEMMA Submitted ==
  ASSUME BaseInv, load = "outage", NEW op \in W!Operations,
         \A o \in W!Cancellations : W!PrepareKey(o) \in DOMAIN named
  PROVE  Underway(W!Submission(op)) /\ W!Submission(op).key = op
<1>1. CASE op \notin W!Cancellations
  <2>1. W!Submission(op) = W!Create(op, op) /\ op[3] = "create"
    BY <1>1, OpShape DEF W!Submission
  <2>2. W!Create(op, op).key = op /\ ~Ends(op)
    BY <2>1 DEF W!Create, Ends
  <2>3. W!Create(op, op) \in Plan
    BY <1>1 DEF Plan, OutagePlan
  <2> QED
    BY <2>1, <2>2, <2>3 DEF Underway
<1>2. CASE op \in W!Cancellations
  <2>1. op[3] = "cancel"
    BY <1>2, OpShape
  <2>2. PICK k : k = W!PrepareKey(op)
    OBVIOUS
  <2>3. k \in DOMAIN named /\ k \in DOMAIN record /\ named[k] = record[k] /\ ~Ends(k)
    BY <1>2, <2>2 DEF BaseInv, Spoken, Ends, W!PrepareKey
  <2>4. named[k] = <<k, 1>> /\ <<k, 1>> \in DOMAIN worder
    BY <2>3 DEF BaseInv, Books, KeysKept
  <2>5. W!Submission(op) = W!Cancel(<<k, 1>>, op)
    BY <2>1, <2>2, <2>4 DEF W!Submission
  <2>6. W!Cancel(<<k, 1>>, op).key = op /\ W!Cancel(<<k, 1>>, op).order = <<k, 1>>
    BY DEF W!Cancel
  <2>7. W!Cancel(<<k, 1>>, op) \in Plan
    BY <1>2, <2>2 DEF Plan, OutagePlan
  <2> QED
    BY <2>4, <2>5, <2>6, <2>7 DEF Underway
<1> QED
  BY <1>1, <1>2

(* The runner prepares, the arrivals come, the runner reconciles.          *)
LEMMA OutageAsk ==
  ASSUME BaseInv, OutageInv, load = "outage", load' = load,
         \/ \E op \in W!Cancellations : W!Prepare(op)
         \/ \E op \in W!Operations : W!Reconcile(op)
         \/ \E i \in 1..Arrivals : W!Arrive(i)
  PROVE  BaseInv' /\ OutageInv'
<1>0. /\ W!runner \in W!Caller
      /\ \A i \in 1..Arrivals : i \in W!Caller /\ W!OperationOf(i) \in W!Operations
  BY WorkloadAssumption DEF W!runner, W!Caller, W!Operations
<1>1. PICK c \in W!Caller, r \in Plan :
        /\ Underway(r) /\ W!Ask(c, r)
        /\ \E n \in Int : client' = [client EXCEPT !.sent = n]
  <2>0. /\ client = [client EXCEPT !.sent = client.sent] /\ client.sent \in Int
        /\ \A r : Underway(r) => r \in Plan
    BY DEF OutageInv, Underway
  <2>1. ASSUME NEW op \in W!Cancellations, W!Prepare(op)
        PROVE  Underway(W!Create(op, W!PrepareKey(op)))
    <3>1. W!Create(op, W!PrepareKey(op)) \in Plan
      BY DEF Plan, OutagePlan
    <3>2. ~Ends(W!Create(op, W!PrepareKey(op)).key)
      BY DEF W!Create, W!PrepareKey, Ends
    <3> QED
      BY <3>1, <3>2 DEF Underway
  <2>2. CASE \E op \in W!Cancellations : W!Prepare(op)
    BY <1>0, <2>0, <2>1, <2>2 DEF W!Prepare
  <2>3. CASE \E op \in W!Operations : W!Reconcile(op)
    BY <1>0, <2>0, <2>3, Submitted DEF W!Reconcile, W!Staged, OutageInv
  <2>4. CASE \E i \in 1..Arrivals : W!Arrive(i)
    <3>1. PICK i \in 1..Arrivals : W!Arrive(i)
      BY <2>4
    <3>2. Underway(W!Submission(W!OperationOf(i)))
      BY <1>0, <3>1, Submitted DEF W!Arrive, W!Staged, OutageInv
    <3>3. /\ W!Ask(i, W!Submission(W!OperationOf(i))) /\ i \in Int
          /\ client' = [client EXCEPT !.sent = i]
      BY <3>1 DEF W!Arrive
    <3> QED
      BY <1>0, <2>0, <3>2, <3>3
  <2> QED
    BY <2>2, <2>3, <2>4
<1>2. BaseInv' /\ named' = named
  BY <1>1, AskBase
<1>3. /\ client' \in [stage : Stages, sent : Int, drained : SUBSET Label]
      /\ client'.stage = client.stage /\ client'.drained = client.drained
  BY <1>1 DEF OutageInv
<1> QED
  BY <1>2, <1>3 DEF OutageInv

(* A stage ends.                                                           *)
LEMMA OutageStage ==
  ASSUME BaseInv, OutageInv, load' = load, W!NextStage
  PROVE  BaseInv' /\ OutageInv'
<1>1. UNCHANGED <<worder, wholder, record, call, late, named, trouble>>
  BY DEF W!NextStage, W!rows
<1>2. BaseInv'
  BY <1>1 DEF BaseInv, Books, KeysKept, OrdersKept, EndedOnce, RowsFollow, Holding,
              Open, Traced, Spoken, Calm, Plan, Underway
<1>3. OutageInv'
  BY <1>1 DEF W!NextStage, OutageInv, Stages
<1> QED
  BY <1>2, <1>3

(* A request of the outage is served, late or in time.                     *)
LEMMA OutageServe ==
  ASSUME BaseInv, OutageInv, load = "outage", load' = load,
         \/ \E c \in W!Caller, fate \in W!Fates : W!Serve(c, fate)
         \/ \E r \in late : W!RunLate(r)
  PROVE  BaseInv' /\ OutageInv'
<1>0. ToldApart /\ ItemsApart
  BY OutageApart
<1>1. ASSUME NEW r \in late, W!RunLate(r) PROVE BaseInv' /\ OutageInv'
  <2>1. Underway(r)
    BY DEF BaseInv
  <2>2. Consistent(r) /\ Welcome(r)
    BY <1>0, <2>1, PlannedAgrees, ItemFree DEF Underway
  <2> QED
    BY <1>1, <2>2, LateBase DEF OutageInv, W!RunLate
<1>2. ASSUME NEW c \in W!Caller, NEW fate, W!Serve(c, fate) PROVE BaseInv' /\ OutageInv'
  <2>1. PICK r : r = call[c]
    OBVIOUS
  <2>2. r # NoOrder /\ Underway(r)
    BY <1>2, <2>1 DEF W!Serve, BaseInv
  <2>3. Consistent(r) /\ Welcome(r)
    BY <1>0, <2>2, PlannedAgrees, ItemFree DEF Underway
  <2>4. /\ Books' /\ Traced' /\ (named' = named => Spoken')
        /\ \A q : Underway(q) => Underway(q)'
        /\ \A q \in late' : Underway(q)'
        /\ fate = "answered" => W!Take(c, W!Told(Due(r))) /\ Grown(r)
        /\ fate # "answered" => W!Take(c, W!Unknown)
        /\ Asks(r)
    BY <1>2, <2>1, <2>3, ServeBase
  <2>5. load \notin DOMAIN W!Fixed
    BY DEF W!Fixed
  <2>6. \A a : W!Take(c, a) => W!TakeOutage(c, a)
    BY <2>5 DEF W!Take, W!TakeRound, W!TakeStep
  <2>7. \A a : W!Take(c, a) => W!Note(r, a) /\ call' = [call EXCEPT ![c] = NoOrder]
    BY <2>1, <2>6 DEF W!TakeOutage
  <2>8. Spoken' /\ Calm' /\ DOMAIN named \subseteq DOMAIN named'
        /\ (fate = "answered" => r.key \in DOMAIN named')
    <3>1. CASE fate = "answered"
      BY <2>3, <2>4, <2>7, <3>1, NoteDue DEF BaseInv, Calm
    <3>2. CASE fate # "answered"
      BY <2>4, <2>7, <3>2, NoteUnknown DEF BaseInv, Calm
    <3> QED
      BY <3>1, <3>2
  <2>9. BaseInv'
    <3>1. call' = [call EXCEPT ![c] = NoOrder]
      BY <2>4, <2>7
    <3> QED
      BY <2>4, <2>8, <3>1 DEF BaseInv
  <2>10. /\ client' \in [stage : Stages, sent : Int, drained : SUBSET Label]
         /\ client'.stage \in {client.stage, "given up"}
         /\ client'.drained = client.drained
            \/ /\ client'.drained = client.drained \cup {r.key} /\ fate = "answered"
               /\ client.stage = "reconcile"
    <3>1. PICK a : /\ W!TakeOutage(c, a)
                   /\ (a = W!Told(Due(r)) /\ fate = "answered") \/ a = W!Unknown
      BY <2>4, <2>6
    <3>2. r.key \in Label
      BY <2>4 DEF Asks, W!Create, W!Cancel
    <3>3. W!Unknown.status # 200
      BY DEF W!Unknown
    <3>4. \/ client' = client
          \/ client' = [client EXCEPT !.stage = "given up"]
          \/ /\ client' = [client EXCEPT !.drained =
                             IF client.stage = "reconcile" THEN client.drained \cup {r.key}
                             ELSE client.drained]
             /\ a.status = 200
      BY <2>1, <3>1, Zenon DEF W!TakeOutage
    <3>5. client \in [stage : Stages, sent : Int, drained : SUBSET Label]
          /\ "given up" \in Stages
      BY DEF OutageInv, Stages
    <3>6. PICK D \in SUBSET Label :
                 D = IF client.stage = "reconcile" THEN client.drained \cup {r.key}
                     ELSE client.drained
      BY <3>2, <3>5
    <3>7. CASE client' = client \/ client' = [client EXCEPT !.stage = "given up"]
      BY <3>5, <3>7
    <3>8. CASE client' = [client EXCEPT !.drained = D] /\ a.status = 200
      <4>1. client' \in [stage : Stages, sent : Int, drained : SUBSET Label]
            /\ client'.stage = client.stage /\ client'.drained = D
        BY <3>5, <3>8
      <4>2. fate = "answered"
        BY <3>1, <3>3, <3>8
      <4> QED
        BY <3>6, <4>1, <4>2
    <3> QED
      BY <3>4, <3>6, <3>7, <3>8
  <2> QED
    BY <2>8, <2>9, <2>10 DEF OutageInv
<1> QED
  BY <1>1, <1>2

-----------------------------------------------------------------------------
(* The rounds of one buyer.                                                *)
LEMMA RoundsApart == load = "rounds" => ToldApart
<1> SUFFICES ASSUME load = "rounds", NEW q \in Plan, NEW r \in Plan
             PROVE  /\ q.key = r.key => q = r
                    /\ Ends(q.key) /\ Ends(r.key) /\ q.order = r.order => q.key = r.key
  BY DEF ToldApart
<1>1. \A n \in 1..Rounds : \E g \in Nat :
        RoundRequest(n) \in {W!Create(W!Item, Made(g)), W!Cancel(<<Made(g), 1>>, Undone(g))}
  BY WorkloadAssumption, RoundShape
<1>2. Plan = {RoundRequest(n) : n \in 1..Rounds}
  BY DEF Plan
<1>3. PICK g \in Nat : q \in {W!Create(W!Item, Made(g)), W!Cancel(<<Made(g), 1>>, Undone(g))}
  BY <1>1, <1>2
<1>4. PICK h \in Nat : r \in {W!Create(W!Item, Made(h)), W!Cancel(<<Made(h), 1>>, Undone(h))}
  BY <1>1, <1>2
<1> QED
  BY <1>3, <1>4 DEF W!Create, W!Cancel, Made, Undone, Ends

(* The rounds up to this one were sent.                                    *)
Last == IF client.done < client.next - 1 THEN client.done + 1 ELSE client.done

RoundsInv ==
  /\ client \in [next : Nat, done : Nat, attempt : Int]
  /\ client.done < client.next /\ client.next <= Rounds + 1
  /\ \A m \in 1..client.done : W!KeyOf(m) \in DOMAIN named
  /\ \A k \in DOMAIN record : \E m \in 1..Last : k = W!KeyOf(m)
  /\ \A r \in late : \E m \in 1..Last : r = RoundRequest(m)
  /\ \A c \in W!Caller :
       call[c] # NoOrder => /\ c = W!runner /\ client.done < client.next - 1
                           /\ call[c] = RoundRequest(client.done + 1)
  /\ trouble = {} /\ client.done # client.next - 1
       => client.done = client.next - 2 /\ call[W!runner] # NoOrder

(* The key of a round says what it does.                                   *)
LEMMA RoundKey ==
  ASSUME NEW n \in Nat \ {0}
  PROVE  /\ RoundRequest(n).key = W!KeyOf(n)
         /\ ~Ends(W!KeyOf(n)) =>
              \E g \in Nat : 4 * g < n /\ n <= 4 * g + 2 /\ W!KeyOf(n) = Made(g)
<1>1. \A g : Ends(Undone(g))
  BY DEF Ends, Undone
<1> QED
  BY <1>1, RoundShape DEF W!Create, W!Cancel

(* The first and the third round of a group make and cancel its order.     *)
LEMMA GroupKeys ==
  ASSUME NEW g \in Nat
  PROVE  W!KeyOf(4 * g + 1) = Made(g) /\ W!KeyOf(4 * g + 3) = Undone(g)
<1>1. /\ ((4 * g + 1) - 1) \div 4 = g /\ ((4 * g + 1) - 1) % 4 < 2
      /\ ((4 * g + 3) - 1) \div 4 = g /\ ~(((4 * g + 3) - 1) % 4 < 2)
  OBVIOUS
<1> QED
  BY <1>1 DEF W!KeyOf, Made, Undone

(* The item is free when a round asks for it: every order of an earlier    *)
(* group was cancelled.                                                    *)
LEMMA RoundFree ==
  ASSUME BaseInv, RoundsInv, load = "rounds", NEW m \in 1..Last
  PROVE  Welcome(RoundRequest(m))
<1>0. /\ client.done \in Nat /\ client.next \in Nat /\ Last \in Nat
      /\ Last <= client.done + 1 /\ m \in Nat \ {0} /\ m <= Last
  BY DEF RoundsInv, Last
<1> SUFFICES ASSUME ~Ends(W!KeyOf(m)), W!KeyOf(m) \notin DOMAIN record,
                    RoundRequest(m).item \in DOMAIN wholder
             PROVE  FALSE
  BY <1>0, RoundKey DEF Welcome
<1>1. m = client.done + 1
  <2>1. m \notin 1..client.done
    BY DEF RoundsInv, BaseInv, Spoken
  <2> QED
    BY <1>0, <2>1
<1>2. PICK g \in Nat : /\ 4 * g < m /\ m <= 4 * g + 2 /\ W!KeyOf(m) = Made(g)
  BY <1>0, RoundKey
<1>3. PICK id : id = wholder[RoundRequest(m).item]
  OBVIOUS
<1>4. id \in DOMAIN worder /\ Open(id)
  BY <1>3 DEF BaseInv, Books, Holding
<1>5. PICK k \in DOMAIN record : ~Ends(k) /\ id = <<k, 1>>
  BY <1>4 DEF BaseInv, Books, OrdersKept
<1>6. PICK j \in 1..Last : k = W!KeyOf(j)
  BY <1>5 DEF RoundsInv
<1>7. PICK h \in Nat : 4 * h < j /\ j <= 4 * h + 2 /\ k = Made(h)
  <2>1. j \in Nat \ {0}
    BY <1>0, <1>6
  <2> QED
    BY <1>5, <1>6, <2>1, RoundKey
<1>8. h < g
  <2>1. h # g
    BY <1>2, <1>5, <1>7
  <2> QED
    BY <1>0, <1>1, <1>2, <1>6, <1>7, <2>1
<1>9. PICK e : e = Undone(h)
  OBVIOUS
<1>10. e \in DOMAIN record /\ Ends(e)
  <2>1. 4 * h + 3 \in 1..client.done
    BY <1>0, <1>1, <1>2, <1>8
  <2> QED
    BY <1>9, <2>1, GroupKeys DEF RoundsInv, BaseInv, Spoken, Ends, Undone
<1>11. PICK q \in Plan : q.key = e /\ record[e] = Due(q)
  BY <1>10 DEF BaseInv, Traced
<1>12. PICK n \in Nat \ {0} : q = RoundRequest(n)
  BY <1>11 DEF Plan
<1>13. PICK x \in Nat : q \in {W!Create(W!Item, Made(x)), W!Cancel(<<Made(x), 1>>, Undone(x))}
  BY <1>12, RoundShape
<1>14. q.order = id /\ Due(q) = q.order
  BY <1>5, <1>7, <1>9, <1>11, <1>13 DEF W!Create, W!Cancel, Made, Undone, Due
<1> QED
  BY <1>4, <1>10, <1>11, <1>14 DEF Open

(* A round is due: it is sent, or the one before it has not ended.         *)
LEMMA RoundSend ==
  ASSUME BaseInv, RoundsInv, load' = load, W!SendRound
  PROVE  BaseInv' /\ RoundsInv'
<1>0. /\ client.done \in Nat /\ client.next \in Nat /\ client.next <= Rounds
      /\ load = "rounds" /\ Rounds \in Nat /\ W!runner \in W!Caller
  BY WorkloadAssumption DEF W!SendRound, RoundsInv, W!runner, W!Caller
<1>1. PICK n : n = client.next
  OBVIOUS
<1>2. PICK a \in Int : client' = [client EXCEPT !.next = n + 1, !.attempt = a]
  <2>1. PICK a : a = IF call[W!runner] # NoOrder THEN client.attempt ELSE 1
    OBVIOUS
  <2>2. a \in Int
    BY <2>1 DEF RoundsInv
  <2>3. client' = [client EXCEPT !.next = n + 1, !.attempt = a]
    BY <1>1, <2>1, Zenon DEF W!SendRound
  <2> QED
    BY <2>2, <2>3
<1>3. /\ client' \in [next : Nat, done : Nat, attempt : Int]
      /\ client'.next = n + 1 /\ client'.done = client.done
  <2>1. PICK mid : mid = [client EXCEPT !.next = n + 1]
    OBVIOUS
  <2>2. mid \in [next : Nat, done : Nat, attempt : Int] /\ mid.next = n + 1
        /\ mid.done = client.done
    BY <1>0, <1>1, <2>1 DEF RoundsInv
  <2>3. client' = [mid EXCEPT !.attempt = a]
    BY <1>2, <2>1, Zenon
  <2> QED
    BY <2>2, <2>3
<1>4. CASE call[W!runner] # NoOrder \/ client.done # n - 1
  <2>1. /\ trouble' = trouble \cup {"phase"}
        /\ UNCHANGED <<worder, wholder, record, call, late, named>>
    BY <1>1, <1>4 DEF W!SendRound, W!rows
  <2>2. BaseInv'
    BY <2>1 DEF BaseInv, Books, KeysKept, OrdersKept, EndedOnce, RowsFollow, Holding,
                Open, Traced, Spoken, Calm, Plan, Underway
  <2>3. client.done < n - 1
    BY <1>0, <1>1, <1>4 DEF RoundsInv
  <2>4. Last' = Last
    BY <1>0, <1>1, <1>3, <2>3 DEF Last
  <2>5. "phase" \in trouble'
    BY <2>1
  <2> QED
    BY <1>0, <1>1, <1>3, <2>1, <2>2, <2>3, <2>4, <2>5 DEF RoundsInv
<1>5. CASE call[W!runner] = NoOrder /\ client.done = n - 1
  <2>0. n \in Nat \ {0} /\ n \in 1..Rounds
    BY <1>0, <1>1, <1>5
  <2>1. PICK r : r = RoundRequest(n)
    OBVIOUS
  <2>2. W!Ask(W!runner, r) /\ Underway(r)
    <3>1. W!Ask(W!runner, IF (n - 1) % 4 < 2 THEN W!Create(W!Item, W!KeyOf(n))
                          ELSE W!Cancel(named[W!CreateKey(n)], W!KeyOf(n)))
      BY <1>1, <1>5 DEF W!SendRound
    <3>2. r \in Plan
      BY <1>0, <2>0, <2>1 DEF Plan
    <3>3. CASE (n - 1) % 4 < 2
      <4>1. r = W!Create(W!Item, W!KeyOf(n))
        BY <2>1, <3>3 DEF RoundRequest
      <4>2. ~Ends(r.key)
        BY <3>3, <4>1 DEF W!Create, W!KeyOf, Ends
      <4> QED
        BY <3>1, <3>2, <3>3, <4>1, <4>2 DEF Underway
    <3>4. CASE ~((n - 1) % 4 < 2)
      <4>1. r = W!Cancel(<<W!CreateKey(n), 1>>, W!KeyOf(n))
        BY <2>1, <3>4 DEF RoundRequest
      <4>2. PICK g \in Nat : 4 * g + 2 < n /\ W!CreateKey(n) = Made(g)
        <5>1. \A g : r # W!Create(W!Item, Made(g))
          BY <4>1 DEF W!Create, W!Cancel
        <5> QED
          BY <2>0, <2>1, <5>1, RoundShape
      <4>3. Made(g) \in DOMAIN named
        <5>1. 4 * g + 1 \in 1..client.done
          BY <1>0, <1>5, <2>0, <4>2
        <5> QED
          BY <5>1, GroupKeys DEF RoundsInv
      <4>4. named[Made(g)] = <<Made(g), 1>> /\ <<Made(g), 1>> \in DOMAIN worder
        <5>1. ~Ends(Made(g))
          BY DEF Ends, Made
        <5> QED
          BY <4>3, <5>1 DEF BaseInv, Spoken, Books, KeysKept
      <4> QED
        BY <3>1, <3>2, <3>4, <4>1, <4>2, <4>4 DEF Underway, W!Cancel
    <3> QED
      BY <3>3, <3>4
  <2>3. /\ BaseInv' /\ call' = [call EXCEPT ![W!runner] = r] /\ call[W!runner] = NoOrder
        /\ UNCHANGED <<record, late, named, trouble>>
    BY <1>0, <2>2, AskBase
  <2>4. Last = client.done /\ Last' = client.done + 1 /\ client.done + 1 = n
    BY <1>0, <1>1, <1>3, <1>5 DEF Last
  <2>5. \A m \in 1..Last : m \in 1..Last'
    BY <1>0, <2>4
  <2>6. \A c \in W!Caller : call'[c] # NoOrder => c = W!runner /\ call'[c] = r
    BY <2>3 DEF RoundsInv
  <2>7. call'[W!runner] = r /\ r # NoOrder
    <3>1. Asks(r)
      BY <1>0, <2>2, PlanAsks DEF Underway, BaseInv
    <3>2. call'[W!runner] = r
      BY <1>0, <2>3 DEF BaseInv
    <3> QED
      BY <3>1, <3>2, Some
  <2> QED
    BY <1>0, <1>1, <1>3, <1>5, <2>0, <2>1, <2>3, <2>4, <2>5, <2>6, <2>7 DEF RoundsInv
<1> QED
  BY <1>0, <1>1, <1>4, <1>5

(* A round that was sent may be served, late or in time.                   *)
LEMMA RoundPlanned ==
  ASSUME BaseInv, RoundsInv, load = "rounds", NEW r, Underway(r), NEW m \in 1..Last,
         r = RoundRequest(m)
  PROVE  Consistent(r) /\ Welcome(r) /\ r.key = W!KeyOf(m)
<1>1. Last \in Int
  BY DEF Last, RoundsInv
<1>2. m \in Nat \ {0}
  BY <1>1
<1> QED
  BY <1>2, RoundsApart, PlannedAgrees, RoundFree, RoundKey

(* A round is answered, tried again or given up; an old copy runs.         *)
LEMMA RoundServe ==
  ASSUME BaseInv, RoundsInv, load = "rounds", load' = load,
         \/ \E c \in W!Caller, fate \in W!Fates : W!Serve(c, fate)
         \/ \E r \in late : W!RunLate(r)
  PROVE  BaseInv' /\ RoundsInv'
<1>0. /\ client.done \in Nat /\ client.next \in Nat /\ Last \in Nat
      /\ W!runner \in W!Caller
  BY WorkloadAssumption DEF RoundsInv, Last, W!runner, W!Caller
<1>1. ASSUME NEW r \in late, W!RunLate(r) PROVE BaseInv' /\ RoundsInv'
  <2>1. Underway(r)
    BY DEF BaseInv
  <2>2. PICK m \in 1..Last : r = RoundRequest(m)
    BY DEF RoundsInv
  <2>3. Consistent(r) /\ Welcome(r) /\ r.key = W!KeyOf(m)
    BY <2>1, <2>2, RoundPlanned
  <2>4. BaseInv' /\ Grown(r)
    BY <1>1, <2>3, LateBase
  <2>5. UNCHANGED <<call, named, client, trouble>> /\ late' \subseteq late
    BY <1>1 DEF W!RunLate
  <2>6. Last' = Last
    BY <2>5 DEF Last
  <2>7. \A k \in DOMAIN record' : \E n \in 1..Last : k = W!KeyOf(n)
    BY <2>2, <2>3, <2>4 DEF RoundsInv, Grown
  <2> QED
    BY <2>4, <2>5, <2>6, <2>7 DEF RoundsInv
<1>2. ASSUME NEW c \in W!Caller, NEW fate, W!Serve(c, fate) PROVE BaseInv' /\ RoundsInv'
  <2>1. PICK r : r = call[c]
    OBVIOUS
  <2>2. /\ r # NoOrder /\ Underway(r) /\ c = W!runner /\ client.done < client.next - 1
        /\ r = RoundRequest(client.done + 1)
    BY <1>2, <2>1 DEF W!Serve, BaseInv, RoundsInv
  <2>3. Last = client.done + 1 /\ client.done + 1 \in 1..Last
    BY <1>0, <2>2 DEF Last
  <2>4. Consistent(r) /\ Welcome(r) /\ r.key = W!KeyOf(Last)
    BY <2>2, <2>3, RoundPlanned
  <2>5. /\ Books' /\ Traced' /\ (named' = named => Spoken')
        /\ \A q : Underway(q) => Underway(q)'
        /\ \A q \in late' : Underway(q)'
        /\ fate \in {"answered", "discarded"} => Grown(r)
        /\ fate \notin {"answered", "discarded"} => UNCHANGED W!rows
        /\ fate = "answered" => W!Take(c, W!Told(Due(r)))
        /\ fate # "answered" => W!Take(c, W!Unknown)
        /\ Asks(r)
    BY <1>2, <2>1, <2>4, ServeBase
  <2>6. \A a : W!Take(c, a) => W!TakeRound(c, a)
    <3>1. load \notin DOMAIN W!Fixed
      BY DEF W!Fixed
    <3> QED
      BY <3>1 DEF W!Take, W!TakeOutage, W!TakeStep
  <2>7. W!Told(Due(r)) # W!Unknown /\ W!Told(Due(r)).status = 200 /\ W!Unknown.status = 0
    BY DEF W!Told, W!Unknown
  <2>8. \A k \in DOMAIN record' : \E n \in 1..Last : k = W!KeyOf(n)
    <3>1. CASE fate \in {"answered", "discarded"}
      BY <2>3, <2>4, <2>5, <3>1 DEF RoundsInv, Grown
    <3>2. CASE fate \notin {"answered", "discarded"}
      BY <2>5, <3>2 DEF RoundsInv, W!rows
    <3> QED
      BY <3>1, <3>2
  <2>9. \A q \in late' : \E n \in 1..Last : q = RoundRequest(n)
    <3>1. late' \subseteq late \cup {r}
      BY <1>2, <2>1 DEF W!Serve
    <3> QED
      BY <2>2, <2>3, <3>1 DEF RoundsInv
  <2>10. client \in [next : Nat, done : Nat, attempt : Int]
    BY DEF RoundsInv
  <2>11. CASE fate = "answered"
    <3>1. /\ call' = [call EXCEPT ![c] = NoOrder]
          /\ client' = [client EXCEPT !.done = client.done + 1]
          /\ W!Note(r, W!Told(Due(r)))
      BY <2>1, <2>5, <2>6, <2>7, <2>11 DEF W!TakeRound
    <3>2. Spoken' /\ trouble' = trouble /\ DOMAIN named' = DOMAIN named \cup {r.key}
      BY <2>4, <2>5, <2>11, <3>1, NoteDue DEF BaseInv
    <3>3. BaseInv'
      BY <2>5, <3>1, <3>2 DEF BaseInv, Calm
    <3>4. /\ client' \in [next : Nat, done : Nat, attempt : Int]
          /\ client'.done = client.done + 1 /\ client'.next = client.next
      BY <1>0, <2>10, <3>1
    <3>5. Last' \in Nat /\ \A m \in 1..Last : m \in 1..Last'
      BY <1>0, <2>2, <2>3, <3>4 DEF Last
    <3>6. \A m \in 1..client'.done : W!KeyOf(m) \in DOMAIN named'
      <4>1. \A m \in 1..client'.done : m = Last \/ m \in 1..client.done
        BY <1>0, <2>3, <3>4
      <4> QED
        BY <2>4, <3>2, <4>1 DEF RoundsInv
    <3>7. \A d \in W!Caller : call'[d] = NoOrder
      BY <1>0, <2>2, <3>1 DEF RoundsInv, BaseInv
    <3>8. trouble' = {} => client'.done = client'.next - 1
      BY <1>0, <2>2, <3>2, <3>4 DEF RoundsInv
    <3> QED
      BY <1>0, <2>2, <2>8, <2>9, <3>3, <3>4, <3>5, <3>6, <3>7, <3>8 DEF RoundsInv
  <2>12. CASE fate # "answered"
    <3>0. W!TakeRound(c, W!Unknown)
      BY <2>5, <2>6, <2>12
    <3>1. CASE client.attempt < MaxTries
      <4>1. /\ client' = [client EXCEPT !.attempt = client.attempt + 1]
            /\ UNCHANGED <<call, named, trouble>>
        BY <3>0, <3>1 DEF W!TakeRound
      <4>2. /\ client' \in [next : Nat, done : Nat, attempt : Int]
            /\ client'.done = client.done /\ client'.next = client.next
        BY <2>10, <4>1
      <4>3. BaseInv'
        BY <2>5, <4>1 DEF BaseInv, Calm
      <4>4. Last' = Last
        BY <4>2 DEF Last
      <4> QED
        BY <2>8, <2>9, <4>1, <4>2, <4>3, <4>4 DEF RoundsInv
    <3>2. CASE ~(client.attempt < MaxTries)
      <4>1. /\ client' = [client EXCEPT !.done = client.done]
            /\ call' = [call EXCEPT ![c] = NoOrder]
            /\ named' = named /\ trouble' = trouble \cup {"exhausted"}
        BY <2>7, <3>0, <3>2 DEF W!TakeRound
      <4>2. /\ client' \in [next : Nat, done : Nat, attempt : Int]
            /\ client'.done = client.done /\ client'.next = client.next
        BY <2>10, <4>1
      <4>3. BaseInv'
        BY <2>5, <4>1 DEF BaseInv, Calm
      <4>4. Last' = Last /\ "exhausted" \in trouble'
        BY <4>1, <4>2 DEF Last
      <4>5. \A d \in W!Caller : call'[d] = NoOrder
        BY <1>0, <2>2, <4>1 DEF RoundsInv, BaseInv
      <4> QED
        BY <2>8, <2>9, <4>1, <4>2, <4>3, <4>4, <4>5 DEF RoundsInv
    <3> QED
      BY <3>1, <3>2
  <2> QED
    BY <2>11, <2>12
<1> QED
  BY <1>1, <1>2

-----------------------------------------------------------------------------
(* Scripts of one sale at a time.                                          *)
SalesInv ==
  /\ client \in [step : 0..Len(W!Fixed[load])]
  /\ late = {} /\ DOMAIN record = DOMAIN named
  /\ \A c \in W!Caller : call[c] # NoOrder => client.step # 0

Sales == load \in {"ingress", "gateway"}

(* The steps of these scripts.                                             *)
LEMMA SaleSteps ==
  ASSUME Sales
  PROVE  /\ load \in DOMAIN W!Fixed /\ Len(W!Fixed[load]) \in Nat
         /\ \A s \in 1..Len(W!Fixed[load]) :
              /\ W!Fixed[load][s].fate \in {"answered", "discarded", "unreached"}
              /\ \E n \in 1..4 : W!Fixed[load][s].requests = <<W!Sale(n)>>
<1>1. PICK t : t = W!Fixed[load]
  OBVIOUS
<1>2. \A f, q : W!Step(f, q).fate = f /\ W!Step(f, q).requests = q
  BY DEF W!Step
<1>3. CASE load = "ingress"
  <2>1. t = W!Ingress
    BY <1>1, <1>3 DEF W!Fixed
  <2>2. Len(t) = 8
    BY <2>1 DEF W!Ingress
  <2>3. /\ t[1] = W!Step("answered", <<W!Sale(1)>>) /\ t[2] = W!Step("answered", <<W!Sale(1)>>)
        /\ t[3] = W!Step("discarded", <<W!Sale(2)>>) /\ t[4] = W!Step("answered", <<W!Sale(2)>>)
        /\ t[5] = W!Step("answered", <<W!Sale(2)>>) /\ t[6] = W!Step("discarded", <<W!Sale(3)>>)
        /\ t[7] = W!Step("answered", <<W!Sale(3)>>) /\ t[8] = W!Step("answered", <<W!Sale(3)>>)
    BY <2>1 DEF W!Ingress, W!Give
  <2>4. \A s \in 1..8 : s = 1 \/ s = 2 \/ s = 3 \/ s = 4 \/ s = 5 \/ s = 6 \/ s = 7 \/ s = 8
    OBVIOUS
  <2>5. ASSUME NEW s \in 1..8 PROVE t[s].fate \in {"answered", "discarded", "unreached"}
    BY <1>2, <2>3, <2>4
  <2>6. ASSUME NEW s \in 1..8 PROVE \E n \in 1..4 : t[s].requests = <<W!Sale(n)>>
    <3>1. \/ t[s].requests = <<W!Sale(1)>> \/ t[s].requests = <<W!Sale(2)>>
          \/ t[s].requests = <<W!Sale(3)>> \/ t[s].requests = <<W!Sale(4)>>
      BY <1>2, <2>3, <2>4
    <3> QED
      BY <3>1
  <2>7. load \in DOMAIN W!Fixed
    BY <1>3 DEF W!Fixed
  <2>8. Len(t) \in Nat
    BY <2>2
  <2>9. \A s \in 1..Len(t) : s \in 1..8
    BY <2>2
  <2> QED
    BY <1>1, <2>5, <2>6, <2>7, <2>8, <2>9, Zenon
<1>4. CASE load = "gateway"
  <2>1. t = W!Gateway
    BY <1>1, <1>4 DEF W!Fixed
  <2>2. Len(t) = 10
    BY <2>1 DEF W!Gateway
  <2>3. /\ t[1] = W!Step("unreached", <<W!Sale(1)>>) /\ t[2] = W!Step("answered", <<W!Sale(1)>>)
        /\ t[3] = W!Step("answered", <<W!Sale(1)>>) /\ t[4] = W!Step("answered", <<W!Sale(1)>>)
        /\ t[5] = W!Step("answered", <<W!Sale(2)>>) /\ t[6] = W!Step("unreached", <<W!Sale(3)>>)
        /\ t[7] = W!Step("answered", <<W!Sale(3)>>) /\ t[8] = W!Step("answered", <<W!Sale(3)>>)
        /\ t[9] = W!Step("answered", <<W!Sale(3)>>) /\ t[10] = W!Step("answered", <<W!Sale(4)>>)
    BY <2>1 DEF W!Gateway, W!Give
  <2>4. \A s \in 1..10 : s = 1 \/ s = 2 \/ s = 3 \/ s = 4 \/ s = 5 \/ s = 6 \/ s = 7 \/ s = 8
                        \/ s = 9 \/ s = 10
    OBVIOUS
  <2>5. ASSUME NEW s \in 1..10 PROVE t[s].fate \in {"answered", "discarded", "unreached"}
    BY <1>2, <2>3, <2>4
  <2>6. ASSUME NEW s \in 1..10 PROVE \E n \in 1..4 : t[s].requests = <<W!Sale(n)>>
    <3>1. \/ t[s].requests = <<W!Sale(1)>> \/ t[s].requests = <<W!Sale(2)>>
          \/ t[s].requests = <<W!Sale(3)>> \/ t[s].requests = <<W!Sale(4)>>
      BY <1>2, <2>3, <2>4
    <3> QED
      BY <3>1
  <2>7. load \in DOMAIN W!Fixed
    BY <1>4 DEF W!Fixed
  <2>8. Len(t) \in Nat
    BY <2>2
  <2>9. \A s \in 1..Len(t) : s \in 1..10
    BY <2>2
  <2> QED
    BY <1>1, <2>5, <2>6, <2>7, <2>8, <2>9, Zenon
<1> QED
  BY <1>3, <1>4 DEF Sales

(* Each of their sales has a key and an item of its own.                   *)
LEMMA SalesApart == Sales => ToldApart /\ ItemsApart
<1> SUFFICES ASSUME Sales, NEW q \in Plan, NEW r \in Plan
             PROVE  /\ q.key = r.key => q = r
                    /\ ~Ends(q.key) /\ ~Ends(r.key)
                    /\ q.item = r.item => q.key = r.key
  BY DEF ToldApart, ItemsApart
<1>1. Plan = SalePlan
  BY DEF Sales, Plan
<1>2. PICK m \in 1..4 : q = W!Sale(m)
  BY <1>1 DEF SalePlan
<1>3. PICK n \in 1..4 : r = W!Sale(n)
  BY <1>1 DEF SalePlan
<1> QED
  BY <1>2, <1>3 DEF W!Sale, W!Create, Ends

(* A step of a script asks and leaves the rows alone.                      *)
LEMMA SendBase ==
  ASSUME BaseInv, load' = load, UNCHANGED <<W!rows, late, named, trouble>>,
         call' = [c \in W!Caller |-> call'[c]],
         \A c \in W!Caller : call'[c] # NoOrder => Underway(call'[c])
  PROVE  BaseInv'
<1>1. UNCHANGED <<worder, wholder, record, late, named, trouble>>
  BY DEF W!rows
<1>2. /\ Books' /\ Traced' /\ Spoken' /\ Calm'
  BY <1>1 DEF BaseInv, Books, KeysKept, OrdersKept, EndedOnce, RowsFollow, Holding,
              Open, Traced, Spoken, Calm, Plan
<1>3. \A q : Underway(q) => Underway(q)'
  BY <1>1 DEF Underway, Plan
<1> QED
  BY <1>1, <1>2, <1>3 DEF BaseInv

(* A script sends its next sale.                                           *)
LEMMA SalesSend ==
  ASSUME BaseInv, SalesInv, Sales, load' = load, W!SendStep
  PROVE  BaseInv' /\ SalesInv'
<1>1. PICK t : t = W!Fixed[load] /\ t' = W!Fixed[load]' /\ t' = t
  OBVIOUS
<1>2. client.step \in 0..Len(t) /\ Len(t) \in Nat /\ client.step < Len(t)
  BY <1>1, SaleSteps DEF SalesInv, W!SendStep
<1>3. client' \in [step : 0..Len(t)] /\ client'.step = client.step + 1
  BY <1>1, <1>2 DEF SalesInv, W!SendStep
<1>4. PICK n \in 1..4 : t[client.step + 1].requests = <<W!Sale(n)>>
  <2>1. client.step + 1 \in 1..Len(t)
    BY <1>2
  <2> QED
    BY <1>1, <2>1, SaleSteps
<1>5. W!Resolved(W!Sale(n)) = W!Sale(n)
  BY DEF W!Resolved, W!Sale, W!Create
<1>6. PICK wanted : wanted = <<W!Sale(n)>>
  OBVIOUS
<1>7. Len(wanted) = 1 /\ wanted[1] = W!Sale(n)
  BY <1>6
<1>8. call' = [c \in W!Caller |->
                IF c + 1 <= Len(wanted) THEN W!Resolved(wanted[c + 1]) ELSE NoOrder]
  BY <1>1, <1>4, <1>6 DEF W!SendStep
<1>9. \A c \in W!Caller : c \in Nat
  BY WorkloadAssumption DEF W!Caller, W!runner
<1>10. \A c \in W!Caller : call'[c] # NoOrder => call'[c] = W!Sale(n)
  <2> SUFFICES ASSUME NEW c \in W!Caller PROVE call'[c] \in {NoOrder, W!Sale(n)}
    OBVIOUS
  <2>1. CASE c = 0
    BY <1>5, <1>7, <1>8, <2>1
  <2>2. CASE c # 0
    <3>1. ~(c + 1 <= 1)
      BY <1>9, <2>2
    <3> QED
      BY <1>7, <1>8, <3>1
  <2> QED
    BY <2>1, <2>2
<1>11. Underway(W!Sale(n))
  BY DEF Underway, Sales, Plan, SalePlan, Ends, W!Sale, W!Create
<1>12. call' = [c \in W!Caller |-> call'[c]]
  BY <1>8
<1>13. BaseInv'
  BY <1>10, <1>11, <1>12, SendBase DEF W!SendStep
<1>14. UNCHANGED <<record, late, named>>
  BY DEF W!SendStep, W!rows
<1> QED
  BY <1>1, <1>2, <1>3, <1>13, <1>14 DEF SalesInv

(* A sale is answered, its answer is dropped, or it never arrives.         *)
LEMMA SalesServe ==
  ASSUME BaseInv, SalesInv, Sales, load' = load,
         \/ \E c \in W!Caller, fate \in W!Fates : W!Serve(c, fate)
         \/ \E r \in late : W!RunLate(r)
  PROVE  BaseInv' /\ SalesInv'
<1>1. PICK c \in W!Caller, fate \in W!Fates : W!Serve(c, fate)
  BY DEF SalesInv
<1>2. PICK r : r = call[c]
  OBVIOUS
<1>3. r # NoOrder /\ Underway(r) /\ client.step # 0
  BY <1>1, <1>2 DEF W!Serve, BaseInv, SalesInv
<1>4. fate = W!StepNow.fate /\ fate \in {"answered", "discarded", "unreached"}
  <2>1. fate = W!StepNow.fate
    BY <1>1, SaleSteps DEF W!Fates
  <2>2. client.step \in 1..Len(W!Fixed[load])
    BY <1>3, SaleSteps DEF SalesInv
  <2> QED
    BY <2>1, <2>2, SaleSteps DEF W!StepNow
<1>5. Consistent(r) /\ Welcome(r)
  BY <1>3, SalesApart, PlannedAgrees, ItemFree DEF Underway
<1>6. /\ Books' /\ Traced' /\ (named' = named => Spoken')
      /\ \A q : Underway(q) => Underway(q)'
      /\ \A q \in late' : Underway(q)'
      /\ fate \in {"answered", "discarded"} => Grown(r)
      /\ fate \notin {"answered", "discarded"} => UNCHANGED W!rows
      /\ fate = "answered" => W!Take(c, W!Told(Due(r)))
      /\ fate # "answered" => W!Take(c, W!Unknown)
      /\ Asks(r)
  BY <1>1, <1>2, <1>5, ServeBase
<1>7. \A a : W!Take(c, a) => W!TakeStep(c, a)
  BY DEF Sales, W!Take, W!TakeOutage, W!TakeRound
<1>8. W!Told(Due(r)) # W!Refused /\ W!Unknown # W!Refused
  BY DEF W!Told, W!Unknown, W!Refused
<1>9. \A a : a # W!Refused /\ W!Take(c, a) =>
        /\ call' = [call EXCEPT ![c] = NoOrder] /\ client' = client
        /\ W!Note(r, IF fate = "discarded" THEN W!AnswerTo(r) ELSE a)
  BY <1>2, <1>4, <1>7 DEF W!TakeStep
<1>10. W!AnswerTo(r) = W!Told(Due(r))
  BY <1>5, <1>6, AnswerDue DEF BaseInv
<1>11. call' = [call EXCEPT ![c] = NoOrder] /\ client' = client /\ late' = late
  BY <1>1, <1>4, <1>6, <1>8, <1>9 DEF W!Serve
<1>12. Spoken' /\ Calm' /\ DOMAIN record' = DOMAIN named'
  <2>1. CASE fate \in {"answered", "discarded"}
    <3>1. W!Note(r, W!Told(Due(r)))
      BY <1>4, <1>6, <1>8, <1>9, <1>10, <2>1
    <3>2. Spoken' /\ trouble' = trouble /\ DOMAIN named' = DOMAIN named \cup {r.key}
      BY <1>5, <1>6, <2>1, <3>1, NoteDue DEF BaseInv
    <3> QED
      BY <1>6, <2>1, <3>2 DEF BaseInv, Calm, SalesInv, Grown
  <2>2. CASE fate \notin {"answered", "discarded"}
    <3>1. W!Note(r, W!Unknown)
      BY <1>6, <1>8, <1>9, <2>2
    <3>2. named' = named /\ trouble' = trouble
      BY <3>1, NoteUnknown
    <3> QED
      BY <1>6, <2>2, <3>2 DEF BaseInv, Calm, SalesInv, W!rows
  <2> QED
    BY <2>1, <2>2
<1>13. BaseInv'
  BY <1>6, <1>11, <1>12 DEF BaseInv
<1> QED
  BY <1>11, <1>12, <1>13 DEF SalesInv, BaseInv

-----------------------------------------------------------------------------
(* The race of two API processes: what a step waits for, and the keys one  *)
(* of which it leaves on record.                                           *)
Rival(n) == W!Create(<<1, 0, "item">>, Made(n))
Waits(wanted, keys) ==
  /\ \A c \in W!Caller : call[c] # NoOrder => call[c] \in wanted
  /\ call[W!runner] = NoOrder => \E k \in keys : k \in DOMAIN record

RaceInv ==
  /\ client \in [step : 0..4] /\ late = {} /\ DOMAIN record = DOMAIN named
  /\ client.step = 0 => DOMAIN record = {} /\ \A c \in W!Caller : call[c] = NoOrder
  /\ client.step = 1 =>
       DOMAIN record \subseteq {Made(1)} /\ Waits({W!Sale(1)}, {Made(1)})
  /\ client.step = 2 =>
       /\ Made(1) \in DOMAIN record /\ DOMAIN record \subseteq {Made(1), Undone(1)}
       /\ Waits({W!Cancel(<<Made(1), 1>>, Undone(1))}, {Undone(1)})
  /\ client.step = 3 =>
       /\ {Made(1), Undone(1)} \subseteq DOMAIN record
       /\ \E n \in {2, 3} : DOMAIN record \subseteq {Made(1), Undone(1), Made(n)}
       /\ Waits({Rival(2), Rival(3)}, {Made(2), Made(3)})
  /\ client.step = 4 => \E n \in {2, 3} :
       /\ {Made(1), Undone(1), Made(n)} \subseteq DOMAIN record
       /\ DOMAIN record \subseteq {Made(1), Undone(1), Made(n), Undone(2)}
       /\ Waits({W!Cancel(<<Made(n), 1>>, Undone(2))}, {Undone(2)})

(* The steps of the race.                                                  *)
LEMMA RaceSteps ==
  ASSUME load = "competition"
  PROVE  /\ load \in DOMAIN W!Fixed /\ Len(W!Fixed[load]) = 4
         /\ \A s \in 1..4 : W!Fixed[load][s].fate = "answered"
         /\ W!Fixed[load][1].requests = <<W!Sale(1), W!Sale(1)>>
         /\ W!Fixed[load][2].requests = <<W!Undo({Made(1)}, Undone(1))>>
         /\ W!Fixed[load][3].requests = <<Rival(2), Rival(3)>>
         /\ W!Fixed[load][4].requests = <<W!Undo({Made(2), Made(3)}, Undone(2))>>
<1>1. PICK t : t = W!Fixed[load]
  OBVIOUS
<1>2. \A f, q : W!Step(f, q).fate = f /\ W!Step(f, q).requests = q
  BY DEF W!Step
<1>3. t = W!Competition
  BY <1>1 DEF W!Fixed
<1>4. Len(t) = 4
  BY <1>3 DEF W!Competition
<1>5. W!Rivals = {Made(2), Made(3)}
  BY DEF W!Rivals, Made
<1>6. /\ t[1] = W!Step("answered", <<W!Sale(1), W!Sale(1)>>)
      /\ t[2] = W!Step("answered", <<W!Undo({Made(1)}, Undone(1))>>)
      /\ t[3] = W!Step("answered", <<Rival(2), Rival(3)>>)
      /\ t[4] = W!Step("answered", <<W!Undo({Made(2), Made(3)}, Undone(2))>>)
  BY <1>3, <1>5 DEF W!Competition, W!Give, Rival, Made, Undone
<1>7. \A s \in 1..4 : s = 1 \/ s = 2 \/ s = 3 \/ s = 4
  OBVIOUS
<1>8. load \in DOMAIN W!Fixed
  BY DEF W!Fixed
<1>9. \A s \in 1..4 : t[s].fate = "answered"
  BY <1>2, <1>6, <1>7
<1>10. /\ t[1].requests = <<W!Sale(1), W!Sale(1)>>
       /\ t[2].requests = <<W!Undo({Made(1)}, Undone(1))>>
       /\ t[3].requests = <<Rival(2), Rival(3)>>
       /\ t[4].requests = <<W!Undo({Made(2), Made(3)}, Undone(2))>>
  BY <1>2, <1>6
<1> QED
  BY <1>1, <1>4, <1>8, <1>9, <1>10, Zenon

(* Which record of a cancellation the race can have.                       *)
LEMMA RaceRecords ==
  ASSUME BaseInv, load = "competition"
  PROVE  /\ Undone(1) \in DOMAIN record => record[Undone(1)] = <<Made(1), 1>>
         /\ Undone(2) \in DOMAIN record =>
              \E n \in {2, 3} : record[Undone(2)] = <<Made(n), 1>> /\ Made(n) \in DOMAIN record
         /\ \A n \in {1, 2, 3} : Made(n) \in DOMAIN record =>
              /\ record[Made(n)] = <<Made(n), 1>>
              /\ worder[<<Made(n), 1>>].item = <<1, 0, "item">>
<1>1. Plan = RacePlan
  BY DEF Plan
<1>2. ASSUME NEW q \in Plan
      PROVE  \/ \E n \in {1, 2, 3} : q = Rival(n)
             \/ q = W!Cancel(<<Made(1), 1>>, Undone(1))
             \/ \E n \in {2, 3} : q = W!Cancel(<<Made(n), 1>>, Undone(2))
  BY <1>1 DEF RacePlan, Rival, Made, W!Sale
<1>3. ASSUME NEW n \in {1, 2, 3}, Made(n) \in DOMAIN record
      PROVE  /\ record[Made(n)] = <<Made(n), 1>>
             /\ worder[<<Made(n), 1>>].item = <<1, 0, "item">>
  <2>1. ~Ends(Made(n))
    BY DEF Ends, Made
  <2>2. PICK q \in Plan : q.key = Made(n) /\ worder[record[Made(n)]].item = q.item
    BY <1>3, <2>1 DEF BaseInv, Traced
  <2>3. \E m \in {1, 2, 3} : q = Rival(m)
    BY <1>2, <2>2 DEF W!Cancel, Made, Undone
  <2> QED
    BY <1>3, <2>1, <2>2, <2>3 DEF BaseInv, Books, KeysKept, Rival, W!Create
<1>4. ASSUME NEW j \in {1, 2}, Undone(j) \in DOMAIN record
      PROVE  \/ j = 1 /\ record[Undone(j)] = <<Made(1), 1>>
             \/ j = 2 /\ \E n \in {2, 3} : record[Undone(j)] = <<Made(n), 1>>
  <2>1. PICK q \in Plan : q.key = Undone(j) /\ record[Undone(j)] = Due(q)
    BY <1>4 DEF BaseInv, Traced
  <2> QED
    BY <1>2, <2>1 DEF W!Cancel, W!Create, Rival, Made, Undone, Due
<1>5. ASSUME NEW n, NEW k \in DOMAIN record, record[k] = <<Made(n), 1>>
      PROVE  Made(n) \in DOMAIN record
  BY <1>5 DEF BaseInv, Books, KeysKept, OrdersKept
<1>6. Undone(2) \in DOMAIN record =>
        \E n \in {2, 3} : record[Undone(2)] = <<Made(n), 1>> /\ Made(n) \in DOMAIN record
  BY <1>4, <1>5
<1>7. Undone(1) \in DOMAIN record => record[Undone(1)] = <<Made(1), 1>>
  BY <1>4
<1> QED
  BY <1>3, <1>6, <1>7

(* A rival may be served while no other has the item.                      *)
LEMMA RaceRival ==
  ASSUME BaseInv, load = "competition", NEW n \in {1, 2, 3}
  PROVE  /\ Consistent(Rival(n))
         /\ (\A k \in DOMAIN record : ~Ends(k) => k = Made(n) \/ (n # 1 /\ k = Made(1)))
              /\ (n # 1 => Undone(1) \in DOMAIN record)
              => Welcome(Rival(n))
<1>0. Rival(n).key = Made(n) /\ ~Ends(Made(n)) /\ Rival(n).item = <<1, 0, "item">>
      /\ Due(Rival(n)) = <<Made(n), 1>>
  BY DEF Rival, W!Create, Ends, Made, Due
<1>1. Consistent(Rival(n))
  BY <1>0, RaceRecords DEF Consistent
<1>2. ASSUME \A k \in DOMAIN record : ~Ends(k) => k = Made(n) \/ (n # 1 /\ k = Made(1)),
             n # 1 => Undone(1) \in DOMAIN record,
             Made(n) \notin DOMAIN record, <<1, 0, "item">> \in DOMAIN wholder
      PROVE  FALSE
  <2>1. PICK id : id = wholder[<<1, 0, "item">>]
    OBVIOUS
  <2>2. id \in DOMAIN worder /\ Open(id)
    BY <1>2, <2>1 DEF BaseInv, Books, Holding
  <2>3. PICK k \in DOMAIN record : ~Ends(k) /\ id = <<k, 1>>
    BY <2>2 DEF BaseInv, Books, OrdersKept
  <2>4. k = Made(1) /\ n # 1
    BY <1>2, <2>3
  <2>5. Undone(1) \in DOMAIN record /\ record[Undone(1)] = id /\ Ends(Undone(1))
    BY <1>2, <2>3, <2>4, RaceRecords DEF Ends, Undone
  <2> QED
    BY <2>2, <2>5 DEF Open
<1> QED
  BY <1>0, <1>1, <1>2 DEF Welcome

(* What was made may be cancelled.                                         *)
LEMMA RaceCancel ==
  ASSUME BaseInv, load = "competition", NEW n \in {1, 2, 3}, NEW j \in {1, 2},
         j = 1 <=> n = 1, Made(n) \in DOMAIN record,
         \A m \in {2, 3} : Made(m) \in DOMAIN record => m = n,
         \A k \in DOMAIN record : Ends(k) => k \in {Undone(1), Undone(2)}
  PROVE  /\ Consistent(W!Cancel(<<Made(n), 1>>, Undone(j)))
         /\ Welcome(W!Cancel(<<Made(n), 1>>, Undone(j)))
<1>1. PICK r : r = W!Cancel(<<Made(n), 1>>, Undone(j))
  OBVIOUS
<1>2. /\ r.key = Undone(j) /\ r.order = <<Made(n), 1>> /\ Due(r) = r.order /\ Ends(Undone(j))
  BY <1>1 DEF W!Cancel, Due, Ends, Undone
<1>3. r.order \in DOMAIN worder
  BY <1>2, RaceRecords DEF BaseInv, Books, KeysKept
<1>4. Undone(j) \in DOMAIN record => record[Undone(j)] = <<Made(n), 1>>
  BY RaceRecords
<1>5. ASSUME NEW k \in DOMAIN record, Ends(k), record[k] = <<Made(n), 1>> PROVE k = Undone(j)
  <2>1. \A m \in {1, 2, 3} : <<Made(m), 1>> = <<Made(n), 1>> => m = n
    BY DEF Made
  <2> QED
    BY <1>5, <2>1, RaceRecords
<1> QED
  BY <1>1, <1>2, <1>3, <1>4, <1>5 DEF Consistent, Welcome

(* One of two rivals is refused, and leaves the rows as they were.         *)
LEMMA RaceRefused ==
  ASSUME BaseInv, load = "competition", NEW n \in {2, 3}, NEW m \in {2, 3}, m # n,
         DOMAIN record \subseteq {Made(1), Undone(1), Made(m)}, Made(m) \in DOMAIN record
  PROVE  /\ W!AnswerTo(Rival(n)) = W!Refused
         /\ W!Run(Rival(n)) => UNCHANGED <<worder, wholder, record>>
<1>0. /\ Rival(n).key = Made(n) /\ Rival(n).do = "create"
      /\ Rival(n).item = <<1, 0, "item">>
  BY DEF Rival, W!Create
<1>1. Made(n) \notin DOMAIN record
  BY DEF Made, Undone
<1>2. /\ record[Made(m)] = <<Made(m), 1>> /\ <<Made(m), 1>> \in DOMAIN worder
      /\ worder[<<Made(m), 1>>].item = <<1, 0, "item">>
  BY RaceRecords DEF BaseInv, Books, KeysKept
<1>3. Open(<<Made(m), 1>>)
  <2>1. ~Ends(Made(m)) /\ ~Ends(Made(1)) /\ <<Made(1), 1>> # <<Made(m), 1>>
    BY DEF Ends, Made
  <2> QED
    BY <2>1, RaceRecords DEF Open
<1>4. ~W!Allowed(Rival(n))
  BY <1>0, <1>2, <1>3 DEF BaseInv, Books, Holding, W!Allowed
<1> QED
  BY <1>0, <1>1, <1>4 DEF W!AnswerTo, W!Run, W!rows

(* The race goes on when every caller was answered.                        *)
LEMMA RaceSend ==
  ASSUME BaseInv, RaceInv, load = "competition", load' = load, W!SendStep
  PROVE  BaseInv' /\ RaceInv'
<1>0. /\ W!Free /\ client.step \in 0..3 /\ W!runner \in W!Caller /\ W!runner = 0
      /\ \A c \in W!Caller : c \in Nat
  <2>1. W!Free /\ client.step \in 0..3
    <3>1. W!Free /\ client.step < Len(W!Fixed[load])
      BY DEF W!SendStep
    <3>2. client.step \in 0..4
      BY DEF RaceInv
    <3>3. Len(W!Fixed[load]) = 4
      BY RaceSteps
    <3> QED
      BY <3>1, <3>2, <3>3
  <2>2. /\ W!runner \in W!Caller /\ W!runner = 0
        /\ \A c \in W!Caller : c \in Nat
    BY WorkloadAssumption DEF W!Caller, W!runner
  <2> QED
    BY <2>1, <2>2
<1>1. PICK s : s = client.step + 1
  OBVIOUS
<1>2. client' \in [step : 0..4] /\ client'.step = s /\ s \in 1..4
  BY <1>0, <1>1 DEF RaceInv, W!SendStep
<1>3. PICK wanted : wanted = W!Fixed[load][s].requests
  OBVIOUS
<1>4. call' = [c \in W!Caller |->
                IF c + 1 <= Len(wanted) THEN W!Resolved(wanted[c + 1]) ELSE NoOrder]
  BY <1>1, <1>3 DEF W!SendStep
<1>5. /\ UNCHANGED <<worder, wholder, record, late, named, trouble>>
      /\ UNCHANGED <<W!rows, late, named, trouble>>
  BY DEF W!SendStep, W!rows
<1>6. call' = [c \in W!Caller |-> call'[c]]
  BY <1>4
<1>7. ASSUME NEW r, wanted = <<r>>
      PROVE  /\ call'[W!runner] = W!Resolved(r)
             /\ \A c \in W!Caller : call'[c] # NoOrder => call'[c] = W!Resolved(r)
  <2>1. Len(wanted) = 1 /\ wanted[1] = r
    BY <1>7
  <2>2. \A c \in W!Caller : c # 0 => ~(c + 1 <= 1)
    BY <1>0
  <2> QED
    BY <1>0, <1>4, <2>1, <2>2
<1>8. ASSUME NEW q, NEW r, wanted = <<q, r>>
      PROVE  /\ call'[W!runner] = W!Resolved(q)
             /\ \A c \in W!Caller : call'[c] \in {NoOrder, W!Resolved(q), W!Resolved(r)}
  <2>1. Len(wanted) = 2 /\ wanted[1] = q /\ wanted[2] = r
    BY <1>8
  <2>2. \A c \in W!Caller : c # 0 /\ c # 1 => ~(c + 1 <= 2)
    BY <1>0
  <2> QED
    BY <1>0, <1>4, <2>1, <2>2
<1>9. \A n \in {1, 2, 3} :
        W!Resolved(Rival(n)) = Rival(n) /\ Underway(Rival(n)) /\ Rival(n) # NoOrder
  <2> SUFFICES ASSUME NEW n \in {1, 2, 3}
               PROVE  W!Resolved(Rival(n)) = Rival(n) /\ Underway(Rival(n)) /\ Rival(n) # NoOrder
    OBVIOUS
  <2>1. W!Resolved(Rival(n)) = Rival(n) /\ ~Ends(Rival(n).key)
    BY DEF W!Resolved, Rival, W!Create, Ends, Made
  <2>2. Rival(n) \in Plan
    BY DEF Plan, RacePlan, Rival, W!Sale, Made
  <2>3. Rival(n) # NoOrder
    BY <2>2, PlanAsks, Some DEF Load
  <2> QED
    BY <2>1, <2>2, <2>3 DEF Underway
<1>10. ASSUME NEW K, NEW e, NEW n \in {1, 2, 3}, Made(n) \in K, Made(n) \in DOMAIN named,
              \A k \in K : k \in DOMAIN named => k = Made(n)
       PROVE  W!Resolved(W!Undo(K, e)) = W!Cancel(<<Made(n), 1>>, e)
  <2>1. (CHOOSE k \in K : k \in DOMAIN named) = Made(n)
    BY <1>10
  <2>2. named[Made(n)] = <<Made(n), 1>>
    BY <1>10, RaceRecords DEF BaseInv, Spoken
  <2>3. W!Undo(K, e) = [do |-> "cancel", item |-> NoOrder, order |-> K, key |-> e]
    BY DEF W!Undo
  <2>4. W!Resolved(W!Undo(K, e)) = [W!Undo(K, e) EXCEPT !.order = <<Made(n), 1>>]
    <3>1. PICK u : u = W!Undo(K, e)
      OBVIOUS
    <3>2. u.do = "cancel" /\ u.order = K
      BY <2>3, <3>1
    <3>3. W!Resolved(u) = [u EXCEPT !.order = named[CHOOSE k \in K : k \in DOMAIN named]]
      BY <3>2, Zenon DEF W!Resolved
    <3> QED
      BY <2>1, <2>2, <3>1, <3>3
  <2> QED
    BY <2>3, <2>4 DEF W!Cancel
<1>11. ASSUME NEW n \in {1, 2, 3}, NEW j \in {1, 2}, j = 1 <=> n = 1, Made(n) \in DOMAIN record
       PROVE  /\ Underway(W!Cancel(<<Made(n), 1>>, Undone(j)))
              /\ W!Cancel(<<Made(n), 1>>, Undone(j)) # NoOrder
  <2>1. W!Cancel(<<Made(n), 1>>, Undone(j)) \in Plan
    BY <1>11 DEF Plan, RacePlan
  <2>2. W!Cancel(<<Made(n), 1>>, Undone(j)).order \in DOMAIN worder
    BY <1>11, RaceRecords DEF BaseInv, Books, KeysKept, W!Cancel
  <2>3. W!Cancel(<<Made(n), 1>>, Undone(j)) # NoOrder
    BY <2>1, PlanAsks, Some DEF Load
  <2> QED
    BY <2>1, <2>2, <2>3 DEF Underway
<1>12. ASSUME \A c \in W!Caller : call'[c] # NoOrder => Underway(call'[c]) PROVE BaseInv'
  BY <1>5, <1>6, <1>12, SendBase
<1>13. DOMAIN record = DOMAIN named /\ late = {}
  BY DEF RaceInv
<1>14. call[W!runner] = NoOrder
  BY <1>0 DEF W!Free
<1>15. CASE s = 1
  <2>1. wanted = <<Rival(1), Rival(1)>> /\ W!Sale(1) = Rival(1)
    BY <1>3, <1>15, RaceSteps DEF Rival, W!Sale, Made
  <2>2. DOMAIN record = {}
    BY <1>0, <1>1, <1>15 DEF RaceInv
  <2>3. call'[W!runner] = Rival(1) /\ \A c \in W!Caller : call'[c] \in {NoOrder, Rival(1)}
    BY <1>8, <1>9, <2>1
  <2>4. BaseInv'
    BY <1>9, <1>12, <2>3
  <2> QED
    BY <1>2, <1>5, <1>9, <1>13, <1>15, <2>1, <2>2, <2>3, <2>4 DEF RaceInv, Waits
<1>16. CASE s = 2
  <2>1. wanted = <<W!Undo({Made(1)}, Undone(1))>>
    BY <1>3, <1>16, RaceSteps
  <2>2. DOMAIN record = {Made(1)}
    <3>1. client.step = 1
      BY <1>0, <1>1, <1>16
    <3>2. DOMAIN record \subseteq {Made(1)} /\ Made(1) \in DOMAIN record
      BY <1>14, <3>1 DEF RaceInv, Waits
    <3> QED
      BY <3>2
  <2>3. PICK r : r = W!Cancel(<<Made(1), 1>>, Undone(1)) /\ Underway(r) /\ r # NoOrder
    BY <1>11, <2>2
  <2>4. call'[W!runner] = r /\ \A c \in W!Caller : call'[c] \in {NoOrder, r}
    <3>1. W!Resolved(W!Undo({Made(1)}, Undone(1))) = r
      BY <1>10, <1>13, <2>2, <2>3
    <3> QED
      BY <1>7, <2>1, <3>1
  <2>5. BaseInv'
    BY <1>12, <2>3, <2>4
  <2> QED
    BY <1>2, <1>5, <1>13, <1>16, <2>2, <2>3, <2>4, <2>5 DEF RaceInv, Waits
<1>17. CASE s = 3
  <2>1. wanted = <<Rival(2), Rival(3)>>
    BY <1>3, <1>17, RaceSteps
  <2>2. DOMAIN record = {Made(1), Undone(1)}
    <3>1. client.step = 2
      BY <1>0, <1>1, <1>17
    <3>2. /\ DOMAIN record \subseteq {Made(1), Undone(1)}
          /\ {Made(1), Undone(1)} \subseteq DOMAIN record
      BY <1>14, <3>1 DEF RaceInv, Waits
    <3> QED
      BY <3>2
  <2>3. call'[W!runner] = Rival(2) /\ \A c \in W!Caller : call'[c] \in {NoOrder, Rival(2), Rival(3)}
    BY <1>8, <1>9, <2>1
  <2>4. BaseInv'
    BY <1>9, <1>12, <2>3
  <2> QED
    BY <1>2, <1>5, <1>9, <1>13, <1>17, <2>2, <2>3, <2>4 DEF RaceInv, Waits
<1>18. CASE s = 4
  <2>1. wanted = <<W!Undo({Made(2), Made(3)}, Undone(2))>>
    BY <1>3, <1>18, RaceSteps
  <2>2. PICK n \in {2, 3} : DOMAIN record = {Made(1), Undone(1), Made(n)}
    <3>1. client.step = 3
      BY <1>0, <1>1, <1>18
    <3>2. PICK n \in {2, 3} : DOMAIN record \subseteq {Made(1), Undone(1), Made(n)}
      BY <3>1 DEF RaceInv
    <3>3. Made(n) \in DOMAIN record
      BY <1>14, <3>1, <3>2 DEF RaceInv, Waits, Made, Undone
    <3> QED
      BY <3>1, <3>2, <3>3 DEF RaceInv
  <2>3. PICK r : r = W!Cancel(<<Made(n), 1>>, Undone(2)) /\ Underway(r) /\ r # NoOrder
    BY <1>11, <2>2
  <2>4. call'[W!runner] = r /\ \A c \in W!Caller : call'[c] \in {NoOrder, r}
    <3>1. W!Resolved(W!Undo({Made(2), Made(3)}, Undone(2))) = r
      <4>1. \A k \in {Made(2), Made(3)} : k \in DOMAIN named => k = Made(n)
        BY <1>13, <2>2 DEF Made, Undone
      <4> QED
        BY <1>10, <1>13, <2>2, <2>3, <4>1
    <3> QED
      BY <1>7, <2>1, <3>1
  <2>5. BaseInv'
    BY <1>12, <2>3, <2>4
  <2> QED
    BY <1>2, <1>5, <1>13, <1>18, <2>2, <2>3, <2>4, <2>5 DEF RaceInv, Waits
<1> QED
  BY <1>2, <1>15, <1>16, <1>17, <1>18

(* Whatever the race waits for may be served, but for the slower rival.    *)
LEMMA RaceAgrees ==
  ASSUME BaseInv, RaceInv, load = "competition", NEW c \in W!Caller, call[c] # NoOrder
  PROVE  \/ /\ Consistent(call[c]) /\ Welcome(call[c])
            /\ client.step = 3 => \E n \in {2, 3} :
                 /\ call[c] = Rival(n)
                 /\ DOMAIN record \subseteq {Made(1), Undone(1), Made(n)}
         \/ client.step = 3 /\ \E n, m \in {2, 3} :
              /\ m # n /\ call[c] = Rival(n) /\ Made(m) \in DOMAIN record
              /\ DOMAIN record \subseteq {Made(1), Undone(1), Made(m)}
<1>0. \A n : ~Ends(Made(n)) /\ Ends(Undone(n))
  BY DEF Ends, Made, Undone
<1>1. client.step \in 0..4 /\ client.step # 0
  BY DEF RaceInv
<1>2. CASE client.step = 1
  <2>1. call[c] = Rival(1)
    BY <1>2 DEF RaceInv, Waits, Rival, W!Sale, Made
  <2>2. \A k \in DOMAIN record : k = Made(1)
    BY <1>2 DEF RaceInv
  <2> QED
    BY <1>2, <2>1, <2>2, RaceRival
<1>3. CASE client.step = 2
  <2>1. call[c] = W!Cancel(<<Made(1), 1>>, Undone(1)) /\ Made(1) \in DOMAIN record
    BY <1>3 DEF RaceInv, Waits
  <2>2. \A k \in DOMAIN record : k = Made(1) \/ k = Undone(1)
    BY <1>3 DEF RaceInv
  <2>3. \A m \in {2, 3} : Made(m) \notin DOMAIN record
    BY <2>2 DEF Made, Undone
  <2> QED
    BY <1>0, <1>3, <2>1, <2>2, <2>3, RaceCancel
<1>4. CASE client.step = 3
  <2>1. PICK m \in {2, 3} : DOMAIN record \subseteq {Made(1), Undone(1), Made(m)}
    BY <1>4 DEF RaceInv
  <2>2. PICK n \in {2, 3} : call[c] = Rival(n)
    BY <1>4 DEF RaceInv, Waits
  <2>3. Undone(1) \in DOMAIN record
    BY <1>4 DEF RaceInv
  <2>4. CASE m # n /\ Made(m) \in DOMAIN record
    BY <1>4, <2>1, <2>2, <2>4
  <2>5. CASE m = n \/ Made(m) \notin DOMAIN record
    <3>1. \A k \in DOMAIN record : ~Ends(k) => k = Made(n) \/ k = Made(1)
      BY <1>0, <2>1, <2>5
    <3>2. DOMAIN record \subseteq {Made(1), Undone(1), Made(n)}
      BY <2>1, <2>5
    <3>3. Consistent(Rival(n)) /\ Welcome(Rival(n))
      BY <2>3, <3>1, RaceRival
    <3> QED
      BY <2>2, <3>2, <3>3
  <2> QED
    BY <2>4, <2>5
<1>5. CASE client.step = 4
  <2>1. PICK n \in {2, 3} :
          /\ Made(n) \in DOMAIN record
          /\ DOMAIN record \subseteq {Made(1), Undone(1), Made(n), Undone(2)}
          /\ call[c] = W!Cancel(<<Made(n), 1>>, Undone(2))
    BY <1>5 DEF RaceInv, Waits
  <2>2. \A m \in {2, 3} : Made(m) \in DOMAIN record => m = n
    BY <2>1 DEF Made, Undone
  <2>3. \A k \in DOMAIN record : Ends(k) => k \in {Undone(1), Undone(2)}
    BY <1>0, <2>1
  <2> QED
    BY <1>5, <2>1, <2>2, <2>3, RaceCancel
<1> QED
  BY <1>1, <1>2, <1>3, <1>4, <1>5

(* A request that was answered or refused leaves the caller free.          *)
LEMMA RaceStays ==
  ASSUME RaceInv, client' = client, late' = {}, DOMAIN record' = DOMAIN named',
         NEW c \in W!Caller, call[c] # NoOrder, call = [d \in W!Caller |-> call[d]],
         call' = [call EXCEPT ![c] = NoOrder],
         DOMAIN record \subseteq DOMAIN record',
         client.step # 3 => DOMAIN record' = DOMAIN record \cup {call[c].key},
         client.step = 3 => \E n \in {2, 3} :
           /\ Made(n) \in DOMAIN record'
           /\ DOMAIN record' \subseteq {Made(1), Undone(1), Made(n)}
  PROVE  RaceInv'
<1>0. \A n, j : Rival(n).key = Made(n) /\ W!Cancel(<<Made(n), 1>>, Undone(j)).key = Undone(j)
        /\ W!Sale(1).key = Made(1)
  BY DEF Rival, W!Create, W!Cancel, W!Sale, Made
<1>1. \A d \in W!Caller : call'[d] # NoOrder => call'[d] = call[d]
  OBVIOUS
<1>2. client' \in [step : 0..4] /\ client'.step = client.step /\ client.step # 0
  BY DEF RaceInv
<1>3. CASE client.step = 1
  <2>1. call[c].key = Made(1)
    BY <1>0, <1>3 DEF RaceInv, Waits
  <2> QED
    BY <1>1, <1>2, <1>3, <2>1 DEF RaceInv, Waits
<1>4. CASE client.step = 2
  <2>1. call[c].key = Undone(1)
    BY <1>0, <1>4 DEF RaceInv, Waits
  <2> QED
    BY <1>1, <1>2, <1>4, <2>1 DEF RaceInv, Waits
<1>5. CASE client.step = 3
  BY <1>1, <1>2, <1>5 DEF RaceInv, Waits
<1>6. CASE client.step = 4
  <2>1. call[c].key = Undone(2)
    BY <1>0, <1>6 DEF RaceInv, Waits
  <2> QED
    BY <1>1, <1>2, <1>6, <2>1 DEF RaceInv, Waits
<1> QED
  BY <1>2, <1>3, <1>4, <1>5, <1>6 DEF RaceInv

(* One of the two processes answers.                                       *)
LEMMA RaceServe ==
  ASSUME BaseInv, RaceInv, load = "competition", load' = load,
         \/ \E c \in W!Caller, fate \in W!Fates : W!Serve(c, fate)
         \/ \E r \in late : W!RunLate(r)
  PROVE  BaseInv' /\ RaceInv'
<1>1. PICK c \in W!Caller, fate \in W!Fates : W!Serve(c, fate)
  BY DEF RaceInv
<1>2. PICK r : r = call[c]
  OBVIOUS
<1>3. r # NoOrder
  BY <1>1, <1>2 DEF W!Serve
<1>4. fate = "answered"
  <2>1. fate = W!StepNow.fate
    BY <1>1, RaceSteps DEF W!Fates
  <2>2. client.step \in 1..4
    BY <1>2, <1>3 DEF RaceInv
  <2> QED
    BY <2>1, <2>2, RaceSteps DEF W!StepNow
<1>5. late' = late /\ W!Take(c, W!AnswerTo(r)) /\ W!Run(r)
  BY <1>1, <1>2, <1>4 DEF W!Serve
<1>6. W!TakeStep(c, W!AnswerTo(r))
  BY <1>5 DEF W!Take, W!TakeOutage, W!TakeRound
<1>7. /\ call' = [call EXCEPT ![c] = NoOrder] /\ client' = client
      /\ IF W!AnswerTo(r) = W!Refused /\ r.key \in W!Rivals
             /\ \E k \in W!Rivals : k \in DOMAIN named
         THEN UNCHANGED <<named, trouble>>
         ELSE W!Note(r, W!AnswerTo(r))
  <2>1. W!StepNow.fate # "discarded"
    BY <1>1, <1>4, RaceSteps DEF W!Fates
  <2> QED
    BY <1>2, <1>6, <2>1 DEF W!TakeStep
<1>8. W!Rivals = {Made(2), Made(3)}
  BY DEF W!Rivals, Made
<1>9. CASE /\ Consistent(r) /\ Welcome(r)
           /\ client.step = 3 => \E n \in {2, 3} :
                /\ r = Rival(n) /\ DOMAIN record \subseteq {Made(1), Undone(1), Made(n)}
  <2>1. /\ Books' /\ Traced' /\ (named' = named => Spoken')
        /\ \A q : Underway(q) => Underway(q)'
        /\ \A q \in late' : Underway(q)'
        /\ Grown(r) /\ Asks(r)
    BY <1>1, <1>2, <1>4, <1>9, ServeBase
  <2>2. W!AnswerTo(r) = W!Told(Due(r)) /\ W!Told(Due(r)) # W!Refused
    BY <1>9, <2>1, AnswerDue DEF BaseInv, W!Told, W!Refused
  <2>3. /\ Spoken' /\ trouble' = trouble
        /\ DOMAIN named' = DOMAIN named \cup {r.key}
    BY <1>7, <1>9, <2>1, <2>2, NoteDue DEF BaseInv
  <2>4. DOMAIN record' = DOMAIN record \cup {r.key}
    BY <2>1 DEF Grown
  <2>5. BaseInv'
    BY <1>7, <2>1, <2>3 DEF BaseInv, Calm
  <2>6. client.step = 3 => \E n \in {2, 3} :
          /\ Made(n) \in DOMAIN record'
          /\ DOMAIN record' \subseteq {Made(1), Undone(1), Made(n)}
    <3>1. \A n : Rival(n).key = Made(n)
      BY DEF Rival, W!Create
    <3> QED
      BY <1>9, <2>4, <3>1
  <2>7. RaceInv'
    <3>1. DOMAIN record' = DOMAIN named' /\ late' = {}
      BY <1>5, <2>3, <2>4 DEF RaceInv
    <3> QED
      BY <1>2, <1>3, <1>7, <2>4, <2>6, <3>1, RaceStays DEF BaseInv
  <2> QED
    BY <2>5, <2>7
<1>10. CASE client.step = 3 /\ \E n, m \in {2, 3} :
              /\ m # n /\ r = Rival(n) /\ Made(m) \in DOMAIN record
              /\ DOMAIN record \subseteq {Made(1), Undone(1), Made(m)}
  <2>1. PICK n \in {2, 3}, m \in {2, 3} :
              /\ m # n /\ r = Rival(n) /\ Made(m) \in DOMAIN record
              /\ DOMAIN record \subseteq {Made(1), Undone(1), Made(m)}
    BY <1>10
  <2>2. W!AnswerTo(r) = W!Refused /\ UNCHANGED <<worder, wholder, record>>
    BY <1>5, <2>1, RaceRefused
  <2>3. UNCHANGED <<named, trouble>>
    <3>1. r.key \in W!Rivals
      BY <1>8, <2>1 DEF Rival, W!Create
    <3>2. \E k \in W!Rivals : k \in DOMAIN named
      BY <1>8, <2>1 DEF RaceInv
    <3> QED
      BY <1>7, <2>2, <3>1, <3>2
  <2>4. /\ Books' /\ Traced' /\ Spoken' /\ Calm'
    BY <2>2, <2>3 DEF BaseInv, Books, KeysKept, OrdersKept, EndedOnce, RowsFollow, Holding,
                     Open, Traced, Spoken, Calm, Plan
  <2>5. \A q : Underway(q) => Underway(q)'
    BY <2>2 DEF Underway, Plan
  <2>6. BaseInv'
    BY <1>5, <1>7, <2>4, <2>5 DEF BaseInv
  <2>7. RaceInv'
    <3>1. DOMAIN record' = DOMAIN named' /\ late' = {}
      BY <1>5, <2>2, <2>3 DEF RaceInv
    <3>2. DOMAIN record' = DOMAIN record
      BY <2>2
    <3> QED
      BY <1>2, <1>3, <1>7, <1>10, <2>1, <3>1, <3>2, RaceStays DEF BaseInv
  <2> QED
    BY <2>6, <2>7
<1> QED
  BY <1>2, <1>3, <1>9, <1>10, RaceAgrees

-----------------------------------------------------------------------------
(* The audit: what is on record is what was told.                          *)
LEMMA AuditClears ==
  ASSUME Books, Spoken, DOMAIN record = DOMAIN named
  PROVE  W!Audited
<1>1. \A k \in DOMAIN named : named[k] = record[k] /\ k \in DOMAIN record
  BY DEF Spoken
<1>2. DOMAIN worder = {named[k] : k \in DOMAIN named}
  BY <1>1 DEF Books, KeysKept, OrdersKept
<1>3. ASSUME NEW id \in DOMAIN worder
      PROVE  LET keys == {k \in DOMAIN named : named[k] = id}
                 open == \A k \in keys : k[3] # "cancel"
             IN  /\ worder[id].status = IF open THEN "pending_payment" ELSE "cancelled"
                 /\ worder[id].events = IF open THEN <<"create">> ELSE <<"create", "cancel">>
                 /\ W!Cardinality(keys) = Len(worder[id].events)
                 /\ open <=> /\ worder[id].item \in DOMAIN wholder
                             /\ wholder[worder[id].item] = id
  <2>1. PICK K : K = {k \in DOMAIN named : named[k] = id}
    OBVIOUS
  <2>2. PICK made \in DOMAIN record : ~Ends(made) /\ id = <<made, 1>> /\ record[made] = id
    BY DEF Books, OrdersKept, KeysKept
  <2>3. made \in K /\ \A k \in K : ~Ends(k) => k = made
    BY <1>1, <2>1, <2>2 DEF Books, KeysKept
  <2>4. (\A k \in K : k[3] # "cancel") <=> Open(id)
    BY <1>1, <2>1 DEF Open, Ends
  <2>5. CASE Open(id)
    <3>1. K = {made}
      BY <2>3, <2>4, <2>5 DEF Ends
    <3>2. Cardinality(K) = 1
      BY <3>1, FS_Singleton
    <3>3. worder[id] = OpenRow(worder[id].item)
      BY <2>5 DEF Books, RowsFollow
    <3>4. worder[id].status = "pending_payment" /\ worder[id].events = <<"create">>
      BY <3>3 DEF OpenRow
    <3>5. worder[id].item \in DOMAIN wholder /\ wholder[worder[id].item] = id
      BY <2>5 DEF Books, Holding
    <3>6. Len(worder[id].events) = 1
      BY <3>4
    <3> QED
      BY <2>1, <2>4, <2>5, <3>2, <3>4, <3>5, <3>6, Sizes
  <2>6. CASE ~Open(id)
    <3>1. PICK gone \in K : Ends(gone)
      BY <2>4, <2>6 DEF Ends
    <3>2. K = {made, gone} /\ made # gone
      BY <1>1, <2>1, <2>2, <2>3, <3>1 DEF Books, EndedOnce
    <3>3. Cardinality(K) = 2
      <4>1. Cardinality({made}) = 1 /\ IsFiniteSet({made})
        BY FS_Singleton
      <4>2. Cardinality({made} \cup {gone}) = Cardinality({made}) + 1
        BY <3>2, <4>1, FS_AddElement
      <4>3. K = {made} \cup {gone}
        BY <3>2
      <4> QED
        BY <4>1, <4>2, <4>3
    <3>4. worder[id] = EndedRow(worder[id].item)
      BY <2>6 DEF Books, RowsFollow
    <3>5. worder[id].status = "cancelled" /\ worder[id].events = <<"create", "cancel">>
      BY <3>4 DEF EndedRow
    <3>6. ~(worder[id].item \in DOMAIN wholder /\ wholder[worder[id].item] = id)
      BY <2>6 DEF Books, Holding
    <3>7. Len(worder[id].events) = 2
      BY <3>5
    <3> QED
      BY <2>1, <2>4, <2>6, <3>3, <3>5, <3>6, <3>7, Sizes
  <2> QED
    BY <2>5, <2>6
<1> QED
  BY <1>2, <1>3, Zenon DEF W!Audited

(* The books of the API, and how far the client of each workload is.       *)
WorkInv ==
  /\ BaseInv
  /\ load = "outage" => OutageInv
  /\ load = "rounds" => RoundsInv
  /\ Sales => SalesInv
  /\ load = "competition" => RaceInv

(* Each workload begins with empty rows.                                   *)
LEMMA WorkBegins == W!Init => WorkInv
<1> SUFFICES ASSUME W!Init PROVE WorkInv
  OBVIOUS
<1>1. /\ worder = <<>> /\ wholder = <<>> /\ record = <<>>
      /\ late = {} /\ named = <<>> /\ trouble = {}
      /\ call = [c \in W!Caller |-> NoOrder] /\ load \in {"outage", "rounds"} \cup DOMAIN W!Fixed
      /\ load = "outage" => client = [stage |-> "prepare", sent |-> 0, drained |-> {}]
      /\ load = "rounds" => client = [next |-> 1, done |-> 0, attempt |-> 0]
      /\ load # "outage" /\ load # "rounds" => client = [step |-> 0]
  BY Zenon DEF W!Init
<1>2. load \in Load
  BY <1>1 DEF W!Fixed, Load
<1>3. \A c \in W!Caller : call[c] = NoOrder
  BY <1>1
<1>4. BaseInv
  BY <1>1, <1>2, <1>3 DEF BaseInv, Books, KeysKept, OrdersKept, EndedOnce, RowsFollow, Holding,
                     Traced, Spoken, Calm
<1>5. load = "outage" => OutageInv
  <2> SUFFICES ASSUME load = "outage" PROVE OutageInv
    OBVIOUS
  <2>1. client = [stage |-> "prepare", sent |-> 0, drained |-> {}]
    BY <1>1
  <2>2. /\ client \in [stage : Stages, sent : Int, drained : SUBSET Label]
        /\ client.stage = "prepare" /\ client.drained = {}
    BY <2>1 DEF Stages
  <2> QED
    BY <2>2 DEF OutageInv
<1>6. load = "rounds" => RoundsInv
  <2> SUFFICES ASSUME load = "rounds" PROVE RoundsInv
    OBVIOUS
  <2>1. /\ client \in [next : Nat, done : Nat, attempt : Int]
        /\ client.next = 1 /\ client.done = 0
    BY <1>1
  <2>2. Rounds \in Nat /\ 1 <= Rounds + 1
    BY WorkloadAssumption
  <2> QED
    BY <1>1, <1>3, <2>1, <2>2 DEF RoundsInv
<1>7. Sales => SalesInv
  <2> SUFFICES ASSUME Sales PROVE SalesInv
    OBVIOUS
  <2>1. 0 \in 0..Len(W!Fixed[load])
    BY SaleSteps
  <2>2. client = [step |-> 0]
    BY <1>1 DEF Sales
  <2> QED
    BY <1>1, <1>3, <2>1, <2>2 DEF SalesInv
<1>8. load = "competition" => RaceInv
  <2> SUFFICES ASSUME load = "competition" PROVE RaceInv
    OBVIOUS
  <2>1. client \in [step : 0..4] /\ client.step = 0
    BY <1>1
  <2> QED
    BY <1>1, <1>3, <2>1 DEF RaceInv
<1> QED
  BY <1>4, <1>5, <1>6, <1>7, <1>8 DEF WorkInv

(* Every step of every workload keeps its invariant.                       *)
LEMMA WorkGoesOn == WorkInv /\ (W!Next \/ UNCHANGED wVars) => WorkInv'
<1> SUFFICES ASSUME WorkInv, W!Next \/ UNCHANGED wVars PROVE WorkInv'
  OBVIOUS
<1>1. CASE UNCHANGED wVars
  <2>1. /\ UNCHANGED <<load, worder, wholder, record, call, late, named, client, trouble>>
        /\ Plan' = Plan /\ Last' = Last /\ (Sales' <=> Sales)
    BY <1>1 DEF wVars, Plan, Last, Sales
  <2>2. BaseInv'
    BY <2>1 DEF WorkInv, BaseInv, Books, KeysKept, OrdersKept, EndedOnce, RowsFollow, Holding, Open,
                Traced, Spoken, Calm, Underway
  <2>3. /\ load = "outage" => OutageInv'
        /\ load = "rounds" => RoundsInv'
        /\ Sales => SalesInv'
        /\ load = "competition" => RaceInv'
    BY <2>1 DEF WorkInv, OutageInv, RoundsInv, SalesInv, RaceInv, Waits
  <2> QED
    BY <2>1, <2>2, <2>3 DEF WorkInv
<1>2. CASE W!Next
  <2>0. load' = load /\ load \in Load /\ BaseInv
    BY <1>2 DEF W!Next, WorkInv, BaseInv
  <2>1. PICK ask, serve \in BOOLEAN :
          /\ ask <=> \/ \E op \in W!Cancellations : W!Prepare(op)
                     \/ \E op \in W!Operations : W!Reconcile(op)
                     \/ \E i \in 1..Arrivals : W!Arrive(i)
          /\ serve <=> \/ \E c \in W!Caller, fate \in W!Fates : W!Serve(c, fate)
                       \/ \E r \in late : W!RunLate(r)
    OBVIOUS
  <2>2. ask \/ W!NextStage \/ W!SendRound \/ W!SendStep \/ serve
    BY <1>2, <2>1, Zenon DEF W!Next
  <2>3. /\ ask \/ W!NextStage => load = "outage"
        /\ W!SendRound => load = "rounds"
        /\ W!SendStep => Sales \/ load = "competition"
    <3>1. ask => load = "outage"
      BY <2>1 DEF W!Prepare, W!Reconcile, W!Arrive, W!Staged
    <3>2. W!NextStage => load = "outage"
      BY DEF W!NextStage
    <3>3. W!SendRound => load = "rounds"
      BY DEF W!SendRound
    <3>4. W!SendStep => load \in DOMAIN W!Fixed
      BY DEF W!SendStep
    <3> QED
      BY <3>1, <3>2, <3>3, <3>4 DEF W!Fixed, Sales
  <2>4. CASE load = "outage"
    <3>1. BaseInv' /\ OutageInv'
      BY <2>0, <2>1, <2>2, <2>3, <2>4, OutageAsk, OutageStage, OutageServe DEF WorkInv, Sales
    <3> QED
      BY <2>0, <2>4, <3>1 DEF WorkInv, Sales
  <2>5. CASE load = "rounds"
    <3>1. BaseInv' /\ RoundsInv'
      BY <2>0, <2>1, <2>2, <2>3, <2>5, RoundSend, RoundServe DEF WorkInv, Sales
    <3> QED
      BY <2>0, <2>5, <3>1 DEF WorkInv, Sales
  <2>6. CASE Sales
    <3>1. BaseInv' /\ SalesInv'
      BY <2>0, <2>1, <2>2, <2>3, <2>6, SalesSend, SalesServe DEF WorkInv, Sales
    <3> QED
      BY <2>0, <2>6, <3>1 DEF WorkInv, Sales
  <2>7. CASE load = "competition"
    <3>1. BaseInv' /\ RaceInv'
      BY <2>0, <2>1, <2>2, <2>3, <2>7, RaceSend, RaceServe DEF WorkInv, Sales
    <3> QED
      BY <2>0, <2>7, <3>1 DEF WorkInv, Sales
  <2> QED
    BY <2>0, <2>4, <2>5, <2>6, <2>7 DEF Load, Sales
<1> QED
  BY <1>1, <1>2

(* What each workload ends with is what it was told.                       *)
LEMMA WorkAccounts == WorkInv => W!WritesAccounted
<1> SUFFICES ASSUME WorkInv PROVE W!WritesAccounted
  OBVIOUS
<1>1. BaseInv /\ load \in Load /\ Spoken /\ Books /\ Calm
  BY DEF WorkInv, BaseInv
<1>2. DOMAIN named \subseteq DOMAIN record
  BY <1>1 DEF Spoken
<1>3. ASSUME W!Ended PROVE DOMAIN record \subseteq DOMAIN named
  <2>1. CASE load = "outage"
    <3>1. client.stage = "audit" /\ OutageInv
      BY <1>3, <2>1, Zenon DEF W!Ended, WorkInv
    <3>2. ASSUME NEW q \in OutagePlan PROVE q.key \in DOMAIN named
      <4>1. \/ \E op \in W!Operations : q.key = op
            \/ \E op \in W!Cancellations : q.key = W!PrepareKey(op)
        BY DEF OutagePlan, W!Create, W!Cancel, W!Cancellations
      <4> QED
        BY <3>1, <4>1 DEF OutageInv
    <3>3. Plan = OutagePlan
      BY <2>1 DEF Plan
    <3> QED
      BY <1>1, <3>2, <3>3 DEF BaseInv, Traced
  <2>2. CASE load = "rounds"
    <3>1. W!Free /\ trouble = {} /\ RoundsInv
      BY <1>3, <2>2, Zenon DEF W!Ended, WorkInv
    <3>2. W!runner \in W!Caller
      BY WorkloadAssumption DEF W!runner, W!Caller
    <3>3. client.done = client.next - 1
      BY <3>1, <3>2 DEF RoundsInv, W!Free
    <3>4. Last = client.done
      <4>1. client.done \in Nat /\ client.next \in Nat
        BY <3>1 DEF RoundsInv
      <4> QED
        BY <3>3, <4>1 DEF Last
    <3> QED
      BY <3>1, <3>4 DEF RoundsInv
  <2>3. CASE Sales \/ load = "competition"
    BY <2>3 DEF WorkInv, SalesInv, RaceInv
  <2> QED
    BY <1>1, <2>1, <2>2, <2>3 DEF Load, Sales
<1>4. W!Ended => W!Audited
  BY <1>1, <1>2, <1>3, AuditClears
<1> QED
  BY <1>1, <1>4 DEF W!WritesAccounted, Calm

(* Every write workload finds one order for each of its operations, for    *)
(* any number of buyers, arrivals, rounds and tries, whichever requests    *)
(* and answers are lost and whenever an old copy of one still runs.        *)
THEOREM WritesHold == PartSpec => []WritesAccounted
<1>1. PartInit => (script = "writes" => WorkInv)
  BY WorkBegins DEF PartInit
<1>2. (script = "writes" => WorkInv) /\ [PartNext]_partVars => (script = "writes" => WorkInv)'
  <2> SUFFICES ASSUME script = "writes" => WorkInv, [PartNext]_partVars, script' = "writes"
               PROVE  WorkInv'
    OBVIOUS
  <2>1. script = "writes" /\ (W!Next \/ UNCHANGED wVars)
    BY DEF PartNext, partVars
  <2> QED
    BY <2>1, WorkGoesOn
<1>3. (script = "writes" => WorkInv) => WritesAccounted
  BY WorkAccounts DEF WritesAccounted
<1> QED
  BY <1>1, <1>2, <1>3, PTL DEF PartSpec
=============================================================================
