------------------------------ MODULE Workload ------------------------------
(***************************************************************************)
(* The write workloads of backend/scripts and what they assert: the        *)
(* arrivals of an outage and their reconciliation                          *)
(* (capacity-outage-writes.mjs), the rounds of one buyer with retries      *)
(* (capacity-writes.mjs), the race of two API processes                    *)
(* (check-capacity.mjs), and the scripts that kill a proxy or a gateway    *)
(* between a request and its replay (check-http-ingress-business.mjs,      *)
(* ha-auto-gateway-failure.mjs). A request may be lost, its answer may be  *)
(* lost, and it may run long after its client has given it up.             *)
(***************************************************************************)
EXTENDS Integers, Sequences, FiniteSets

CONSTANTS
  Slots,       \* buyers whose scheduled requests are writes
  Arrivals,    \* bound: write arrivals of an outage
  Rounds,      \* bound: rounds of one buyer
  MaxAttempts, \* capacityWritePolicy.maxAttempts
  None

VARIABLES
  load,                  \* the workload that is run
  order, holder, record, \* rows: orders, what holds each item, idempotency records
  call,                  \* the request each caller waits for
  late,                  \* requests given up that may still run
  named,                 \* client: the order it was told of for each key
  client,                \* client: how far it is
  trouble                \* client: the assertions and errors it met

rows == <<order, holder, record>>
vars == <<load, rows, call, late, named, client, trouble>>

runner == 0
Caller == runner..Arrivals

-----------------------------------------------------------------------------
(* The API: a key that is on record is answered from it, anything else is  *)
(* allowed or refused. An id tells which creation of a key an order was.   *)
Create(item, key) == [do |-> "create", item |-> item, order |-> None, key |-> key]
Cancel(id, key) == [do |-> "cancel", item |-> None, order |-> id, key |-> key]

Allowed(r) ==
  IF r.do = "create" THEN r.item \notin DOMAIN holder
  ELSE order[r.order].status = "pending_payment"

NewOrder(key) == <<key, Cardinality({id \in DOMAIN order : id[1] = key}) + 1>>

Refused == [status |-> 409, order |-> None]
Unknown == [status |-> 0, order |-> None]
Told(id) == [status |-> 200, order |-> id]

(* Fault: the stock is checked before the key is looked up.                *)
AnswerByStock(r) ==
  CASE ~Allowed(r) -> Refused
    [] Allowed(r) /\ r.key \in DOMAIN record -> Told(record[r.key])
    [] OTHER -> Told(IF r.do = "create" THEN NewOrder(r.key) ELSE r.order)

AnswerTo(r) ==
  CASE r.key \in DOMAIN record -> Told(record[r.key])
    [] r.key \notin DOMAIN record /\ ~Allowed(r) -> Refused
    [] OTHER -> Told(IF r.do = "create" THEN NewOrder(r.key) ELSE r.order)

(* The table f with a row y for x, if it has none yet.                     *)
Insert(f, x, y) == [z \in DOMAIN f \cup {x} |-> IF z \in DOMAIN f THEN f[z] ELSE y]

Run(r) ==
  LET id == AnswerTo(r).order
  IN  IF r.key \in DOMAIN record \/ ~Allowed(r) THEN UNCHANGED rows
      ELSE /\ order' = IF r.do = "create"
                       THEN Insert(order, id, [item |-> r.item, status |-> "pending_payment",
                                               events |-> <<"create">>])
                       ELSE [order EXCEPT ![id].status = "cancelled",
                                          ![id].events = Append(@, "cancel")]
           /\ holder' = IF r.do = "create" THEN Insert(holder, r.item, id)
                        ELSE [i \in DOMAIN holder \ {order[id].item} |-> holder[i]]
           /\ record' = Insert(record, r.key, id)

(* A caller that already waits, or was told of another order, says so.     *)
Renamed(r, id) ==
  \/ r.do = "cancel" /\ id # r.order
  \/ r.key \in DOMAIN named /\ named[r.key] # id

Note(r, answer) ==
  /\ named' = IF answer.status = 200 THEN Insert(named, r.key, answer.order) ELSE named
  /\ trouble' = trouble \cup {x \in {"renamed"} : answer.status = 200 /\ Renamed(r, answer.order)}
                        \cup {x \in {"refused"} : answer.status = 409}

Ask(c, r) ==
  /\ call[c] = None
  /\ call' = [call EXCEPT ![c] = r]
  /\ UNCHANGED <<rows, late, named, trouble>>

Free == \A c \in Caller : call[c] = None

-----------------------------------------------------------------------------
(* capacity-outage-writes.mjs: four rounds of a buyer are a create, its    *)
(* replay, a cancellation and its replay, each of an item of its own.      *)
RoundOf(i) == (i - 1) \div Slots
OperationOf(i) ==
  <<RoundOf(i) \div 4, (i - 1) % Slots, IF RoundOf(i) % 4 < 2 THEN "create" ELSE "cancel">>
Operations == {OperationOf(i) : i \in 1..Arrivals}
Cancellations == {op \in Operations : op[3] = "cancel"}
PrepareKey(op) == <<op[1], op[2], "prepare">>

(* submit                                                                  *)
Submission(op) ==
  IF op[3] = "create" THEN Create(op, op) ELSE Cancel(named[PrepareKey(op)], op)

Staged(stage) == load = "outage" /\ client.stage = stage

Prepare(op) ==
  /\ Staged("prepare") /\ PrepareKey(op) \notin DOMAIN named
  /\ Ask(runner, Create(op, PrepareKey(op))) /\ UNCHANGED client

(* Each stage begins when the one before it has nothing left to do.        *)
NextStage ==
  /\ load = "outage" /\ Free
  /\ \/ /\ client.stage = "prepare" /\ \A op \in Cancellations : PrepareKey(op) \in DOMAIN named
        /\ client' = [client EXCEPT !.stage = "load"]
     \/ /\ client.stage = "load" /\ client.sent = Arrivals
        /\ client' = [client EXCEPT !.stage = "reconcile"]
     \/ /\ client.stage = "reconcile" /\ client.drained = Operations
        /\ client' = [client EXCEPT !.stage = "audit"]
  /\ UNCHANGED <<rows, call, late, named, trouble>>

(* An arrival waits for no earlier one.                                    *)
Arrive(i) ==
  /\ Staged("load") /\ i = client.sent + 1
  /\ Ask(i, Submission(OperationOf(i)))
  /\ client' = [client EXCEPT !.sent = i]

Reconcile(op) ==
  /\ Staged("reconcile") /\ op \notin client.drained
  /\ Ask(runner, Submission(op)) /\ UNCHANGED client

(* check: an arrival that fails is counted, the runner gives up.           *)
TakeOutage(c, answer) ==
  /\ load = "outage"
  /\ Note(call[c], answer)
  /\ call' = [call EXCEPT ![c] = None]
  /\ client' = CASE c # runner -> client
                 [] c = runner /\ answer.status # 200 -> [client EXCEPT !.stage = "given up"]
                 [] OTHER -> [client EXCEPT !.drained =
                                IF client.stage = "reconcile" THEN @ \cup {call[c].key} ELSE @]

-----------------------------------------------------------------------------
(* capacity-writes.mjs: one buyer, one item, the same four steps in turn.  *)
Item == <<0, 0, "item">>
KeyOf(n) == <<(n - 1) \div 4, 0, IF (n - 1) % 4 < 2 THEN "create" ELSE "cancel">>
CreateKey(n) == <<(n - 1) \div 4, 0, "create">>

(* A round is due whether or not the one before it has ended.              *)
SendRound ==
  LET n == client.next
      busy == call[runner] # None
  IN  /\ load = "rounds" /\ n <= Rounds
      /\ client' = [client EXCEPT !.next = n + 1, !.attempt = IF busy THEN @ ELSE 1]
      /\ IF busy \/ client.done # n - 1
         THEN trouble' = trouble \cup {"phase"} /\ UNCHANGED <<rows, call, late, named>>
         ELSE Ask(runner, IF (n - 1) % 4 < 2 THEN Create(Item, KeyOf(n))
                          ELSE Cancel(named[CreateKey(n)], KeyOf(n)))

(* An unknown outcome is tried again with the key it had.                  *)
TakeRound(c, answer) ==
  /\ load = "rounds"
  /\ IF answer = Unknown /\ client.attempt < MaxAttempts
     THEN /\ client' = [client EXCEPT !.attempt = @ + 1]
          /\ UNCHANGED <<call, named, trouble>>
     ELSE /\ call' = [call EXCEPT ![c] = None]
          /\ client' = [client EXCEPT !.done = IF answer.status = 200 THEN @ + 1 ELSE @]
          /\ IF answer = Unknown THEN trouble' = trouble \cup {"exhausted"} /\ UNCHANGED named
             ELSE Note(call[c], answer)

-----------------------------------------------------------------------------
(* Scripts of fixed steps: the requests sent together, and what becomes of *)
(* them on their way.                                                      *)
Sale(n) == Create(<<n, 0, "item">>, <<n, 0, "create">>)
Step(fate, requests) == [fate |-> fate, requests |-> requests]
Give(request) == Step("answered", <<request>>)

(* check-http-ingress-business.mjs: the answer is dropped and the proxy    *)
(* killed, then the other proxy and the restored one are asked again.      *)
Ingress ==
  << Give(Sale(1)), Give(Sale(1)),
     Step("discarded", <<Sale(2)>>), Give(Sale(2)), Give(Sale(2)),
     Step("discarded", <<Sale(3)>>), Give(Sale(3)), Give(Sale(3)) >>

(* ha-auto-gateway-failure.mjs: one API has lost its way to the database.  *)
Gateway ==
  << Step("unreached", <<Sale(1)>>), Give(Sale(1)), Give(Sale(1)), Give(Sale(1)), Give(Sale(2)),
     Step("unreached", <<Sale(3)>>), Give(Sale(3)), Give(Sale(3)), Give(Sale(3)), Give(Sale(4)) >>

(* checkWriteCompetition: two API processes are sent one key at once, then *)
(* two keys for one item; what was made is cancelled.                      *)
Rivals == {<<n, 0, "create">> : n \in {2, 3}}
Undo(keys, key) == [do |-> "cancel", item |-> None, order |-> keys, key |-> key]

Competition ==
  << Step("answered", <<Sale(1), Sale(1)>>), Give(Undo({<<1, 0, "create">>}, <<1, 0, "cancel">>)),
     Step("answered", <<Create(<<1, 0, "item">>, <<2, 0, "create">>),
                        Create(<<1, 0, "item">>, <<3, 0, "create">>)>>),
     Give(Undo(Rivals, <<2, 0, "cancel">>)) >>

Fixed == [ingress |-> Ingress, gateway |-> Gateway, competition |-> Competition]
StepNow == Fixed[load][client.step]

(* The order to undo is the one the client was told of.                    *)
Resolved(r) ==
  IF r.do = "cancel" THEN [r EXCEPT !.order = named[CHOOSE k \in r.order : k \in DOMAIN named]]
  ELSE r

SendStep ==
  /\ load \in DOMAIN Fixed /\ Free /\ client.step < Len(Fixed[load])
  /\ client' = [client EXCEPT !.step = @ + 1]
  /\ LET requests == Fixed[load][client.step + 1].requests
     IN  call' = [c \in Caller |-> IF c + 1 <= Len(requests) THEN Resolved(requests[c + 1])
                                   ELSE None]
  /\ UNCHANGED <<rows, late, named, trouble>>

(* Of two rivals, one is refused. A discarded order is read from the rows. *)
TakeStep(c, answer) ==
  /\ load \in DOMAIN Fixed
  /\ call' = [call EXCEPT ![c] = None]
  /\ UNCHANGED client
  /\ IF answer = Refused /\ call[c].key \in Rivals /\ \E k \in Rivals : k \in DOMAIN named
     THEN UNCHANGED <<named, trouble>>
     ELSE Note(call[c], IF StepNow.fate = "discarded" THEN AnswerTo(call[c]) ELSE answer)

-----------------------------------------------------------------------------
Fates ==
  IF load \in DOMAIN Fixed THEN {StepNow.fate}
  ELSE {"answered", "discarded", "unreached", "late"}

Take(c, answer) == TakeOutage(c, answer) \/ TakeRound(c, answer) \/ TakeStep(c, answer)

(* A request runs and is answered, runs and its answer is lost, never runs,*)
(* or is given up and left to run later.                                   *)
Serve(c, fate) ==
  LET r == call[c]
  IN  /\ r # None
      /\ IF fate \in {"answered", "discarded"} THEN Run(r) ELSE UNCHANGED rows
      /\ late' = IF fate = "late" THEN late \cup {r} ELSE late
      /\ Take(c, IF fate = "answered" THEN AnswerTo(r) ELSE Unknown)

RunLate(r) ==
  /\ Run(r)
  /\ late' = late \ {r}
  /\ UNCHANGED <<call, named, client, trouble>>

Init ==
  /\ load \in {"outage", "rounds"} \cup DOMAIN Fixed
  /\ order = <<>> /\ holder = <<>> /\ record = <<>>
  /\ call = [c \in Caller |-> None] /\ late = {}
  /\ named = <<>> /\ trouble = {}
  /\ client = CASE load = "outage" -> [stage |-> "prepare", sent |-> 0, drained |-> {}]
                [] load = "rounds" -> [next |-> 1, done |-> 0, attempt |-> 0]
                [] OTHER           -> [step |-> 0]

Next ==
  /\ UNCHANGED load
  /\ \/ \E op \in Cancellations : Prepare(op)
     \/ \E op \in Operations : Reconcile(op)
     \/ \E i \in 1..Arrivals : Arrive(i)
     \/ NextStage
     \/ SendRound
     \/ SendStep
     \/ \E c \in Caller : call[c] # None /\ \E fate \in Fates : Serve(c, fate)
     \/ \E r \in late : RunLate(r)

Spec == Init /\ [][Next]_vars

-----------------------------------------------------------------------------
(* What the audits read: the orders the client was told of and no others,  *)
(* each with its events, its keys and its item, whatever still runs.       *)
Audited ==
  /\ DOMAIN record = DOMAIN named
  /\ DOMAIN order = {named[k] : k \in DOMAIN named}
  /\ \A id \in DOMAIN order :
       LET keys == {k \in DOMAIN named : named[k] = id}
           open == \A k \in keys : k[3] # "cancel"
       IN  /\ order[id].status = IF open THEN "pending_payment" ELSE "cancelled"
           /\ order[id].events = IF open THEN <<"create">> ELSE <<"create", "cancel">>
           /\ Cardinality(keys) = Len(order[id].events)
           /\ open <=> /\ order[id].item \in DOMAIN holder
                       /\ holder[order[id].item] = id

Ended ==
  CASE load = "outage" -> client.stage = "audit"
    [] load = "rounds" -> Free /\ client.next > Rounds /\ trouble = {}
    [] OTHER           -> Free /\ client.step = Len(Fixed[load])

(* A workload accounts for its writes: none of its requests is refused or  *)
(* answered with another order, however many copies of them run and when,  *)
(* and the audit at its end finds one order for each operation.            *)
WritesAccounted ==
  /\ trouble \cap {"refused", "renamed"} = {}
  /\ Ended => Audited
=============================================================================
