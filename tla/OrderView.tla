----------------------------- MODULE OrderView -----------------------------
(***************************************************************************)
(* The page of one order, open under one session: the order itself, the    *)
(* records of its history and the balances are read by requests of their   *)
(* own, while the order moves on. The order is polled; the rest is read    *)
(* again when the page sees its status change, or after a command of its   *)
(* own.                                                                    *)
(***************************************************************************)
EXTENDS Naturals

CONSTANTS
  MaxSteps,  \* bound: commits on the order
  MaxPolls,  \* bound: reloads that the page asks for
  Unread, Failed

VARIABLES
  rows,      \* the commit that wrote the status last, and the last of all
  request,   \* useApiResource.requestRef of each resource
  result,    \* useApiResource.result of each
  previous,  \* previousStatus.current
  changed,   \* history: the page has seen the status change
  command,   \* useOrderCommand: none under way, sent, or carried out
  polls      \* reloads asked for so far

vars == <<rows, request, result, previous, changed, command, polls>>

Records == {"history", "balances"}
Resource == Records \cup {"order"}

Fresh == [inFlight |-> TRUE, queued |-> FALSE, scheduled |-> FALSE, answer |-> Unread]
Commit == 0..MaxSteps

TypeOK ==
  /\ rows \in [status : Commit, last : Commit] /\ rows.status <= rows.last
  /\ request \in [Resource -> [inFlight : BOOLEAN, queued : BOOLEAN,
                               scheduled : BOOLEAN,
                               answer : Commit \cup {Unread, Failed}]]
  /\ result \in [Resource -> Commit \cup {Unread, Failed}]
  /\ previous \in Commit \cup {Unread} /\ changed \in BOOLEAN
  /\ command \in {"none", "sent", "done"} /\ polls \in 0..MaxPolls

(* The page has just been opened, and its effects have sent the requests.  *)
Init ==
  /\ rows = [status |-> 0, last |-> 0]
  /\ request = [r \in Resource |-> Fresh]
  /\ result = [r \in Resource |-> Unread]
  /\ previous = Unread /\ changed = FALSE
  /\ command = "none" /\ polls = 0

-----------------------------------------------------------------------------
(* The server. No status comes back once it is left (Trade, and Deliver    *)
(* within an issue), so a status is told by the commit that wrote it.      *)
Advance ==
  rows' = [status |-> rows.last + 1, last |-> rows.last + 1]

(* A request for a refund, an offer, a delivery within an issue, a note.   *)
Record == rows' = [rows EXCEPT !.last = @ + 1]

(* The other participant, the administrator or a timer.                    *)
Elsewhere ==
  /\ rows.last < MaxSteps
  /\ Advance \/ Record
  /\ UNCHANGED <<request, result, previous, changed, command, polls>>

(* participantOrder and the reads below it.                                *)
Read(r) == IF r = "order" THEN rows.status ELSE rows.last

Answer(r) ==
  /\ request[r].inFlight /\ request[r].answer = Unread
  /\ \E a \in {Read(r), Failed} : request' = [request EXCEPT ![r].answer = a]
  /\ UNCHANGED <<rows, result, previous, changed, command, polls>>

-----------------------------------------------------------------------------
(* Fault: a reload asked for while a request is under way is left to it.   *)
ReloadedUnlessBusy(asked, q) ==
  [r \in Resource |->
     IF r \in asked /\ ~q[r].inFlight THEN [q[r] EXCEPT !.scheduled = TRUE] ELSE q[r]]

(* reload of each resource in asked.                                       *)
Reloaded(asked, q) ==
  [r \in Resource |->
     IF r \notin asked \/ q[r].scheduled THEN q[r]
     ELSE IF q[r].inFlight THEN [q[r] EXCEPT !.queued = TRUE]
                           ELSE [q[r] EXCEPT !.scheduled = TRUE]]

(* The request is over, and a reload that was asked for meanwhile is due.  *)
Finished(r) ==
  [request EXCEPT ![r].inFlight = FALSE, ![r].queued = FALSE,
                  ![r].scheduled = request[r].queued]

(* The effect of a new revision.                                           *)
Begin(r) ==
  /\ request[r].scheduled
  /\ request' = [request EXCEPT ![r] = Fresh]
  /\ UNCHANGED <<rows, result, previous, changed, command, polls>>

Take(r) ==
  /\ request[r].inFlight /\ request[r].answer # Unread
  /\ result' = [result EXCEPT ![r] = request[r].answer]
  /\ UNCHANGED <<rows, command, polls>>

TakeRecords(r) ==
  /\ Take(r)
  /\ request' = Finished(r)
  /\ UNCHANGED <<previous, changed>>

(* The page compares the status with the one before.                       *)
TakeOrder ==
  LET status == request["order"].answer
      moved == previous # Unread /\ status # previous
  IN  /\ Take("order")
      /\ IF status = Failed
         THEN request' = Finished("order") /\ UNCHANGED <<previous, changed>>
         ELSE /\ previous' = status
              /\ changed' = (changed \/ moved)
              /\ request' = Reloaded(IF moved THEN Records ELSE {}, Finished("order"))

-----------------------------------------------------------------------------
(* useVisiblePolling. *)
Poll ==
  /\ polls < MaxPolls
  /\ ~request["order"].inFlight /\ ~request["order"].scheduled
  /\ request' = Reloaded({"order"}, request)
  /\ polls' = polls + 1
  /\ UNCHANGED <<rows, result, previous, changed, command>>

(* act, retry, the rating and the note: only a page that shows the order   *)
(* has them.                                                               *)
Send ==
  /\ result["order"] \in Commit /\ command = "none"
  /\ command' = "sent"
  /\ UNCHANGED <<rows, request, result, previous, changed, polls>>

CarriedOut ==
  /\ command = "sent" /\ rows.last < MaxSteps
  /\ Advance \/ Record
  /\ command' = "done"
  /\ UNCHANGED <<request, result, previous, changed, polls>>

(* act reloads all three, a retry leaves the balances to the effect above, *)
(* a rating reloads the order alone and a note the history alone.          *)
CommandAnswered ==
  /\ command = "done" /\ polls < MaxPolls
  /\ \E asked \in {Resource, Resource \ {"balances"}, {"order"}, {"history"}} :
       request' = Reloaded(asked, request)
  /\ command' = "none" /\ polls' = polls + 1
  /\ UNCHANGED <<rows, result, previous, changed>>

Refused ==
  /\ command = "sent"
  /\ command' = "none"
  /\ UNCHANGED <<rows, request, result, previous, changed, polls>>

Next ==
  \/ Elsewhere
  \/ \E r \in Resource : Answer(r) \/ Begin(r)
  \/ \E r \in Records : TakeRecords(r)
  \/ TakeOrder
  \/ Poll \/ Send \/ CarriedOut \/ CommandAnswered \/ Refused

Spec == Init /\ [][Next]_vars

-----------------------------------------------------------------------------
(* Once the page has seen the status change, the records it settles on are *)
(* no older than the status they stand under: whatever was read before,    *)
(* in whichever order the answers come, no payment or refund is missing    *)
(* below a status that rests on it (page.tsx effect on the status,         *)
(* useApiResource reload). It does not hold of the first load, whose       *)
(* requests no order binds.                                                *)
Settled(r) == ~request[r].inFlight /\ ~request[r].scheduled

HistoryFollows ==
  changed /\ result["order"] \in Commit =>
    \A r \in Records :
      Settled(r) /\ result[r] \in Commit => result[r] >= result["order"]
=============================================================================
