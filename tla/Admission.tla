----------------------------- MODULE Admission -----------------------------
(***************************************************************************)
(* The bound on requests whose handlers run at once. A slot is taken       *)
(* before the handler and given back when its answer is ready; a client    *)
(* may hang up meanwhile, and the server's work goes on without it.        *)
(***************************************************************************)
EXTENDS Naturals, FiniteSets

CONSTANTS
  Request,
  Live,  \* those to the liveness probe, which need no slot
  Limit

VARIABLES
  accepted, \* RequestAdmission.accepted
  request,
  client    \* whether each request's client is still there

vars == <<accepted, request, client>>

TypeOK ==
  /\ accepted \subseteq Request
  /\ request \in [Request -> {"idle", "parsed", "running", "answered"}]
  /\ client \in [Request -> BOOLEAN]

Init ==
  /\ accepted = {}
  /\ request = [r \in Request |-> "idle"]
  /\ client = [r \in Request |-> FALSE]

Goto(r, s) == request' = [request EXCEPT ![r] = s]
Release(r) == accepted' = accepted \ {r}

(* onRequest, and the body is read.                                        *)
Arrive(r) ==
  /\ request[r] = "idle" /\ ~client[r]
  /\ Goto(r, "parsed")
  /\ client' = [client EXCEPT ![r] = TRUE]
  /\ UNCHANGED accepted

(* Fault: a request takes a slot as it leaves the check, not in it.        *)
AdmitOneMore(r) ==
  /\ request[r] = "parsed"
  /\ \/ r \in Live /\ UNCHANGED accepted
     \/ r \notin Live /\ Cardinality(accepted) <= Limit
          /\ accepted' = accepted \cup {r}
  /\ Goto(r, "running")
  /\ UNCHANGED client

Admit(r) ==
  /\ request[r] = "parsed"
  /\ \/ r \in Live /\ UNCHANGED accepted
     \/ r \notin Live /\ Cardinality(accepted) < Limit
          /\ accepted' = accepted \cup {r}
  /\ Goto(r, "running")
  /\ UNCHANGED client

(* 503 OVERLOADED, which passes onSend as every answer does.               *)
Overload(r) ==
  /\ request[r] = "parsed" /\ r \notin Live
  /\ Cardinality(accepted) >= Limit
  /\ Release(r)
  /\ Goto(r, "answered")
  /\ UNCHANGED client

HangUp(r) ==
  /\ client[r] /\ request[r] # "idle"
  /\ client' = [client EXCEPT ![r] = FALSE]
  /\ UNCHANGED <<accepted, request>>

(* The handler's answer, or its error: onSend.                             *)
Finish(r) ==
  /\ request[r] = "running"
  /\ Release(r)
  /\ Goto(r, "answered")
  /\ UNCHANGED client

(* The answer is out, onResponse, or there is nobody to send it to.        *)
Respond(r) ==
  /\ request[r] = "answered"
  /\ IF client[r] THEN Release(r) ELSE UNCHANGED accepted
  /\ Goto(r, "idle")
  /\ client' = [client EXCEPT ![r] = FALSE]

Next ==
  \E r \in Request : \/ Arrive(r) \/ Admit(r) \/ Overload(r)
                     \/ HangUp(r) \/ Finish(r) \/ Respond(r)

Spec == Init /\ [][Next]_vars

-----------------------------------------------------------------------------
Running == {r \in Request \ Live : request[r] = "running"}

(* No more than Limit handlers work at once, those whose clients have hung *)
(* up included, and a slot is held for exactly these.                      *)
WorkBounded == Cardinality(Running) <= Limit /\ accepted = Running
=============================================================================
