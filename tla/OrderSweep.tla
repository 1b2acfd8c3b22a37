----------------------------- MODULE OrderSweep -----------------------------
(***************************************************************************)
(* The payment timer of every API process (order-expiry.ts): each sweep    *)
(* reads one page of overdue unpaid orders after its cursor and expires    *)
(* them one transaction at a time (expirePendingPaymentOrders), while      *)
(* buyers pay and cancel, orders become overdue and processes restart.     *)
(* What the transaction does to the market is Expire of OrderCommands.     *)
(***************************************************************************)
EXTENDS Naturals, Sequences

CONSTANTS
  Order,     \* order ids
  Sweeper,   \* API processes, each with a timer
  Limit,     \* orderExpiryBatchSize
  NoRow      \* cursor = null

ASSUME SweepAssumption == Limit \in Nat \ {0} /\ NoRow \notin Order

VARIABLES
  table,     \* the rows a sweep can see or name, by createdAt and id
  unpaid,    \* those in pending_payment and older than the payment age
  broken,    \* those whose stock row is not theirs: expiry reports a conflict
  running,   \* running[w]: a sweep of w is in progress
  cursor,    \* cursor[w]: where its next sweep starts
  page,      \* page[w]: the candidates its sweep has not come to yet
  next       \* next[w]: nextCursor of its sweep

vars == <<table, unpaid, broken, running, cursor, page, next>>

Rows == {table[i] : i \in DOMAIN table}

TypeOK ==
  /\ table \in Seq(Order)
  /\ \A i, j \in DOMAIN table : table[i] = table[j] => i = j
  /\ unpaid \subseteq Rows /\ broken \subseteq unpaid
  /\ running \in [Sweeper -> BOOLEAN]
  /\ cursor \in [Sweeper -> Rows \cup {NoRow}]
  /\ page \in [Sweeper -> Seq(Rows)]
  /\ next \in [Sweeper -> Rows \cup {NoRow}]

Init ==
  /\ table = <<>> /\ unpaid = {} /\ broken = {}
  /\ running = [w \in Sweeper |-> FALSE]
  /\ cursor = [w \in Sweeper |-> NoRow]
  /\ page = [w \in Sweeper |-> <<>>]
  /\ next = [w \in Sweeper |-> NoRow]

-----------------------------------------------------------------------------
(* Prisma's findMany with a cursor: rows at or after the cursor row, which *)
(* is looked up whatever its status is now; the filter on the status comes *)
(* next, and skip drops the first row of what the filter leaves.           *)
From(row) == LET at == CHOOSE i \in DOMAIN table : table[i] = row
             IN  SubSeq(table, at, Len(table))

Matching(row) ==
  LET overdue(o) == o \in unpaid
  IN  IF row = NoRow
      THEN SelectSeq(table, overdue)
      ELSE LET found == SelectSeq(From(row), overdue)
           IN  SubSeq(found, 2, Len(found))

Candidates(row) ==
  LET found == Matching(row)
  IN  SubSeq(found, 1, IF Len(found) < Limit THEN Len(found) ELSE Limit)

LastOf(rows) == IF rows = <<>> THEN NoRow ELSE rows[Len(rows)]

(* A row that is no longer unpaid and that no sweep names is out of sight; *)
(* its id then stands for a later order.                                   *)
Named == {cursor'[w] : w \in Sweeper} \cup {next'[w] : w \in Sweeper}
           \cup UNION {{page'[w][i] : i \in DOMAIN page'[w]} : w \in Sweeper}
Forget == table' = LET kept(o) == o \in unpaid' \/ o \in Named
                   IN  SelectSeq(table, kept)

-----------------------------------------------------------------------------
(* The rest of the market. *)

(* An unpaid order passes the payment age; its stock row may be wrong.     *)
Ripen(o) ==
  /\ o \notin Rows
  /\ table' = Append(table, o)
  /\ unpaid' = unpaid \cup {o}
  /\ broken' \in {broken, broken \cup {o}}
  /\ UNCHANGED <<running, cursor, page, next>>

(* Its buyer pays or cancels; both refuse an order without its stock.      *)
Leave(o) ==
  /\ o \in unpaid \ broken
  /\ unpaid' = unpaid \ {o}
  /\ UNCHANGED <<broken, running, cursor, page, next>>
  /\ Forget

Repair(o) ==
  /\ o \in broken
  /\ broken' = broken \ {o}
  /\ UNCHANGED <<table, unpaid, running, cursor, page, next>>

-----------------------------------------------------------------------------
(* One sweep. *)

Begin(w) ==
  /\ ~running[w]
  /\ running' = [running EXCEPT ![w] = TRUE]
  /\ page' = [page EXCEPT ![w] = Candidates(cursor[w])]
  /\ next' = [next EXCEPT ![w] = LastOf(Candidates(cursor[w]))]
  /\ UNCHANGED <<unpaid, broken, cursor>>
  /\ Forget

(* One candidate: expired, skipped because it was paid meanwhile, or       *)
(* reported as failed and left alone.                                      *)
Attempt(w, o) ==
  /\ running[w] /\ page[w] # <<>> /\ Head(page[w]) = o
  /\ page' = [page EXCEPT ![w] = Tail(@)]
  /\ unpaid' = IF o \in broken THEN unpaid ELSE unpaid \ {o}
  /\ UNCHANGED <<broken, running, cursor, next>>
  /\ Forget

(* Any other error ends the sweep; the cursor stays where it was.          *)
Abort(w) ==
  /\ running[w] /\ page[w] # <<>>
  /\ running' = [running EXCEPT ![w] = FALSE]
  /\ page' = [page EXCEPT ![w] = <<>>]
  /\ next' = [next EXCEPT ![w] = NoRow]
  /\ UNCHANGED <<unpaid, broken, cursor>>
  /\ Forget

(* Fault: an empty page leaves the cursor at the end of the table.         *)
FinishKeepingCursor(w) ==
  /\ running[w] /\ page[w] = <<>>
  /\ running' = [running EXCEPT ![w] = FALSE]
  /\ cursor' = [cursor EXCEPT ![w] = IF next[w] = NoRow THEN @ ELSE next[w]]
  /\ next' = [next EXCEPT ![w] = NoRow]
  /\ UNCHANGED <<unpaid, broken, page>>
  /\ Forget

(* An empty page puts the cursor back to the start.                        *)
Finish(w) ==
  /\ running[w] /\ page[w] = <<>>
  /\ running' = [running EXCEPT ![w] = FALSE]
  /\ cursor' = [cursor EXCEPT ![w] = next[w]]
  /\ next' = [next EXCEPT ![w] = NoRow]
  /\ UNCHANGED <<unpaid, broken, page>>
  /\ Forget

(* The process crashes or is stopped, and starts again.                    *)
Restart(w) ==
  /\ running' = [running EXCEPT ![w] = FALSE]
  /\ cursor' = [cursor EXCEPT ![w] = NoRow]
  /\ page' = [page EXCEPT ![w] = <<>>]
  /\ next' = [next EXCEPT ![w] = NoRow]
  /\ UNCHANGED <<unpaid, broken>>
  /\ Forget

Next ==
  \/ \E o \in Order : Ripen(o) \/ Leave(o) \/ Repair(o)
  \/ \E w \in Sweeper :
       \/ Begin(w) \/ Abort(w) \/ Finish(w) \/ Restart(w)
       \/ \E o \in Order : Attempt(w, o)

(* The interval timer calls sweep again and again, and a sweep runs to its *)
(* end; a candidate that is reached again and again is not struck by an    *)
(* error every time (lock timeouts and lost connections pass).             *)
Fairness ==
  \A w \in Sweeper :
    /\ WF_vars(Begin(w)) /\ WF_vars(Finish(w))
    /\ \A o \in Order : SF_vars(Attempt(w, o))

Spec == Init /\ [][Next]_vars /\ Fairness

-----------------------------------------------------------------------------
Overdue(o) == o \in unpaid \ broken

(* Every overdue order with sound stock leaves the unpaid state: one that  *)
(* fails does not hold up the others, and one that is repaired, or that    *)
(* the cursor jumped over, is met again when the scan starts over.         *)
EveryOverdueExpires == \A o \in Order : Overdue(o) ~> o \notin unpaid

(* The scan drains the overdue orders once no more become overdue and      *)
(* processes stop restarting: whatever rows the cursor jumped over, left   *)
(* by payments and expiries in the middle of a scan, are met later         *)
(* (expirePendingPaymentOrders, startOrderExpiry).                         *)
Calm == <>[][\A o \in Order, w \in Sweeper : ~Ripen(o) /\ ~Restart(w)]_vars

CalmDrains == Calm => EveryOverdueExpires

(* "Having scanned to the end it starts over from the beginning, and an    *)
(* order is processed again once its anomaly is repaired"                  *)
(* (backend/README.md:96), here for processes that meet no error.          *)
Undisturbed == <>[][\A w \in Sweeper : ~Abort(w) /\ ~Restart(w)]_vars

ScanStartsOver == Undisturbed => EveryOverdueExpires
=============================================================================
