------------------------------ MODULE RowLocks ------------------------------
(***************************************************************************)
(* The row locks of the commands on listings. Each command locks its rows  *)
(* one after another and keeps them until it commits; two that wait for    *)
(* each other are told apart by PostgreSQL, which aborts one of them, and  *)
(* by the retries of transact, of which there are few.                     *)
(***************************************************************************)
EXTENDS Naturals, FiniteSets, SequencesExt

CONSTANTS
  Call,        \* transactions, one command each
  Command,     \* [Call -> [kind, listings, replaced, assets]]
  Images,      \* the ids of a listing's images by position, as edits leave them
  MaxAttempts  \* transactionPolicy.defaultAttempts

VARIABLES
  state,
  attempt,
  left, \* the rows a call has still to lock, in its order
  held

vars == <<state, attempt, left, held>>

-----------------------------------------------------------------------------
(* What each command locks. Ids compare as numbers here. A listing and an  *)
(* asset are locked for update, a share is the key share of an asset that  *)
(* the foreign key of a snapshot takes.                                    *)

Rows(table, ids) == [i \in 1..Len(ids) |-> <<table, ids[i]>>]
Sorted(ids) ==
  [i \in 1..Cardinality(ids) |->
     CHOOSE x \in ids : Cardinality({y \in ids : y < x}) = i - 1]

(* Fault: the lines of a cart are locked as the buyer put them in.         *)
CheckoutUnsorted(c) == Rows("listing", c.listings)

(* A purchase, of one listing or of a cart.                                *)
Checkout(c) == Rows("listing", Sorted(ToSet(c.listings)))

(* createOne: once a line has its listing, and before the next line, it    *)
(* copies the listing's images into OrderMediaSnapshot.                    *)
Snapshots(c, row) ==
  IF c.kind = "checkout" /\ row[1] = "listing"
  THEN {Rows("share", ids) : ids \in Images[row[2]]}
  ELSE {<<>>}

Ruling(c) == Rows("listing", c.listings \o c.replaced)
Edit(c) == Rows("listing", c.listings) \o Rows("asset", Sorted(c.assets))
Publish(c) == Rows("listing", c.replaced) \o Rows("asset", Sorted(c.assets))
Retire(c) == Rows("asset", Sorted(c.assets))

Plan(c) ==
  CASE c.kind = "checkout" -> Checkout(c)
    [] c.kind = "order" -> Rows("listing", c.listings)
    [] c.kind = "ruling" -> Ruling(c)
    [] c.kind = "edit" -> Edit(c)
    [] c.kind = "publish" -> Publish(c)
    [] c.kind = "retire" -> Retire(c)

-----------------------------------------------------------------------------
TypeOK ==
  /\ state \in [Call -> {"idle", "open", "done", "exhausted"}]
  /\ attempt \in [Call -> 1..MaxAttempts]
  /\ \A t \in Call : \A row \in held[t] : row[1] \in {"listing", "asset", "share"}

Init ==
  /\ state = [t \in Call |-> "idle"]
  /\ attempt = [t \in Call |-> 1]
  /\ left = [t \in Call |-> <<>>]
  /\ held = [t \in Call |-> {}]

(* Shares of an asset go together, nothing else does.                      *)
Conflicts(row, other) ==
  /\ row[2] = other[2]
  /\ {row[1], other[1]} \in {{"listing"}, {"asset"}, {"asset", "share"}}

Blockers(t) ==
  {u \in Call \ {t} : left[t] # <<>> /\ \E row \in held[u] : Conflicts(Head(left[t]), row)}

(* The calls that t waits for, one after another.                          *)
WaitsFor(t) ==
  LET Chain[n \in 1..Cardinality(Call)] ==
        IF n = 1 THEN Blockers(t) ELSE UNION {Blockers(u) : u \in Chain[n - 1]}
  IN  UNION {Chain[n] : n \in DOMAIN Chain}
Deadlocked(t) == t \in WaitsFor(t)

Begin(t) ==
  /\ state[t] = "idle"
  /\ state' = [state EXCEPT ![t] = "open"]
  /\ left' = [left EXCEPT ![t] = Plan(Command[t])]
  /\ UNCHANGED <<attempt, held>>

Lock(t) ==
  /\ left[t] # <<>> /\ Blockers(t) = {}
  /\ held' = [held EXCEPT ![t] = @ \cup {Head(left[t])}]
  /\ \E shares \in Snapshots(Command[t], Head(left[t])) :
       left' = [left EXCEPT ![t] = shares \o Tail(@)]
  /\ UNCHANGED <<state, attempt>>

Commit(t) ==
  /\ state[t] = "open" /\ left[t] = <<>>
  /\ state' = [state EXCEPT ![t] = "done"]
  /\ held' = [held EXCEPT ![t] = {}]
  /\ UNCHANGED <<attempt, left>>

Retry(t) ==
  \/ /\ attempt[t] < MaxAttempts
     /\ attempt' = [attempt EXCEPT ![t] = @ + 1]
     /\ state' = [state EXCEPT ![t] = "idle"]
  \/ /\ attempt[t] >= MaxAttempts
     /\ state' = [state EXCEPT ![t] = "exhausted"]
     /\ UNCHANGED attempt

(* Fault: an aborted transaction keeps its rows over the pause.            *)
AbortHolding(t) ==
  /\ left' = [left EXCEPT ![t] = <<>>]
  /\ Retry(t)
  /\ UNCHANGED held

(* A retryable error rolls back: transact tries again, or gives up.        *)
Abort(t) ==
  /\ left' = [left EXCEPT ![t] = <<>>]
  /\ held' = [held EXCEPT ![t] = {}]
  /\ Retry(t)

(* PostgreSQL's deadlock check picks a call of the cycle: 40P01.           *)
BreakDeadlock(t) == Deadlocked(t) /\ Abort(t)

(* Any wait may be too long for lock_timeout: 55P03.                       *)
TimeOut(t) == Blockers(t) # {} /\ Abort(t)

Step(t) == Begin(t) \/ Lock(t) \/ Commit(t) \/ BreakDeadlock(t)

Next == \E t \in Call : Step(t) \/ TimeOut(t)

Spec == Init /\ [][Next]_vars
LiveSpec == Spec /\ \A t \in Call : WF_vars(Step(t))

-----------------------------------------------------------------------------
(* An edit or a publication that names an image of a listing somebody else *)
(* is buying: an image belongs to one listing, so it will be refused       *)
(* (LISTING_CONFLICT), but only once it has locked what it names.          *)
Misnames(u, v) ==
  /\ Command[u].kind \in {"edit", "publish"} /\ Command[v].kind = "checkout"
  /\ \E row \in held[v] \ held[u] :
       /\ row[1] = "listing"
       /\ \E ids \in Images[row[2]] : ToSet(ids) \cap Command[u].assets # {}

(* No circle of waiting calls without the ruling on a replacement, which   *)
(* locks its listing and then the one it replaces, or a request that names *)
(* an image of another's listing while that is bought. Carts, single       *)
(* orders, edits and publications in order and the media worker cannot     *)
(* close one among them.                                                   *)
CirclesHaveCause ==
  \A t \in Call : Deadlocked(t) =>
    \/ \E u \in WaitsFor(t) : Command[u].kind = "ruling"
    \/ \E u, v \in WaitsFor(t) : Misnames(u, v)

(* Once a call has begun all of them come to an end, whoever waits for     *)
(* whose rows.                                                             *)
CallsEnd ==
  (\E t \in Call : state[t] = "open")
    ~> (\A t \in Call : state[t] \in {"done", "exhausted"})
=============================================================================
