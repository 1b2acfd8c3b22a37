------------------------------- MODULE Media -------------------------------
(***************************************************************************)
(* Images: uploaded to a staging key, copied by a completion to a key of   *)
(* their own, named by listings and by the snapshots of orders, and moved  *)
(* by a background worker from the hot store to the cold one. Rows live in *)
(* the database, bytes in an object store, and no transaction spans both.  *)
(***************************************************************************)
EXTENDS Naturals, Sequences

CONSTANTS
  Asset, Order, Request, Worker,
  Byte,     \* contents that pass the checks of a completion
  Junk,     \* a content that does not
  None,
  MaxFaults \* bound: failed store calls and crashes

VARIABLES
  asset,   \* MediaAsset
  listed,  \* ListingMedia: the assets a listing names
  snap,    \* OrderMediaSnapshot
  store,   \* the objects of both tiers
  request, \* completions in progress
  worker,  \* archive-order-media processes
  faults

vars == <<asset, listed, snap, store, request, worker, faults>>

Status == {"none", "pending", "expired", "discarded", "ready", "cold_only"}

Staging(a) == <<"staging/", a>>
Final(a, r) == <<"assets/", a, r>>
Archive(a, b) == <<"archive/", a, b>>
Key == {Staging(a) : a \in Asset}
         \cup {Final(a, r) : a \in Asset, r \in Request}
         \cup {Archive(a, b) : a \in Asset, b \in Byte}

(* Compose and start.sh run one archive-order-media process.               *)
ASSUME MediaAssumption ==
  /\ None \notin Asset \cup Order \cup Worker \cup Byte \cup Key
  /\ MaxFaults \in Nat
  /\ \A v, w \in Worker : v = w

Phases == <<"archive", "expire", "retire", "assets/", "staging/", "archive/">>
Start == [phase |-> 1, listed |-> FALSE, todo |-> {}, item |-> None,
          step |-> "idle", cold |-> None]

Task == Order \cup Asset \cup Key \cup (Asset \X {"pending", "expired"})

TypeOK ==
  /\ asset \in [Asset -> [status : Status, hot : Key \cup {None},
                          cold : Key \cup {None}, sha : Byte \cup {None},
                          aged : BOOLEAN, open : BOOLEAN]]
  /\ listed \subseteq Asset
  /\ snap \in [Order -> [media : Asset \cup {None}, tier : {"hot", "cold"},
                         due : BOOLEAN, settled : BOOLEAN,
                         token : Worker \cup {None}, lapsed : BOOLEAN]]
  /\ DOMAIN store \subseteq Key
  /\ \A k \in DOMAIN store :
       store[k] \in [bytes : Byte \cup {Junk}, old : BOOLEAN]
  /\ request \in [Request -> [step : {"new", "fetch", "put", "commit", "undo",
                                      "tidy", "done"},
                              asset : Asset \cup {None},
                              bytes : Byte \cup {None}]]
  /\ worker \in [Worker -> [phase : 1..Len(Phases), listed : BOOLEAN,
                            todo : SUBSET Task, item : Task \cup {None},
                            step : {"idle", "fetch", "put", "verify", "switch",
                                    "release", "erase", "discard", "lock"},
                            cold : Key \cup {None}]]
  /\ faults \in 0..MaxFaults

Init ==
  /\ asset = [a \in Asset |-> [status |-> "none", hot |-> None, cold |-> None,
                              sha |-> None, aged |-> FALSE, open |-> FALSE]]
  /\ listed = {}
  /\ snap = [o \in Order |-> [media |-> None, tier |-> "hot", due |-> FALSE,
                             settled |-> FALSE, token |-> None, lapsed |-> FALSE]]
  /\ store = [k \in {} |-> [bytes |-> Junk, old |-> FALSE]]
  /\ request = [r \in Request |-> [step |-> "new", asset |-> None, bytes |-> None]]
  /\ worker = [w \in Worker |-> Start]
  /\ faults = 0

-----------------------------------------------------------------------------
(* The object store. *)

Exists(k) == k \in DOMAIN store
Holds(k, b) == Exists(k) /\ store[k].bytes = b
Put(k, b) ==
  store' = [x \in DOMAIN store \cup {k} |->
              IF x = k THEN [bytes |-> b, old |-> FALSE] ELSE store[x]]
Delete(k) == store' = [x \in DOMAIN store \ {k} |-> store[x]]

Fault == faults < MaxFaults /\ faults' = faults + 1

-----------------------------------------------------------------------------
(* Uploads. *)

Intent(a) ==
  /\ asset[a].status = "none"
  /\ asset' = [asset EXCEPT ![a].status = "pending", ![a].open = TRUE]
  /\ UNCHANGED <<listed, snap, store, request, worker, faults>>

(* A signed URL takes any number of uploads while it is open.              *)
Upload(a, b) ==
  /\ asset[a].open
  /\ Put(Staging(a), b)
  /\ UNCHANGED <<asset, listed, snap, request, worker, faults>>

Goto(r, s) == request' = [request EXCEPT ![r].step = s]

Complete(r, a) ==
  /\ request[r].step = "new" /\ asset[a].status = "pending"
  /\ request' = [request EXCEPT ![r].step = "fetch", ![r].asset = a]
  /\ UNCHANGED <<asset, listed, snap, store, worker, faults>>

Fetch(r) ==
  LET k == Staging(request[r].asset) IN
  /\ request[r].step = "fetch"
  /\ \/ \E b \in Byte :
          /\ Holds(k, b)
          /\ request' = [request EXCEPT ![r].step = "put", ![r].bytes = b]
     \/ /\ ~\E b \in Byte : Holds(k, b)
        /\ Goto(r, "done")
  /\ UNCHANGED <<asset, listed, snap, store, worker, faults>>

FinalKey(r) == Final(request[r].asset, r)

PutFinal(r) ==
  /\ request[r].step = "put"
  /\ Put(FinalKey(r), request[r].bytes)
  /\ Goto(r, "commit")
  /\ UNCHANGED <<asset, listed, snap, worker, faults>>

(* Fault: the update does not ask that the image still be pending.         *)
CommitAnyway(r) ==
  LET a == request[r].asset IN
  /\ request[r].step = "commit"
  /\ asset' = [asset EXCEPT ![a].status = "ready", ![a].hot = FinalKey(r),
                            ![a].sha = request[r].bytes]
  /\ Goto(r, "tidy")
  /\ UNCHANGED <<listed, snap, store, worker, faults>>

Commit(r) ==
  LET a == request[r].asset IN
  /\ request[r].step = "commit"
  /\ \/ /\ asset[a].status = "pending"
        /\ asset' = [asset EXCEPT ![a].status = "ready", ![a].hot = FinalKey(r),
                                  ![a].sha = request[r].bytes]
        /\ Goto(r, "tidy")
     \/ /\ asset[a].status # "pending"
        /\ Goto(r, "undo")
        /\ UNCHANGED asset
  /\ UNCHANGED <<listed, snap, store, worker, faults>>

Tidy(r) ==
  /\ \/ request[r].step = "undo" /\ Delete(FinalKey(r))
     \/ request[r].step = "tidy" /\ Delete(Staging(request[r].asset))
  /\ Goto(r, "done")
  /\ UNCHANGED <<asset, listed, snap, worker, faults>>

(* A store call fails, or the server dies.                                 *)
Abandon(r) ==
  /\ request[r].step \notin {"new", "done"}
  /\ Fault
  /\ Goto(r, "done")
  /\ UNCHANGED <<asset, listed, snap, store, worker>>

-----------------------------------------------------------------------------
(* Listings and orders, as far as they name images. *)

Attach(a) ==
  /\ asset[a].status = "ready" /\ a \notin listed
  /\ listed' = listed \cup {a}
  /\ UNCHANGED <<asset, snap, store, request, worker, faults>>

Detach(a) ==
  /\ a \in listed
  /\ listed' = listed \ {a}
  /\ UNCHANGED <<asset, snap, store, request, worker, faults>>

Place(o, a) ==
  /\ snap[o].media = None /\ a \in listed
  /\ snap' = [snap EXCEPT ![o].media = a]
  /\ UNCHANGED <<asset, listed, store, request, worker, faults>>

-----------------------------------------------------------------------------
(* The passing of time: an order completed long ago, a lease run out, an   *)
(* archived row past the grace, a URL closed, an upload or object a day    *)
(* old. A request and a lease are over long before a day.                  *)

InUse(k) ==
  \/ \E r \in Request : request[r].step \in {"commit", "undo"} /\ FinalKey(r) = k
  \/ \E w \in Worker : worker[w].step \in {"verify", "switch"} /\ worker[w].cold = k

Due(o) ==
  /\ snap[o].media # None /\ ~snap[o].due
  /\ snap' = [snap EXCEPT ![o].due = TRUE]
  /\ UNCHANGED <<asset, listed, store, request, worker, faults>>

Lapse(o) ==
  /\ snap[o].token # None /\ ~snap[o].lapsed
  /\ snap' = [snap EXCEPT ![o].lapsed = TRUE]
  /\ UNCHANGED <<asset, listed, store, request, worker, faults>>

Settle(o) ==
  /\ snap[o].tier = "cold" /\ ~snap[o].settled
  /\ snap' = [snap EXCEPT ![o].settled = TRUE]
  /\ UNCHANGED <<asset, listed, store, request, worker, faults>>

Close(a) ==
  /\ asset[a].open
  /\ asset' = [asset EXCEPT ![a].open = FALSE]
  /\ UNCHANGED <<listed, snap, store, request, worker, faults>>

AgeAsset(a) ==
  /\ asset[a].status # "none" /\ ~asset[a].open /\ ~asset[a].aged
  /\ asset' = [asset EXCEPT ![a].aged = TRUE]
  /\ UNCHANGED <<listed, snap, store, request, worker, faults>>

AgeObject(k) ==
  /\ Exists(k) /\ ~store[k].old /\ ~InUse(k)
  /\ store' = [store EXCEPT ![k].old = TRUE]
  /\ UNCHANGED <<asset, listed, snap, request, worker, faults>>

Time ==
  \/ \E o \in Order : Due(o) \/ Lapse(o) \/ Settle(o)
  \/ \E a \in Asset : Close(a) \/ AgeAsset(a)
  \/ \E k \in DOMAIN store : AgeObject(k)

-----------------------------------------------------------------------------
(* The worker: its six parts in turn, each a list read once and then gone  *)
(* through item by item.                                                   *)

In(w, p) == Phases[worker[w].phase] = p
At(w, s) == worker[w].step = s
Item(w) == worker[w].item
Unnamed(k) == ~\E a \in Asset : k \in {asset[a].hot, asset[a].cold}

(* A staging object is named while its upload is pending.                  *)
Untracked(k) ==
  \/ k[1] # "staging/" /\ Unnamed(k)
  \/ k[1] = "staging/" /\ asset[k[2]].status # "pending"

(* Fault: a claim is never taken over.                                     *)
ClaimableOnce(o) == snap[o].token = None

Claimable(o) == snap[o].token = None \/ snap[o].lapsed

RowsOf(a) == {o \in Order : snap[o].media = a}

Retirable(a) ==
  /\ asset[a].status = "ready" /\ asset[a].cold # None
  /\ a \notin listed
  /\ RowsOf(a) # {}
  /\ \A o \in RowsOf(a) : snap[o].tier = "cold" /\ snap[o].settled

DueRows == {o \in Order : /\ snap[o].media # None /\ snap[o].due
                          /\ snap[o].tier = "hot" /\ Claimable(o)}

StaleUploads == {c \in Asset \X {"pending", "expired"} :
                   asset[c[1]].aged /\ asset[c[1]].status = c[2]}

(* Fault: staging objects are left to the expiry of their rows.            *)
LitterOfRows(p) == {k \in DOMAIN store : /\ k[1] = p /\ p # "staging/"
                                         /\ store[k].old /\ Untracked(k)}

Litter(p) == {k \in DOMAIN store : k[1] = p /\ store[k].old /\ Untracked(k)}

Listing(p) ==
  CASE p = "archive" -> DueRows
    [] p = "expire" -> StaleUploads
    [] p = "retire" -> {a \in Asset : Retirable(a)}
    [] OTHER -> Litter(p)

List(w) ==
  /\ ~worker[w].listed
  /\ worker' = [worker EXCEPT ![w].listed = TRUE,
                              ![w].todo = Listing(Phases[worker[w].phase])]
  /\ UNCHANGED <<asset, listed, snap, store, request, faults>>

NextPhase(w) ==
  /\ worker[w].listed /\ worker[w].todo = {} /\ At(w, "idle")
  /\ worker' = [worker EXCEPT
       ![w] = [Start EXCEPT !.phase = (worker[w].phase % Len(Phases)) + 1]]
  /\ UNCHANGED <<asset, listed, snap, store, request, faults>>

(* Take the next item, and carry on with it or pass it over.               *)
Take(w, x, s) ==
  /\ x \in worker[w].todo /\ At(w, "idle")
  /\ worker' = [worker EXCEPT ![w].todo = @ \ {x}, ![w].step = s,
                              ![w].item = IF s = "idle" THEN None ELSE x]

Step(w, s) ==
  worker' = [worker EXCEPT ![w].step = s,
                           ![w].item = IF s = "idle" THEN None ELSE @,
                           ![w].cold = IF s = "idle" THEN None ELSE @]

-----------------------------------------------------------------------------
(* Archive. *)

Claim(w, o) ==
  /\ In(w, "archive")
  /\ \/ /\ snap[o].tier = "hot" /\ Claimable(o)
        /\ Take(w, o, "fetch")
        /\ snap' = [snap EXCEPT ![o].token = w, ![o].lapsed = FALSE]
     \/ /\ ~(snap[o].tier = "hot" /\ Claimable(o))
        /\ Take(w, o, "idle")
        /\ UNCHANGED snap
  /\ UNCHANGED <<asset, listed, store, request, faults>>

FetchHot(w) ==
  LET a == snap[Item(w)].media IN
  /\ In(w, "archive") /\ At(w, "fetch")
  /\ IF asset[a].hot # None /\ Holds(asset[a].hot, asset[a].sha)
       THEN worker' = [worker EXCEPT
              ![w].step = IF asset[a].cold = None THEN "put" ELSE "verify",
              ![w].cold = IF asset[a].cold = None
                            THEN Archive(a, asset[a].sha) ELSE asset[a].cold]
       ELSE Step(w, "release")
  /\ UNCHANGED <<asset, listed, snap, store, request, faults>>

PutCold(w) ==
  /\ In(w, "archive") /\ At(w, "put")
  /\ Put(worker[w].cold, asset[snap[Item(w)].media].sha)
  /\ Step(w, "verify")
  /\ UNCHANGED <<asset, listed, snap, request, faults>>

Verify(w) ==
  /\ In(w, "archive") /\ At(w, "verify")
  /\ IF Holds(worker[w].cold, asset[snap[Item(w)].media].sha)
       THEN Step(w, "switch") ELSE Step(w, "release")
  /\ UNCHANGED <<asset, listed, snap, store, request, faults>>

Switch(w) ==
  LET o == Item(w)
      a == snap[o].media
  IN
  /\ In(w, "archive") /\ At(w, "switch")
  /\ IF asset[a].cold \in {None, worker[w].cold}
       THEN /\ asset' = [asset EXCEPT ![a].cold = worker[w].cold]
            /\ snap' = IF snap[o].tier = "hot" /\ snap[o].token = w
                         THEN [snap EXCEPT ![o].tier = "cold", ![o].token = None,
                                           ![o].lapsed = FALSE]
                         ELSE snap
            /\ Step(w, "idle")
       ELSE /\ Step(w, "release")
            /\ UNCHANGED <<asset, snap>>
  /\ UNCHANGED <<listed, store, request, faults>>

Release(w) ==
  /\ In(w, "archive") /\ At(w, "release")
  /\ snap' = IF snap[Item(w)].token = w
               THEN [snap EXCEPT ![Item(w)].token = None, ![Item(w)].lapsed = FALSE]
               ELSE snap
  /\ Step(w, "idle")
  /\ UNCHANGED <<asset, listed, store, request, faults>>

-----------------------------------------------------------------------------
(* Expire pending uploads. *)

Expire(w, c) ==
  /\ In(w, "expire")
  /\ \/ /\ asset[c[1]].status = c[2]
        /\ Take(w, c, "erase")
        /\ asset' = [asset EXCEPT ![c[1]].status = "expired"]
     \/ /\ asset[c[1]].status # c[2]
        /\ Take(w, c, "idle")
        /\ UNCHANGED asset
  /\ UNCHANGED <<listed, snap, store, request, faults>>

EraseStaging(w) ==
  /\ In(w, "expire") /\ At(w, "erase")
  /\ Delete(Staging(Item(w)[1]))
  /\ Step(w, "discard")
  /\ UNCHANGED <<asset, listed, snap, request, faults>>

Discard(w) ==
  LET a == Item(w)[1] IN
  /\ In(w, "expire") /\ At(w, "discard")
  /\ asset' = IF asset[a].status = "expired"
                THEN [asset EXCEPT ![a].status = "discarded"] ELSE asset
  /\ Step(w, "idle")
  /\ UNCHANGED <<listed, snap, store, request, faults>>

-----------------------------------------------------------------------------
(* Retire hot objects that no row needs. *)

Inspect(w, a) ==
  /\ In(w, "retire")
  /\ Take(w, a, IF Holds(asset[a].cold, asset[a].sha) THEN "lock" ELSE "idle")
  /\ UNCHANGED <<asset, listed, snap, store, request, faults>>

(* Fault: the rows are not read again under the lock.                      *)
RetireUnchecked(w) ==
  LET a == Item(w) IN
  /\ In(w, "retire") /\ At(w, "lock")
  /\ worker' = [worker EXCEPT ![w].step = "erase", ![w].item = asset[a].hot]
  /\ asset' = [asset EXCEPT ![a].status = "cold_only", ![a].hot = None]
  /\ UNCHANGED <<listed, snap, store, request, faults>>

Retire(w) ==
  LET a == Item(w) IN
  /\ In(w, "retire") /\ At(w, "lock")
  /\ \/ /\ Retirable(a)
        /\ worker' = [worker EXCEPT ![w].step = "erase", ![w].item = asset[a].hot]
        /\ asset' = [asset EXCEPT ![a].status = "cold_only", ![a].hot = None]
     \/ /\ ~Retirable(a)
        /\ Step(w, "idle")
        /\ UNCHANGED asset
  /\ UNCHANGED <<listed, snap, store, request, faults>>

-----------------------------------------------------------------------------
(* Reconcile untracked objects: listed, looked up once more, deleted.      *)

Sweeps(w) == Phases[worker[w].phase] \in {"assets/", "staging/", "archive/"}

Recheck(w, k) ==
  /\ Sweeps(w)
  /\ Take(w, k, IF Untracked(k) THEN "erase" ELSE "idle")
  /\ UNCHANGED <<asset, listed, snap, store, request, faults>>

Erase(w) ==
  /\ Sweeps(w) \/ In(w, "retire")
  /\ At(w, "erase")
  /\ Delete(Item(w))
  /\ Step(w, "idle")
  /\ UNCHANGED <<asset, listed, snap, request, faults>>

(* A store call fails: archive lets go of its claim, the rest go on.       *)
StoreFails(w) ==
  /\ worker[w].step \in {"fetch", "put", "verify", "erase"}
  /\ Fault
  /\ Step(w, IF In(w, "archive") THEN "release" ELSE "idle")
  /\ UNCHANGED <<asset, listed, snap, store, request>>

Crash(w) ==
  /\ worker[w] # Start
  /\ Fault
  /\ worker' = [worker EXCEPT ![w] = Start]
  /\ UNCHANGED <<asset, listed, snap, store, request>>

-----------------------------------------------------------------------------
Serve(r) ==
  \/ \E a \in Asset : Complete(r, a)
  \/ Fetch(r) \/ PutFinal(r) \/ Commit(r) \/ Tidy(r)

Market ==
  \/ \E a \in Asset : Intent(a) \/ Attach(a) \/ Detach(a)
  \/ \E a \in Asset, b \in Byte \cup {Junk} : Upload(a, b)
  \/ \E o \in Order, a \in Asset : Place(o, a)

Work(w) ==
  \/ List(w) \/ NextPhase(w)
  \/ \E o \in Order : Claim(w, o)
  \/ FetchHot(w) \/ PutCold(w) \/ Verify(w) \/ Switch(w) \/ Release(w)
  \/ \E c \in Asset \X {"pending", "expired"} : Expire(w, c)
  \/ EraseStaging(w) \/ Discard(w)
  \/ \E a \in Asset : Inspect(w, a)
  \/ Retire(w)
  \/ \E k \in Key : Recheck(w, k)
  \/ Erase(w)

Next ==
  \/ Market
  \/ \E r \in Request : Serve(r) \/ Abandon(r)
  \/ Time
  \/ \E w \in Worker : Work(w) \/ StoreFails(w) \/ Crash(w)

Spec == Init /\ [][Next]_vars

(* Clocks move, requests are carried on, and a scheduler keeps the loop of *)
(* the worker running.                                                     *)
LiveSpec ==
  /\ Spec
  /\ \A o \in Order : WF_vars(Due(o)) /\ WF_vars(Lapse(o)) /\ WF_vars(Settle(o))
  /\ \A a \in Asset : WF_vars(Close(a)) /\ WF_vars(AgeAsset(a))
  /\ \A k \in Key : WF_vars(AgeObject(k))
  /\ \A r \in Request : WF_vars(Serve(r))
  /\ \A w \in Worker : WF_vars(Work(w))

-----------------------------------------------------------------------------
(* What is named can be read, with the bytes that were checked: every      *)
(* ready image in the hot store, every cold key, and every image an order  *)
(* was placed with, whatever the worker is in the middle of. A listing     *)
(* names images of the hot store only.                                     *)
ImagesKept ==
  /\ \A a \in listed : asset[a].status = "ready"
  /\ \A a \in Asset :
       /\ asset[a].status = "ready" => Holds(asset[a].hot, asset[a].sha)
       /\ asset[a].cold # None => Holds(asset[a].cold, asset[a].sha)
  /\ \A o \in Order : snap[o].media # None =>
       IF snap[o].tier = "cold" THEN asset[snap[o].media].cold # None
                                ELSE asset[snap[o].media].hot # None

(* An order keeps the image it was placed with: once a snapshot is taken   *)
(* the digest it is checked against never changes.                         *)
EvidenceFixed ==
  [][\A o \in Order : snap[o].media # None =>
       /\ snap'[o].media = snap[o].media
       /\ asset'[snap[o].media].sha = asset[snap[o].media].sha]_vars

(* Nothing that no row names stays in the stores for good: what crashes,   *)
(* failed deletes, losing completions and late uploads leave is swept.     *)
LitterSwept ==
  \A k \in Key : (Exists(k) /\ Untracked(k)) ~> ~(Exists(k) /\ Untracked(k))

(* The image of an order completed long ago moves to the cold store,       *)
(* though a worker may die holding its claim.                              *)
ArchivedInTime ==
  \A o \in Order : snap[o].due ~> snap[o].tier = "cold"
=============================================================================
