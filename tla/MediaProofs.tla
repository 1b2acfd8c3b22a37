---------------------------- MODULE MediaProofs ----------------------------
(***************************************************************************)
(* Theorems about Media for any images, orders, contents and completions   *)
(* in progress, and one worker: what is named can be read, and evidence    *)
(* never changes.                                                          *)
(***************************************************************************)
EXTENDS Media, TLAPS

-----------------------------------------------------------------------------
(* Keys. *)

(* Keys of different kinds, images, completions or contents differ.        *)
LEMMA Keys ==
  ASSUME NEW a, NEW b, NEW r, NEW q
  PROVE  /\ Staging(a) # Final(b, q) /\ Staging(a) # Archive(b, q)
         /\ Final(a, r) # Archive(b, q)
         /\ Final(a, r) = Final(b, q) => a = b /\ r = q
         /\ Archive(a, r) = Archive(b, q) => a = b /\ r = q
         /\ Staging(a) = Staging(b) => a = b
         /\ Staging(a)[1] = "staging/" /\ Final(a, r)[1] = "assets/"
         /\ Archive(a, r)[1] = "archive/"
BY DEF Staging, Final, Archive

LEMMA KeyTypes ==
  /\ None \notin Key
  /\ \A a \in Asset : Staging(a) \in Key
  /\ \A a \in Asset, r \in Request : Final(a, r) \in Key
  /\ \A a \in Asset, b \in Byte : Archive(a, b) \in Key
BY MediaAssumption DEF Key

LEMMA PhaseNames ==
  /\ Len(Phases) = 6
  /\ \A p \in 1..6 :
       /\ Phases[p] = "archive" <=> p = 1
       /\ Phases[p] = "expire" <=> p = 2
       /\ Phases[p] = "retire" <=> p = 3
       /\ Phases[p] = "assets/" <=> p = 4
       /\ Phases[p] = "staging/" <=> p = 5
       /\ Phases[p] = "archive/" <=> p = 6
BY DEF Phases

(* An object that is not written or deleted stays as it is.                *)
LEMMA PutEffect ==
  ASSUME NEW k, NEW b, Put(k, b)
  PROVE  /\ DOMAIN store' = DOMAIN store \cup {k}
         /\ store'[k] = [bytes |-> b, old |-> FALSE]
         /\ \A x \in DOMAIN store : x # k => store'[x] = store[x]
BY DEF Put

LEMMA DeleteEffect ==
  ASSUME NEW k, Delete(k)
  PROVE  /\ DOMAIN store' = DOMAIN store \ {k}
         /\ \A x \in DOMAIN store : x # k => store'[x] = store[x]
BY DEF Delete


-----------------------------------------------------------------------------
(* Types. *)

AssetRow == [status : Status, hot : Key \cup {None}, cold : Key \cup {None},
             sha : Byte \cup {None}, aged : BOOLEAN, open : BOOLEAN]

SnapRow == [media : Asset \cup {None}, tier : {"hot", "cold"}, due : BOOLEAN,
            settled : BOOLEAN, token : Worker \cup {None}, lapsed : BOOLEAN]

RequestSteps == {"new", "fetch", "put", "commit", "undo", "tidy", "done"}
RequestRow == [step : RequestSteps, asset : Asset \cup {None}, bytes : Byte \cup {None}]

WorkerSteps == {"idle", "fetch", "put", "verify", "switch", "release", "erase",
                "discard", "lock"}
WorkerRow == [phase : 1..Len(Phases), listed : BOOLEAN, todo : SUBSET Task,
              item : Task \cup {None}, step : WorkerSteps, cold : Key \cup {None}]

(* The type of each variable.                                              *)
AssetType == asset \in [Asset -> AssetRow]
SnapType == snap \in [Order -> SnapRow]
RequestType == request \in [Request -> RequestRow]
WorkerType == worker \in [Worker -> WorkerRow]
StoreType ==
  /\ DOMAIN store \subseteq Key
  /\ \A k \in DOMAIN store : store[k] \in [bytes : Byte \cup {Junk}, old : BOOLEAN]

LEMMA TypeParts ==
  TypeOK <=> /\ AssetType /\ listed \subseteq Asset /\ SnapType /\ StoreType
             /\ RequestType /\ WorkerType /\ faults \in 0..MaxFaults
BY DEF TypeOK, AssetType, SnapType, StoreType, RequestType, WorkerType, AssetRow,
       SnapRow, RequestRow, RequestSteps, WorkerRow, WorkerSteps

LEMMA PartsType == 
  TypeOK' <=> /\ AssetType' /\ listed' \subseteq Asset /\ SnapType' /\ StoreType'
              /\ RequestType' /\ WorkerType' /\ faults' \in 0..MaxFaults
BY DEF TypeOK, AssetType, SnapType, StoreType, RequestType, WorkerType, AssetRow,
       SnapRow, RequestRow, RequestSteps, WorkerRow, WorkerSteps

LEMMA InitType == Init => TypeOK
<1> SUFFICES ASSUME Init PROVE TypeOK
  OBVIOUS
<1>1. Start \in WorkerRow
  BY PhaseNames DEF Start, WorkerRow, WorkerSteps
<1>2. StoreType
  BY DEF Init, StoreType
<1>3. faults \in 0..MaxFaults
  BY MediaAssumption DEF Init
<1> QED
  BY <1>1, <1>2, <1>3, TypeParts
     DEF Init, AssetType, AssetRow, SnapType, SnapRow, RequestType, RequestRow,
         RequestSteps, WorkerType, Status

(***************************************************************************)
(* The inductive invariant. A completion is over once no call of it can    *)
(* put or name an object any more; an image is kept once its contents are  *)
(* fixed.                                                                  *)
(***************************************************************************)
Over(r) == request[r].step \in {"tidy", "done"}
Kept(a) == asset[a].status \in {"ready", "cold_only"}

(* A row names the object of one completion that is over, and the archive  *)
(* of its own contents.                                                    *)
Named(a) ==
  /\ asset[a].hot # None <=> asset[a].status = "ready"
  /\ Kept(a) => asset[a].sha \in Byte
  /\ asset[a].status = "ready" =>
       /\ Holds(asset[a].hot, asset[a].sha)
       /\ \E r \in Request : /\ asset[a].hot = Final(a, r)
                             /\ request[r].asset = a /\ Over(r)
  /\ asset[a].cold # None =>
       /\ Kept(a)
       /\ asset[a].cold = Archive(a, asset[a].sha)
       /\ Holds(asset[a].cold, asset[a].sha)

(* A snapshot is of a kept image that is where its tier says.              *)
Evidence(o) ==
  /\ snap[o].media = None => snap[o].tier = "hot"
  /\ snap[o].media # None =>
       /\ Kept(snap[o].media)
       /\ snap[o].tier = "cold" => asset[snap[o].media].cold # None
       /\ snap[o].tier = "hot" => asset[snap[o].media].status = "ready"

(* Before its commit a completion has what it will name in the store; no   *)
(* object of its key is there earlier or old before it is over.            *)
Completion(r) ==
  /\ request[r].step # "new" => request[r].asset \in Asset
  /\ request[r].step \in {"put", "commit"} => request[r].bytes \in Byte
  /\ request[r].step = "commit" => Holds(FinalKey(r), request[r].bytes)
  /\ \A a \in Asset : Exists(Final(a, r)) =>
       /\ request[r].asset = a
       /\ request[r].step \notin {"new", "fetch", "put"}
       /\ store[Final(a, r)].old => Over(r)

IsStaging(k) == \E a \in Asset : k = Staging(a)
IsArchive(k) == \E a \in Asset, b \in Byte : k = Archive(a, b)
IsFinal(k) ==
  \E a \in Asset, r \in Request :
    k = Final(a, r) /\ request[r].asset = a /\ Over(r)

(* No row names a free key, and none will.                                 *)
Free(k) == IsStaging(k) \/ ((IsFinal(k) \/ IsArchive(k)) /\ Unnamed(k))

Placed(o) == o \in Order /\ snap[o].media # None

(* An archive puts, checks and names the key of the contents of the image  *)
(* it claimed.                                                             *)
Archiving(w) ==
  LET a == snap[Item(w)].media IN
  /\ Placed(Item(w))
  /\ worker[w].step \in {"put", "verify", "switch"} =>
       worker[w].cold = Archive(a, asset[a].sha)
  /\ worker[w].step = "switch" => Holds(worker[w].cold, asset[a].sha)

(* What the worker listed and what it holds, phase by phase: what it       *)
(* erases is free.                                                         *)
Working(w) ==
  /\ worker[w].phase = 1 => \A o \in worker[w].todo : Placed(o)
  /\ worker[w].phase = 1 /\ ~At(w, "idle") => Archiving(w)
  /\ worker[w].phase = 2 /\ ~At(w, "idle") => Item(w) \in Asset \X {"pending", "expired"}
  /\ worker[w].phase = 3 /\ At(w, "lock") => Item(w) \in Asset
  /\ worker[w].phase = 4 => \A k \in worker[w].todo : IsFinal(k)
  /\ worker[w].phase = 5 => \A k \in worker[w].todo : IsStaging(k)
  /\ worker[w].phase = 6 => \A k \in worker[w].todo : IsArchive(k)
  /\ worker[w].phase \in 3..6 /\ At(w, "erase") => Free(Item(w))

Listed == \A a \in listed : asset[a].status = "ready"

IInv ==
  /\ TypeOK /\ Listed
  /\ \A a \in Asset : Named(a)
  /\ \A o \in Order : Evidence(o)
  /\ \A r \in Request : Completion(r)
  /\ \A w \in Worker : Working(w)

-----------------------------------------------------------------------------
(* What the steps do to the rows and the objects, and their types.        *)

(* One object is written or deleted.                                       *)
LEMMA PutType ==
  ASSUME StoreType, NEW k \in Key, NEW b \in Byte \cup {Junk}, Put(k, b)
  PROVE  StoreType'
<1>1. [bytes |-> b, old |-> FALSE] \in [bytes : Byte \cup {Junk}, old : BOOLEAN]
  OBVIOUS
<1>2. /\ DOMAIN store' = DOMAIN store \cup {k}
      /\ store'[k] = [bytes |-> b, old |-> FALSE]
      /\ \A x \in DOMAIN store : x # k => store'[x] = store[x]
  BY PutEffect
<1> QED
  BY <1>1, <1>2 DEF StoreType

LEMMA DeleteType == ASSUME StoreType, NEW k, Delete(k) PROVE StoreType'
BY DeleteEffect DEF StoreType

LEMMA FaultType == ASSUME faults \in 0..MaxFaults, Fault PROVE faults' \in 0..MaxFaults
BY MediaAssumption DEF Fault

(* One row of the worker, the requests, the images or the snapshots        *)
(* changes.                                                                *)
LEMMA RowTypes ==
  ASSUME TypeOK
  PROVE  /\ \A a \in Asset, row \in AssetRow : asset' = [asset EXCEPT ![a] = row] => AssetType'
         /\ \A o \in Order, row \in SnapRow : snap' = [snap EXCEPT ![o] = row] => SnapType'
         /\ \A r \in Request, row \in RequestRow :
              request' = [request EXCEPT ![r] = row] => RequestType'
         /\ \A w \in Worker, row \in WorkerRow :
              worker' = [worker EXCEPT ![w] = row] => WorkerType'
BY TypeParts DEF AssetType, SnapType, RequestType, WorkerType

LEMMA GotoType ==
  ASSUME TypeOK, NEW r \in Request, NEW s \in RequestSteps, Goto(r, s)
  PROVE  RequestType'
BY TypeParts DEF Goto, RequestType, RequestRow

(* What a worker is left with when it takes an item or goes on with it.    *)
LEMMA TakeEffect ==
  ASSUME TypeOK, NEW w \in Worker, NEW x, NEW s \in WorkerSteps, Take(w, x, s)
  PROVE  /\ WorkerType'
         /\ x \in worker[w].todo /\ worker[w].step = "idle"
         /\ worker'[w].todo = worker[w].todo \ {x}
         /\ worker'[w].phase = worker[w].phase
         /\ worker'[w].step = s
         /\ s # "idle" => worker'[w].item = x
<1> DEFINE row == [worker[w] EXCEPT !.todo = @ \ {x}, !.step = s,
                                    !.item = IF s = "idle" THEN None ELSE x]
<1>1. worker[w] \in WorkerRow /\ x \in worker[w].todo
  BY TypeParts DEF WorkerType, Take
<1>2. row \in WorkerRow
  BY <1>1 DEF WorkerRow
<1>3. worker' = [worker EXCEPT ![w] = row]
  BY TypeParts DEF Take, WorkerType
<1> QED
  BY <1>1, <1>2, <1>3, RowTypes, TypeParts DEF WorkerType, WorkerRow, Take, At

LEMMA StepEffect ==
  ASSUME TypeOK, NEW w \in Worker, NEW s \in WorkerSteps, Step(w, s)
  PROVE  /\ WorkerType'
         /\ worker'[w].todo = worker[w].todo
         /\ worker'[w].phase = worker[w].phase
         /\ worker'[w].step = s
         /\ s # "idle" => /\ worker'[w].item = worker[w].item
                         /\ worker'[w].cold = worker[w].cold
<1> DEFINE row == [worker[w] EXCEPT !.step = s,
                                    !.item = IF s = "idle" THEN None ELSE @,
                                    !.cold = IF s = "idle" THEN None ELSE @]
<1>1. worker[w] \in WorkerRow
  BY TypeParts DEF WorkerType
<1>2. row \in WorkerRow
  BY <1>1 DEF WorkerRow
<1>3. worker' = [worker EXCEPT ![w] = row]
  BY TypeParts DEF Step, WorkerType
<1> QED
  BY <1>1, <1>2, <1>3, RowTypes, TypeParts DEF WorkerType, WorkerRow

LEMMA MarketType == ASSUME TypeOK, Market PROVE TypeOK'
<1> USE TypeParts
<1>1. ASSUME NEW a \in Asset, Intent(a) PROVE TypeOK'
  <2>1. AssetType'
    BY <1>1 DEF Intent, AssetType, AssetRow, Status
  <2> QED
    BY <1>1, <2>1, PartsType DEF Intent, SnapType, StoreType, RequestType, WorkerType
<1>2. ASSUME NEW a \in Asset, Attach(a) \/ Detach(a) PROVE TypeOK'
  BY <1>2, PartsType
     DEF Attach, Detach, AssetType, SnapType, StoreType, RequestType, WorkerType
<1>3. ASSUME NEW a \in Asset, NEW b \in Byte \cup {Junk}, Upload(a, b) PROVE TypeOK'
  <2>1. StoreType'
    BY <1>3, PutType, KeyTypes DEF Upload
  <2> QED
    BY <1>3, <2>1, PartsType DEF Upload, AssetType, SnapType, RequestType, WorkerType
<1>4. ASSUME NEW o \in Order, NEW a \in Asset, Place(o, a) PROVE TypeOK'
  BY <1>4, PartsType
     DEF Place, AssetType, SnapType, SnapRow, StoreType, RequestType, WorkerType
<1> QED
  BY <1>1, <1>2, <1>3, <1>4 DEF Market

LEMMA ServeType ==
  ASSUME TypeOK, NEW r \in Request, Completion(r), Serve(r) \/ Abandon(r)
  PROVE  TypeOK'
<1> USE TypeParts
<1>0. SUFFICES ASSUME UNCHANGED <<listed, snap, worker>>
               PROVE  /\ AssetType' /\ StoreType' /\ RequestType'
                      /\ faults' \in 0..MaxFaults
  <2>1. UNCHANGED <<listed, snap, worker>>
    BY DEF Serve, Complete, Fetch, PutFinal, Commit, Tidy, Abandon
  <2> QED
    BY <2>1, <1>0, PartsType DEF SnapType, WorkerType
<1>1. ASSUME NEW a \in Asset, Complete(r, a)
      PROVE  AssetType' /\ StoreType' /\ RequestType' /\ faults' \in 0..MaxFaults
  BY <1>1 DEF Complete, AssetType, StoreType, RequestType, RequestRow, RequestSteps
<1>2. CASE Fetch(r)
  <2>1. RequestType'
    <3>1. ASSUME NEW b \in Byte,
                 request' = [request EXCEPT ![r].step = "put", ![r].bytes = b]
          PROVE  RequestType'
      BY <3>1 DEF RequestType, RequestRow, RequestSteps
    <3> QED
      BY <3>1, <1>2, GotoType DEF Fetch, RequestSteps
  <2> QED
    BY <1>2, <2>1 DEF Fetch, AssetType, StoreType
<1>3. CASE PutFinal(r)
  <2>1. FinalKey(r) \in Key /\ request[r].bytes \in Byte
    BY <1>3, KeyTypes DEF PutFinal, Completion, FinalKey
  <2>2. StoreType'
    BY <1>3, <2>1, PutType DEF PutFinal
  <2> QED
    BY <1>3, <2>2, GotoType DEF PutFinal, RequestSteps, AssetType
<1>4. CASE Commit(r)
  <2>1. FinalKey(r) \in Key /\ request[r].bytes \in Byte /\ request[r].asset \in Asset
    BY <1>4, KeyTypes DEF Commit, Completion, FinalKey
  <2>2. RequestType'
    BY <1>4, GotoType DEF Commit, RequestSteps
  <2>3. PICK b \in Byte, a \in Asset, k \in Key :
          b = request[r].bytes /\ a = request[r].asset /\ k = FinalKey(r)
    BY <2>1
  <2>4. AssetType'
    BY <1>4, <2>3 DEF Commit, AssetType, AssetRow, Status
  <2> QED
    BY <1>4, <2>2, <2>4 DEF Commit, StoreType
<1>5. CASE Tidy(r)
  <2>1. StoreType'
    BY <1>5, DeleteType DEF Tidy
  <2> QED
    BY <1>5, <2>1, GotoType DEF Tidy, RequestSteps, AssetType
<1>6. CASE Abandon(r)
  BY <1>6, GotoType, FaultType DEF Abandon, RequestSteps, AssetType, StoreType
<1> QED
  BY <1>1, <1>2, <1>3, <1>4, <1>5, <1>6 DEF Serve

LEMMA TimeType == ASSUME TypeOK, Time PROVE TypeOK'
<1> USE TypeParts
<1>1. ASSUME NEW o \in Order, Due(o) \/ Lapse(o) \/ Settle(o) PROVE TypeOK'
  <2>1. ASSUME Due(o) PROVE SnapType'
    BY <2>1 DEF Due, SnapType, SnapRow
  <2>2. ASSUME Lapse(o) PROVE SnapType'
    BY <2>2 DEF Lapse, SnapType, SnapRow
  <2>3. ASSUME Settle(o) PROVE SnapType'
    BY <2>3 DEF Settle, SnapType, SnapRow
  <2>4. SnapType'
    BY <1>1, <2>1, <2>2, <2>3
  <2> QED
    BY <1>1, <2>4, PartsType
       DEF Due, Lapse, Settle, AssetType, StoreType, RequestType, WorkerType
<1>2. ASSUME NEW a \in Asset, Close(a) \/ AgeAsset(a) PROVE TypeOK'
  <2>1. ASSUME Close(a) PROVE AssetType'
    BY <2>1 DEF Close, AssetType, AssetRow
  <2>2. ASSUME AgeAsset(a) PROVE AssetType'
    BY <2>2 DEF AgeAsset, AssetType, AssetRow
  <2>3. AssetType'
    BY <1>2, <2>1, <2>2
  <2> QED
    BY <1>2, <2>3, PartsType DEF Close, AgeAsset, SnapType, StoreType, RequestType, WorkerType
<1>3. ASSUME NEW k \in DOMAIN store, AgeObject(k) PROVE TypeOK'
  <2>1. StoreType'
    BY <1>3 DEF AgeObject, Exists, StoreType
  <2> QED
    BY <1>3, <2>1, PartsType DEF AgeObject, AssetType, SnapType, RequestType, WorkerType
<1> QED
  BY <1>1, <1>2, <1>3 DEF Time

LEMMA WorkType ==
  ASSUME IInv, NEW w \in Worker, Work(w) \/ StoreFails(w) \/ Crash(w)
  PROVE  TypeOK'
<1> USE TypeParts
<1>0. TypeOK /\ Working(w)
  BY DEF IInv
<1>a. SUFFICES /\ AssetType' /\ SnapType' /\ StoreType' /\ WorkerType'
               /\ faults' \in 0..MaxFaults
  <2>1. UNCHANGED <<listed, request>>
    BY DEF Work, List, NextPhase, Claim, FetchHot, PutCold, Verify, Switch, Release,
           Expire, EraseStaging, Discard, Inspect, Retire, Recheck, Erase, StoreFails, Crash
  <2> QED
    BY <2>1, <1>0, <1>a, PartsType DEF RequestType
<1>b. worker[w] \in WorkerRow /\ worker[w].phase \in 1..6
  BY <1>0, PhaseNames DEF WorkerType, WorkerRow
<1>c. Start \in WorkerRow
  BY PhaseNames DEF Start, WorkerRow, WorkerSteps
<1>1. CASE List(w)
  <2>1. Listing(Phases[worker[w].phase]) \in SUBSET Task
    BY <1>0, <1>b, PhaseNames
       DEF Listing, DueRows, StaleUploads, Litter, Task, StoreType
  <2>2. WorkerType'
    <3> DEFINE row == [worker[w] EXCEPT !.listed = TRUE,
                                        !.todo = Listing(Phases[worker[w].phase])]
    <3>1. row \in WorkerRow
      BY <1>b, <2>1 DEF WorkerRow
    <3>2. worker' = [worker EXCEPT ![w] = row]
      BY <1>0, <1>1 DEF List, WorkerType
    <3> QED
      BY <3>1, <3>2, <1>0, RowTypes
  <2> QED
    BY <1>0, <1>1, <2>2 DEF List, AssetType, SnapType, StoreType
<1>2. CASE NextPhase(w)
  <2>1. [Start EXCEPT !.phase = (worker[w].phase % Len(Phases)) + 1] \in WorkerRow
    BY <1>b, <1>c, PhaseNames DEF WorkerRow
  <2>2. WorkerType'
    BY <1>0, <1>2, <2>1, RowTypes DEF NextPhase
  <2> QED
    BY <1>0, <1>2, <2>2 DEF NextPhase, AssetType, SnapType, StoreType
<1>3. ASSUME NEW o \in Order, Claim(w, o)
      PROVE  /\ AssetType' /\ SnapType' /\ StoreType' /\ WorkerType'
             /\ faults' \in 0..MaxFaults
  <2>1. SnapType'
    BY <1>0, <1>3 DEF Claim, SnapType, SnapRow
  <2>2. WorkerType'
    BY <1>0, <1>3, TakeEffect DEF Claim, WorkerSteps
  <2> QED
    BY <1>0, <1>3, <2>1, <2>2 DEF Claim, AssetType, StoreType
<1>4. CASE FetchHot(w)
  <2>1. PICK a \in Asset : a = snap[Item(w)].media /\ Kept(a) /\ asset[a].sha \in Byte
    BY <1>0, <1>4, <1>b, PhaseNames
       DEF IInv, FetchHot, In, At, Working, Archiving, Placed, Evidence, Named, SnapType,
           SnapRow
  <2>2. ASSUME NEW s \in WorkerSteps, NEW k \in Key \cup {None},
               worker' = [worker EXCEPT ![w].step = s, ![w].cold = k]
        PROVE  WorkerType'
    <3> DEFINE row == [worker[w] EXCEPT !.step = s, !.cold = k]
    <3>1. row \in WorkerRow
      BY <1>b DEF WorkerRow
    <3>2. worker' = [worker EXCEPT ![w] = row]
      BY <1>0, <2>2 DEF WorkerType
    <3> QED
      BY <3>1, <3>2, <1>0, RowTypes
  <2>3. asset[a].cold \in Key \cup {None} /\ Archive(a, asset[a].sha) \in Key
    BY <1>0, <2>1, KeyTypes DEF AssetType, AssetRow
  <2>4. WorkerType'
    BY <1>0, <1>4, <2>1, <2>2, <2>3, StepEffect DEF FetchHot, WorkerSteps
  <2> QED
    BY <1>0, <1>4, <2>4 DEF FetchHot, AssetType, SnapType, StoreType
<1>5. CASE PutCold(w)
  <2>1. PICK a \in Asset :
          /\ a = snap[Item(w)].media /\ Kept(a) /\ asset[a].sha \in Byte
          /\ worker[w].cold = Archive(a, asset[a].sha)
    BY <1>0, <1>5, <1>b, PhaseNames
       DEF IInv, PutCold, In, At, Working, Archiving, Placed, Evidence, Named, SnapType,
           SnapRow
  <2>2. StoreType'
    BY <1>0, <1>5, <2>1, KeyTypes, PutType DEF PutCold
  <2> QED
    BY <1>0, <1>5, <2>2, StepEffect DEF PutCold, WorkerSteps, AssetType, SnapType
<1>6. CASE Verify(w)
  BY <1>0, <1>6, StepEffect DEF Verify, WorkerSteps, AssetType, SnapType, StoreType
<1>7. CASE Switch(w)
  <2>1. WorkerType'
    BY <1>0, <1>7, StepEffect DEF Switch, WorkerSteps
  <2>2. PICK k \in Key \cup {None} : k = worker[w].cold
    BY <1>b DEF WorkerRow
  <2>3. AssetType'
    BY <1>0, <1>7, <2>2 DEF Switch, AssetType, AssetRow
  <2>4. SnapType'
    BY <1>0, <1>7 DEF Switch, SnapType, SnapRow
  <2> QED
    BY <1>0, <1>7, <2>1, <2>3, <2>4 DEF Switch, StoreType
<1>8. CASE Release(w)
  <2>1. SnapType'
    BY <1>0, <1>8 DEF Release, SnapType, SnapRow
  <2> QED
    BY <1>0, <1>8, <2>1, StepEffect DEF Release, WorkerSteps, AssetType, StoreType
<1>9. ASSUME NEW c \in Asset \X {"pending", "expired"}, Expire(w, c)
      PROVE  /\ AssetType' /\ SnapType' /\ StoreType' /\ WorkerType'
             /\ faults' \in 0..MaxFaults
  <2>1. AssetType'
    BY <1>0, <1>9 DEF Expire, AssetType, AssetRow, Status
  <2>2. WorkerType'
    BY <1>0, <1>9, TakeEffect DEF Expire, WorkerSteps
  <2> QED
    BY <1>0, <1>9, <2>1, <2>2 DEF Expire, SnapType, StoreType
<1>10. CASE EraseStaging(w)
  BY <1>0, <1>10, StepEffect, DeleteType DEF EraseStaging, WorkerSteps, AssetType, SnapType
<1>11. CASE Discard(w)
  <2>1. AssetType'
    BY <1>0, <1>11 DEF Discard, AssetType, AssetRow, Status
  <2> QED
    BY <1>0, <1>11, <2>1, StepEffect DEF Discard, WorkerSteps, SnapType, StoreType
<1>12. ASSUME NEW a \in Asset, Inspect(w, a)
       PROVE  /\ AssetType' /\ SnapType' /\ StoreType' /\ WorkerType'
              /\ faults' \in 0..MaxFaults
  BY <1>0, <1>12, TakeEffect DEF Inspect, WorkerSteps, AssetType, SnapType, StoreType
<1>13. CASE Retire(w)
  <2>1. PICK a \in Asset : a = Item(w)
    BY <1>0, <1>13, <1>b, PhaseNames DEF Retire, In, At, Working
  <2>2. AssetType'
    BY <1>0, <1>13, <2>1 DEF Retire, AssetType, AssetRow, Status
  <2>3. PICK k \in Task \cup {None} : k = asset[a].hot
    BY <1>0, <2>1 DEF AssetType, AssetRow, Task
  <2>4. WorkerType'
    <3>1. ASSUME worker' = [worker EXCEPT ![w].step = "erase", ![w].item = k]
          PROVE  WorkerType'
      <4> DEFINE row == [worker[w] EXCEPT !.step = "erase", !.item = k]
      <4>1. row \in WorkerRow
        BY <1>b DEF WorkerRow, WorkerSteps
      <4>2. worker' = [worker EXCEPT ![w] = row]
        BY <1>0, <3>1 DEF WorkerType
      <4> QED
        BY <4>1, <4>2, <1>0, RowTypes
    <3> QED
      BY <1>0, <1>13, <2>1, <2>3, <3>1, StepEffect DEF Retire, WorkerSteps
  <2> QED
    BY <1>0, <1>13, <2>2, <2>4 DEF Retire, SnapType, StoreType
<1>14. ASSUME NEW k \in Key, Recheck(w, k)
       PROVE  /\ AssetType' /\ SnapType' /\ StoreType' /\ WorkerType'
              /\ faults' \in 0..MaxFaults
  BY <1>0, <1>14, TakeEffect DEF Recheck, WorkerSteps, AssetType, SnapType, StoreType
<1>15. CASE Erase(w)
  BY <1>0, <1>15, StepEffect, DeleteType DEF Erase, WorkerSteps, AssetType, SnapType
<1>16. CASE StoreFails(w)
  BY <1>0, <1>16, StepEffect, FaultType
     DEF StoreFails, WorkerSteps, AssetType, SnapType, StoreType
<1>17. CASE Crash(w)
  BY <1>0, <1>17, <1>c, RowTypes, FaultType
     DEF Crash, AssetType, SnapType, StoreType
<1> QED
  BY <1>1, <1>2, <1>3, <1>4, <1>5, <1>6, <1>7, <1>8, <1>9, <1>10, <1>11, <1>12, <1>13,
     <1>14, <1>15, <1>16, <1>17 DEF Work

LEMMA NextType == ASSUME IInv, [Next]_vars PROVE TypeOK'
<1>1. CASE UNCHANGED vars
  BY <1>1 DEF IInv, vars, TypeOK
<1>2. ASSUME NEW r \in Request, Serve(r) \/ Abandon(r) PROVE TypeOK'
  BY <1>2, ServeType DEF IInv
<1> QED
  BY <1>1, <1>2, MarketType, TimeType, WorkType DEF IInv, Next

-----------------------------------------------------------------------------
(* What one step can do to one row and to the store.                       *)

SameImage(a) ==
  /\ asset'[a].status = asset[a].status /\ asset'[a].hot = asset[a].hot
  /\ asset'[a].cold = asset[a].cold /\ asset'[a].sha = asset[a].sha

(* An upload is begun, expired or discarded.                               *)
Unkept(a) ==
  /\ ~Kept(a) /\ asset'[a].status \in {"pending", "expired", "discarded"}
  /\ asset'[a].hot = asset[a].hot
  /\ asset'[a].cold = asset[a].cold /\ asset'[a].sha = asset[a].sha

CommittedBy(a, r) ==
  /\ request[r].step = "commit" /\ request[r].asset = a /\ Commit(r)
  /\ asset[a].status = "pending" /\ asset'[a].status = "ready"
  /\ asset'[a].hot = FinalKey(r) /\ asset'[a].sha = request[r].bytes
  /\ asset'[a].cold = asset[a].cold

ArchivedBy(a, w) ==
  /\ Switch(w) /\ snap[Item(w)].media = a
  /\ asset[a].cold \in {None, worker[w].cold} /\ asset'[a].cold = worker[w].cold
  /\ asset'[a].status = asset[a].status /\ asset'[a].hot = asset[a].hot
  /\ asset'[a].sha = asset[a].sha

RetiredBy(a, w) ==
  /\ Retire(w) /\ Item(w) = a /\ Retirable(a)
  /\ asset'[a].status = "cold_only" /\ asset'[a].hot = None
  /\ asset'[a].cold = asset[a].cold /\ asset'[a].sha = asset[a].sha

ImageStep(a) ==
  \/ SameImage(a) \/ Unkept(a)
  \/ \E r \in Request : CommittedBy(a, r)
  \/ \E w \in Worker : ArchivedBy(a, w) \/ RetiredBy(a, w)

LEMMA ImageSteps == ASSUME IInv, [Next]_vars, NEW a \in Asset PROVE ImageStep(a)
<1>0. AssetType /\ SnapType /\ WorkerType
  BY TypeParts DEF IInv
<1>1. CASE asset' = asset
  BY <1>1 DEF ImageStep, SameImage
<1>2. ASSUME NEW b \in Asset, Intent(b) PROVE ImageStep(a)
  BY <1>0, <1>2 DEF Intent, AssetType, AssetRow, ImageStep, SameImage, Unkept, Kept
<1>3. ASSUME NEW b \in Asset, Close(b) \/ AgeAsset(b) PROVE ImageStep(a)
  <2>1. ASSUME Close(b) PROVE SameImage(a)
    BY <1>0, <2>1 DEF Close, AssetType, AssetRow, SameImage
  <2>2. ASSUME AgeAsset(b) PROVE SameImage(a)
    BY <1>0, <2>2 DEF AgeAsset, AssetType, AssetRow, SameImage
  <2> QED
    BY <1>3, <2>1, <2>2 DEF ImageStep
<1>4. ASSUME NEW r \in Request, Commit(r) PROVE ImageStep(a)
  <2>1. PICK b \in Asset : b = request[r].asset
    BY <1>4 DEF IInv, Completion, Commit
  <2>2. ASSUME asset' # asset, a = b PROVE CommittedBy(a, r)
    BY <1>0, <1>4, <2>1, <2>2 DEF Commit, AssetType, AssetRow, CommittedBy
  <2>3. ASSUME a # b PROVE SameImage(a)
    BY <1>0, <1>4, <2>1, <2>3 DEF Commit, AssetType, AssetRow, SameImage
  <2> QED
    BY <1>1, <2>2, <2>3 DEF ImageStep
<1>5. ASSUME NEW w \in Worker, Switch(w) PROVE ImageStep(a)
  <2>1. PICK b : b = snap[Item(w)].media
    OBVIOUS
  <2>2. ASSUME asset' # asset, a = b PROVE ArchivedBy(a, w)
    BY <1>0, <1>5, <2>1, <2>2 DEF Switch, AssetType, AssetRow, ArchivedBy
  <2>3. ASSUME a # b PROVE SameImage(a)
    BY <1>0, <1>5, <2>1, <2>3 DEF Switch, AssetType, AssetRow, SameImage
  <2> QED
    BY <1>1, <2>2, <2>3 DEF ImageStep
<1>6. ASSUME NEW w \in Worker, Retire(w) PROVE ImageStep(a)
  <2>1. PICK b : b = Item(w)
    OBVIOUS
  <2>2. ASSUME asset' # asset, a = b PROVE RetiredBy(a, w)
    BY <1>0, <1>6, <2>1, <2>2 DEF Retire, AssetType, AssetRow, RetiredBy
  <2>3. ASSUME a # b PROVE SameImage(a)
    BY <1>0, <1>6, <2>1, <2>3 DEF Retire, AssetType, AssetRow, SameImage
  <2> QED
    BY <1>1, <2>2, <2>3 DEF ImageStep
<1>7. ASSUME NEW w \in Worker, NEW c \in Asset \X {"pending", "expired"}, Expire(w, c)
      PROVE  ImageStep(a)
  BY <1>0, <1>7 DEF Expire, AssetType, AssetRow, ImageStep, SameImage, Unkept, Kept
<1>8. ASSUME NEW w \in Worker, Discard(w) PROVE ImageStep(a)
  <2>1. PICK b : b = Item(w)[1]
    OBVIOUS
  <2> QED
    BY <1>0, <1>8, <2>1 DEF Discard, AssetType, AssetRow, ImageStep, SameImage, Unkept, Kept
<1>9. ASSUME NEW r \in Request, Serve(r) \/ Abandon(r), asset' # asset PROVE ImageStep(a)
  BY <1>4, <1>9 DEF Serve, Abandon, Complete, Fetch, PutFinal, Tidy
<1>10. ASSUME NEW w \in Worker, Work(w) \/ StoreFails(w) \/ Crash(w), asset' # asset
       PROVE  ImageStep(a)
  BY <1>5, <1>6, <1>7, <1>8, <1>10
     DEF Work, StoreFails, Crash, List, NextPhase, Claim, FetchHot, PutCold, Verify,
         Release, EraseStaging, Inspect, Recheck, Erase
<1>11. ASSUME Market \/ Time, asset' # asset PROVE ImageStep(a)
  BY <1>2, <1>3, <1>11
     DEF Market, Time, Attach, Detach, Upload, Place, Due, Lapse, Settle, AgeObject
<1> QED
  BY <1>1, <1>9, <1>10, <1>11 DEF Next, vars

(* One object is put, aged or deleted, or none is touched.                 *)
StoreStep ==
  \/ store' = store
  \/ \E a \in Asset, b \in Byte \cup {Junk} : Put(Staging(a), b)
  \/ \E r \in Request : PutFinal(r)
  \/ \E w \in Worker : PutCold(w)
  \/ \E k \in DOMAIN store : AgeObject(k)
  \/ \E a \in Asset : Delete(Staging(a))
  \/ \E r \in Request : request[r].step = "undo" /\ Delete(FinalKey(r))
  \/ \E w \in Worker : Erase(w)

LEMMA StoreSteps == ASSUME IInv, [Next]_vars PROVE StoreStep
<1>1. CASE store' = store
  BY <1>1 DEF StoreStep
<1>2. ASSUME NEW r \in Request, Tidy(r) PROVE StoreStep
  <2>1. request[r].asset \in Asset
    BY <1>2 DEF IInv, Completion, Tidy
  <2> QED
    BY <1>2, <2>1 DEF Tidy, StoreStep
<1>3. ASSUME NEW w \in Worker, EraseStaging(w) PROVE StoreStep
  <2>1. worker[w].phase = 2 /\ ~At(w, "idle")
    BY <1>3, PhaseNames, TypeParts DEF EraseStaging, In, At, IInv, WorkerType, WorkerRow
  <2>2. Item(w)[1] \in Asset
    BY <2>1 DEF IInv, Working
  <2> QED
    BY <1>3, <2>2 DEF EraseStaging, StoreStep
<1>4. ASSUME NEW r \in Request, Serve(r) \/ Abandon(r), store' # store PROVE StoreStep
  BY <1>2, <1>4 DEF StoreStep, Serve, Abandon, Complete, Fetch, Commit
<1>5. ASSUME NEW w \in Worker, Work(w) \/ StoreFails(w) \/ Crash(w), store' # store
      PROVE  StoreStep
  BY <1>3, <1>5
     DEF StoreStep, Work, StoreFails, Crash, List, NextPhase, Claim, FetchHot, Verify,
         Switch, Release, Expire, Discard, Inspect, Retire, Recheck
<1>6. ASSUME Market \/ Time, store' # store PROVE StoreStep
  BY <1>6
     DEF StoreStep, Market, Time, Intent, Attach, Detach, Upload, Place, Due, Lapse,
         Settle, Close, AgeAsset
<1> QED
  BY <1>1, <1>4, <1>5, <1>6 DEF Next, vars

PutBy(r) ==
  /\ PutFinal(r) /\ request'[r].step = "commit"
  /\ request'[r].asset = request[r].asset /\ request'[r].bytes = request[r].bytes

(* A completion goes on: it is told an image, reads its upload, decides at *)
(* its commit, or ends.                                                    *)
Advanced(r) ==
  \/ request[r].step = "new" /\ request'[r].step = "fetch" /\ request'[r].asset \in Asset
  \/ /\ request[r].step = "fetch" /\ request'[r].step = "put"
     /\ request'[r].asset = request[r].asset /\ request'[r].bytes \in Byte
  \/ /\ request[r].step = "commit" /\ request'[r].step \in {"tidy", "undo"}
     /\ request'[r].asset = request[r].asset
  \/ /\ request[r].step # "new" /\ request'[r].step = "done"
     /\ request'[r].asset = request[r].asset

RequestStep(r) == request'[r] = request[r] \/ PutBy(r) \/ Advanced(r)

LEMMA RequestStepsHold ==
  ASSUME IInv, [Next]_vars, NEW r \in Request PROVE RequestStep(r)
<1>0. RequestType
  BY TypeParts DEF IInv
<1>1. CASE request' = request
  BY <1>1 DEF RequestStep
<1>2. ASSUME NEW q \in Request, Serve(q) \/ Abandon(q) PROVE RequestStep(r)
  <2>1. ASSUME r # q PROVE request'[r] = request[r]
    BY <1>0, <1>2, <2>1
       DEF Serve, Abandon, Complete, Fetch, PutFinal, Commit, Tidy, Goto, RequestType
  <2>2. ASSUME NEW s, Goto(r, s)
        PROVE  /\ request'[r].step = s /\ request'[r].asset = request[r].asset
               /\ request'[r].bytes = request[r].bytes
    BY <1>0, <2>2 DEF Goto, RequestType, RequestRow
  <2>3. ASSUME NEW a \in Asset, Complete(r, a) PROVE Advanced(r)
    BY <1>0, <2>3 DEF Complete, Advanced, RequestType, RequestRow
  <2>4. ASSUME Fetch(r) PROVE Advanced(r)
    <3>1. ASSUME NEW b \in Byte,
                 request' = [request EXCEPT ![r].step = "put", ![r].bytes = b]
          PROVE  /\ request'[r].step = "put" /\ request'[r].asset = request[r].asset
                 /\ request'[r].bytes = b
      BY <1>0, <3>1 DEF RequestType, RequestRow
    <3> QED
      BY <2>2, <2>4, <3>1 DEF Fetch, Advanced
  <2>5. ASSUME PutFinal(r) PROVE PutBy(r)
    BY <2>2, <2>5 DEF PutFinal, PutBy
  <2>6. ASSUME Commit(r) \/ Tidy(r) \/ Abandon(r) PROVE Advanced(r)
    BY <2>2, <2>6 DEF Commit, Tidy, Abandon, Advanced
  <2> QED
    BY <1>2, <2>1, <2>3, <2>4, <2>5, <2>6 DEF Serve, RequestStep
<1>3. ASSUME NEW w \in Worker, Work(w) \/ StoreFails(w) \/ Crash(w)
      PROVE  request' = request
  BY <1>3
     DEF Work, List, NextPhase, Claim, FetchHot, PutCold, Verify, Switch, Release,
         Expire, EraseStaging, Discard, Inspect, Retire, Recheck, Erase, StoreFails, Crash
<1>4. ASSUME Market \/ Time PROVE request' = request
  BY <1>4
     DEF Market, Time, Intent, Attach, Detach, Upload, Place, Due, Lapse, Settle, Close,
         AgeAsset, AgeObject
<1> QED
  BY <1>1, <1>2, <1>3, <1>4 DEF Next, vars

SwitchedBy(o, w) ==
  /\ Switch(w) /\ Item(w) = o /\ snap'[o].media = snap[o].media
  /\ snap'[o].tier \in {"cold", snap[o].tier}
  /\ asset' = [asset EXCEPT ![snap[o].media].cold = worker[w].cold]

(* A snapshot is taken of an image of a listing, is moved to the cold tier *)
(* with the image's row, or stays where it is.                             *)
SnapStep(o) ==
  \/ snap'[o].media = snap[o].media /\ snap'[o].tier = snap[o].tier
  \/ /\ snap[o].media = None /\ snap'[o].media \in listed
     /\ snap'[o].tier = snap[o].tier /\ asset' = asset
  \/ \E w \in Worker : SwitchedBy(o, w)

LEMMA SnapSteps == ASSUME IInv, [Next]_vars, NEW o \in Order PROVE SnapStep(o)
<1>0. SnapType
  BY TypeParts DEF IInv
<1>1. CASE snap' = snap
  BY <1>1 DEF SnapStep
<1>2. ASSUME NEW p \in Order, NEW a \in Asset, Place(p, a) PROVE SnapStep(o)
  BY <1>0, <1>2 DEF Place, SnapType, SnapRow, SnapStep
<1>3. ASSUME NEW p \in Order, Due(p) \/ Lapse(p) \/ Settle(p) PROVE SnapStep(o)
  <2>1. ASSUME Due(p) PROVE SnapStep(o)
    BY <1>0, <2>1 DEF Due, SnapType, SnapRow, SnapStep
  <2>2. ASSUME Lapse(p) PROVE SnapStep(o)
    BY <1>0, <2>2 DEF Lapse, SnapType, SnapRow, SnapStep
  <2>3. ASSUME Settle(p) PROVE SnapStep(o)
    BY <1>0, <2>3 DEF Settle, SnapType, SnapRow, SnapStep
  <2> QED
    BY <1>3, <2>1, <2>2, <2>3
<1>4. ASSUME NEW w \in Worker, NEW p \in Order, Claim(w, p) PROVE SnapStep(o)
  BY <1>0, <1>4 DEF Claim, SnapType, SnapRow, SnapStep
<1>5. ASSUME NEW w \in Worker, Switch(w), snap' # snap PROVE SnapStep(o)
  <2>1. PICK p : p = Item(w)
    OBVIOUS
  <2>2. ASSUME o = p PROVE SwitchedBy(o, w)
    BY <1>0, <1>5, <2>1, <2>2 DEF Switch, SnapType, SnapRow, SwitchedBy
  <2>3. ASSUME o # p PROVE snap'[o] = snap[o]
    BY <1>0, <1>5, <2>1, <2>3 DEF Switch, SnapType
  <2> QED
    BY <2>2, <2>3 DEF SnapStep
<1>6. ASSUME NEW w \in Worker, Release(w) PROVE SnapStep(o)
  <2>1. PICK p : p = Item(w)
    OBVIOUS
  <2> QED
    BY <1>0, <1>6, <2>1 DEF Release, SnapType, SnapRow, SnapStep
<1>7. ASSUME NEW r \in Request, Serve(r) \/ Abandon(r) PROVE snap' = snap
  BY <1>7 DEF Serve, Abandon, Complete, Fetch, PutFinal, Commit, Tidy
<1>8. ASSUME NEW w \in Worker, Work(w) \/ StoreFails(w) \/ Crash(w), snap' # snap
      PROVE  SnapStep(o)
  BY <1>4, <1>5, <1>6, <1>8
     DEF Work, List, NextPhase, FetchHot, PutCold, Verify, Expire, EraseStaging, Discard,
         Inspect, Retire, Recheck, Erase, StoreFails, Crash
<1>9. ASSUME Market \/ Time, snap' # snap PROVE SnapStep(o)
  BY <1>2, <1>3, <1>9
     DEF Market, Time, Intent, Attach, Detach, Upload, Close, AgeAsset, AgeObject
<1> QED
  BY <1>1, <1>7, <1>8, <1>9 DEF Next, vars

(* What is fixed for good: the image of a snapshot, the contents and the   *)
(* archive of a kept image, and that a completion is over.                 *)
LEMMA Lasting ==
  ASSUME IInv, [Next]_vars
  PROVE  /\ \A o \in Order : Placed(o) => snap'[o].media = snap[o].media
         /\ \A a \in Asset : Kept(a) =>
              /\ Kept(a)' /\ asset'[a].sha = asset[a].sha
              /\ asset[a].cold # None => asset'[a].cold = asset[a].cold
         /\ \A r \in Request : Over(r) => Over(r)' /\ request'[r].asset = request[r].asset
<1>1. ASSUME NEW o \in Order, Placed(o) PROVE snap'[o].media = snap[o].media
  BY <1>1, SnapSteps DEF SnapStep, SwitchedBy, Placed
<1>2. ASSUME NEW a \in Asset, Kept(a)
      PROVE  /\ Kept(a)' /\ asset'[a].sha = asset[a].sha
             /\ asset[a].cold # None => asset'[a].cold = asset[a].cold
  <2>1. ImageStep(a)
    BY ImageSteps
  <2> QED
    BY <1>2, <2>1
       DEF ImageStep, SameImage, Unkept, CommittedBy, ArchivedBy, RetiredBy, Kept
<1>3. ASSUME NEW r \in Request, Over(r) PROVE Over(r)' /\ request'[r].asset = request[r].asset
  <2>1. RequestStep(r)
    BY RequestStepsHold
  <2> QED
    BY <1>3, <2>1 DEF RequestStep, PutBy, PutFinal, Advanced, Over
<1> QED
  BY <1>1, <1>2, <1>3

-----------------------------------------------------------------------------
(* The invariant is kept, part by part.                                    *)

LEMMA AtPhase ==
  ASSUME IInv, NEW w \in Worker
  PROVE  /\ worker[w].phase \in 1..6
         /\ In(w, "archive") <=> worker[w].phase = 1
         /\ In(w, "expire") <=> worker[w].phase = 2
         /\ In(w, "retire") <=> worker[w].phase = 3
         /\ Sweeps(w) <=> worker[w].phase \in {4, 5, 6}
BY PhaseNames, TypeParts DEF IInv, WorkerType, WorkerRow, In, Sweeps

(* What an archive in progress knows.                                      *)
LEMMA Archives ==
  ASSUME IInv, NEW w \in Worker, In(w, "archive"), ~At(w, "idle")
  PROVE  \E a \in Asset, o \in Order :
           /\ o = Item(w) /\ a = snap[o].media /\ a # None
           /\ Kept(a) /\ asset[a].sha \in Byte
           /\ worker[w].step \in {"put", "verify", "switch"} =>
                worker[w].cold = Archive(a, asset[a].sha)
           /\ worker[w].step = "switch" => Holds(worker[w].cold, asset[a].sha)
<1>1. Archiving(w)
  BY AtPhase DEF IInv, Working
<1>2. PICK o \in Order : o = Item(w) /\ snap[o].media # None
  BY <1>1 DEF Archiving, Placed
<1>3. snap[o].media \in Asset
  BY <1>2, TypeParts DEF IInv, SnapType, SnapRow
<1>4. Kept(snap[o].media) /\ asset[snap[o].media].sha \in Byte
  BY <1>2, <1>3 DEF IInv, Evidence, Named
<1> QED
  BY <1>1, <1>2, <1>3, <1>4 DEF Archiving

LEMMA Erased == ASSUME IInv, NEW w \in Worker, Erase(w) PROVE Free(Item(w)) /\ Delete(Item(w))
BY AtPhase DEF Erase, IInv, Working

(* An object that holds what a row names, or what a completion or archive  *)
(* will, is there after the step with the same contents.                   *)
LEMMA StoreKeeps ==
  ASSUME IInv, [Next]_vars, NEW k, NEW b, Holds(k, b),
         \/ \E a \in Asset : k = asset[a].hot /\ asset[a].status = "ready"
         \/ \E a \in Asset : k = asset[a].cold /\ k # None /\ b = asset[a].sha
         \/ \E r \in Request : request[r].step = "commit" /\ k = FinalKey(r)
         \/ \E a \in Asset, w \in Worker : /\ In(w, "archive") /\ b = asset[a].sha
                                           /\ k = Archive(a, b)
  PROVE  Holds(k, b)'
<1>1. /\ ~IsStaging(k)
      /\ \A w \in Worker : Erase(w) => Item(w) # k
      /\ \A r \in Request : k = FinalKey(r) => request[r].step \notin {"put", "undo"}
      /\ \A a \in Asset, c \in Byte : k = Archive(a, c) /\ Kept(a) /\ c = asset[a].sha => b = c
  <2>1. CASE \E a \in Asset : k = asset[a].hot /\ asset[a].status = "ready"
    <3>1. PICK a \in Asset, r \in Request :
            k = asset[a].hot /\ k = Final(a, r) /\ Over(r) /\ request[r].asset = a
      BY <2>1 DEF IInv, Named
    <3>2. ~Unnamed(k)
      BY <3>1 DEF Unnamed
    <3> QED
      BY <3>1, <3>2, Keys, Erased DEF IsStaging, Free, FinalKey, Over
  <2>2. CASE \E a \in Asset : k = asset[a].cold /\ k # None /\ b = asset[a].sha
    <3>1. PICK a \in Asset : k = asset[a].cold /\ k = Archive(a, asset[a].sha) /\ b = asset[a].sha
      BY <2>2 DEF IInv, Named
    <3>2. ~Unnamed(k)
      BY <3>1 DEF Unnamed
    <3> QED
      BY <3>1, <3>2, Keys, Erased DEF IsStaging, Free, FinalKey
  <2>3. CASE \E r \in Request : request[r].step = "commit" /\ k = FinalKey(r)
    <3>1. PICK r \in Request : request[r].step = "commit" /\ k = Final(request[r].asset, r)
      BY <2>3 DEF FinalKey
    <3>2. ~Free(k)
      BY <3>1, Keys DEF IsStaging, Free, IsFinal, IsArchive, Over
    <3> QED
      BY <3>1, <3>2, Keys, Erased DEF IsStaging, FinalKey, Over
  <2>4. CASE \E a \in Asset, w \in Worker : /\ In(w, "archive") /\ b = asset[a].sha
                                            /\ k = Archive(a, b)
    <3>1. PICK a \in Asset, w \in Worker :
            In(w, "archive") /\ b = asset[a].sha /\ k = Archive(a, b)
      BY <2>4
    <3>2. ASSUME NEW v \in Worker, Erase(v) PROVE FALSE
      BY <3>1, <3>2, AtPhase, MediaAssumption DEF Erase
    <3> QED
      BY <3>1, <3>2, Keys DEF IsStaging, FinalKey
  <2> QED
    BY <2>1, <2>2, <2>3, <2>4
<1>2. Exists(k) /\ store[k].bytes = b
  BY DEF Holds
<1> SUFFICES k \in DOMAIN store' /\ store'[k].bytes = b
  BY DEF Holds, Exists
<1>3. ASSUME NEW j, j # k, NEW c, Put(j, c) PROVE k \in DOMAIN store' /\ store'[k].bytes = b
  BY <1>2, <1>3, PutEffect DEF Exists
<1>4. ASSUME NEW j, j # k, Delete(j) PROVE k \in DOMAIN store' /\ store'[k].bytes = b
  BY <1>2, <1>4, DeleteEffect DEF Exists
<1>5. ASSUME NEW a \in Asset, NEW c, Put(Staging(a), c) \/ Delete(Staging(a))
      PROVE  k \in DOMAIN store' /\ store'[k].bytes = b
  BY <1>1, <1>3, <1>4, <1>5 DEF IsStaging
<1>6. ASSUME NEW r \in Request, PutFinal(r)
      PROVE  k \in DOMAIN store' /\ store'[k].bytes = b
  BY <1>1, <1>3, <1>6 DEF PutFinal
<1>7. ASSUME NEW r \in Request, request[r].step = "undo", Delete(FinalKey(r))
      PROVE  k \in DOMAIN store' /\ store'[k].bytes = b
  BY <1>1, <1>4, <1>7
<1>8. ASSUME NEW w \in Worker, PutCold(w)
      PROVE  k \in DOMAIN store' /\ store'[k].bytes = b
  <2>1. PICK a \in Asset :
          /\ a = snap[Item(w)].media /\ Kept(a) /\ asset[a].sha \in Byte
          /\ worker[w].cold = Archive(a, asset[a].sha)
    BY <1>8, Archives DEF PutCold, At
  <2>2. Put(Archive(a, asset[a].sha), asset[a].sha)
    BY <1>8, <2>1 DEF PutCold
  <2>3. CASE k = Archive(a, asset[a].sha)
    <3>1. b = asset[a].sha
      BY <1>1, <2>1, <2>3
    <3>2. Put(k, b)
      BY <2>2, <2>3, <3>1
    <3>3. DOMAIN store' = DOMAIN store \cup {k} /\ store'[k] = [bytes |-> b, old |-> FALSE]
      BY <3>2, PutEffect
    <3> QED
      BY <3>3
  <2> QED
    BY <1>3, <2>2, <2>3
<1>9. ASSUME NEW j \in DOMAIN store, AgeObject(j)
      PROVE  k \in DOMAIN store' /\ store'[k].bytes = b
  BY <1>2, <1>9, TypeParts DEF AgeObject, Exists, IInv, StoreType
<1>10. ASSUME NEW w \in Worker, Erase(w)
       PROVE  k \in DOMAIN store' /\ store'[k].bytes = b
  <2>1. PICK j : j = Item(w) /\ j # k
    BY <1>1, <1>10
  <2> QED
    BY <1>4, <1>10, <2>1, Erased
<1>11. CASE store' = store
  BY <1>2, <1>11 DEF Exists
<1> QED
  BY <1>5, <1>6, <1>7, <1>8, <1>9, <1>10, <1>11, StoreSteps DEF StoreStep

LEMMA NextNamed == ASSUME IInv, [Next]_vars, NEW a \in Asset PROVE Named(a)'
<1>0. Named(a) /\ AssetType /\ asset[a].sha \in Byte \cup {None}
  BY TypeParts DEF IInv, AssetType, AssetRow
<1>2. \A h, b : h = asset[a].cold /\ h # None /\ b = asset[a].sha => Holds(h, b)'
  BY <1>0, StoreKeeps DEF Named
<1>3. \A h, b : h = asset[a].hot /\ asset[a].status = "ready" /\ b = asset[a].sha => Holds(h, b)'
  BY <1>0, StoreKeeps DEF Named
<1>4. \A r \in Request : Over(r) => Over(r)' /\ request'[r].asset = request[r].asset
  BY Lasting
<1>5. CASE SameImage(a) \/ Unkept(a)
  BY <1>0, <1>2, <1>3, <1>4, <1>5 DEF SameImage, Unkept, Named, Kept, Holds, Exists
<1>6. ASSUME NEW r \in Request, CommittedBy(a, r) PROVE Named(a)'
  <2>1. asset[a].cold = None
    BY <1>0, <1>6 DEF CommittedBy, Named, Kept
  <2>2. request[r].bytes \in Byte /\ Holds(FinalKey(r), request[r].bytes) /\ store' = store
    BY <1>6 DEF CommittedBy, IInv, Completion, Commit
  <2>3. FinalKey(r) = Final(a, r) /\ FinalKey(r) # None
    BY <1>6, KeyTypes DEF CommittedBy, FinalKey
  <2>4. request'[r].step = "tidy" /\ request'[r].asset = a
    BY <1>6, TypeParts DEF CommittedBy, Commit, Goto, IInv, RequestType, RequestRow
  <2> QED
    BY <1>6, <2>1, <2>2, <2>3, <2>4 DEF CommittedBy, Named, Kept, Over, Holds, Exists
<1>7. ASSUME NEW w \in Worker, ArchivedBy(a, w) PROVE Named(a)'
  <2>1. /\ Kept(a) /\ asset[a].sha \in Byte /\ worker[w].cold = Archive(a, asset[a].sha)
        /\ Holds(worker[w].cold, asset[a].sha) /\ store' = store
    BY <1>7, Archives DEF ArchivedBy, Switch, At
  <2> QED
    BY <1>0, <1>4, <1>7, <2>1 DEF ArchivedBy, Named, Kept, Holds, Exists
<1>8. ASSUME NEW w \in Worker, RetiredBy(a, w) PROVE Named(a)'
  BY <1>0, <1>2, <1>8 DEF RetiredBy, Retirable, Named, Kept, Holds, Exists
<1> QED
  BY <1>5, <1>6, <1>7, <1>8, ImageSteps DEF ImageStep

(* Only an image whose orders are all archived is retired.                 *)
LEMMA NextEvidence == ASSUME IInv, [Next]_vars, NEW o \in Order PROVE Evidence(o)'
<1>0. Evidence(o) /\ snap[o] \in SnapRow /\ listed \subseteq Asset
  BY TypeParts DEF IInv, SnapType
<1>1. CASE snap'[o].media = snap[o].media /\ snap'[o].tier = snap[o].tier
  <2>1. CASE snap[o].media = None
    BY <1>0, <1>1, <2>1 DEF Evidence
  <2>2. CASE snap[o].media # None
    <3>1. PICK a \in Asset : a = snap[o].media /\ ImageStep(a)
      BY <1>0, <2>2, ImageSteps DEF SnapRow
    <3>2. Kept(a) /\ Kept(a)' /\ (asset[a].cold # None => asset'[a].cold = asset[a].cold)
      BY <1>0, <2>2, <3>1, Lasting DEF Evidence
    <3>3. ASSUME snap[o].tier = "hot" PROVE asset'[a].status = "ready"
      <4>1. asset[a].status = "ready"
        BY <1>0, <2>2, <3>1, <3>3 DEF Evidence
      <4>2. ASSUME NEW w \in Worker, RetiredBy(a, w) PROVE FALSE
        BY <3>1, <3>3, <4>2 DEF RetiredBy, Retirable, RowsOf
      <4> QED
        BY <3>1, <3>2, <4>1, <4>2
           DEF ImageStep, SameImage, Unkept, CommittedBy, ArchivedBy, Kept
    <3> QED
      BY <1>0, <1>1, <2>2, <3>1, <3>2, <3>3 DEF Evidence
  <2> QED
    BY <2>1, <2>2
<1>2. CASE /\ snap[o].media = None /\ snap'[o].media \in listed
           /\ snap'[o].tier = snap[o].tier /\ asset' = asset
  <2>1. PICK a \in listed : a = snap'[o].media /\ asset'[a].status = "ready"
    BY <1>2 DEF IInv, Listed
  <2> QED
    BY <1>0, <1>2, <2>1, MediaAssumption DEF Evidence, Kept
<1>3. ASSUME NEW w \in Worker, SwitchedBy(o, w) PROVE Evidence(o)'
  <2>1. PICK a \in Asset :
          /\ a = snap[o].media /\ a # None /\ Kept(a) /\ asset[a].sha \in Byte
          /\ worker[w].cold = Archive(a, asset[a].sha)
    BY <1>3, Archives DEF SwitchedBy, Switch, At
  <2>2. asset'[a].cold # None /\ asset'[a].status = asset[a].status
    BY <1>3, <2>1, KeyTypes, TypeParts DEF SwitchedBy, IInv, AssetType, AssetRow
  <2> QED
    BY <1>0, <1>3, <2>1, <2>2 DEF SwitchedBy, Evidence, Kept
<1> QED
  BY <1>1, <1>2, <1>3, SnapSteps DEF SnapStep

LEMMA NextListed == ASSUME IInv, [Next]_vars PROVE Listed'
<1> SUFFICES ASSUME NEW a \in listed' PROVE asset'[a].status = "ready"
  BY DEF Listed
<1>1. CASE a \in listed
  <2>1. a \in Asset /\ asset[a].status = "ready"
    BY <1>1, TypeParts DEF IInv, Listed
  <2>2. ASSUME NEW w \in Worker, RetiredBy(a, w) PROVE FALSE
    BY <1>1, <2>2 DEF RetiredBy, Retirable
  <2> QED
    BY <2>1, <2>2, ImageSteps
       DEF ImageStep, SameImage, Unkept, CommittedBy, ArchivedBy, Kept
<1>2. CASE a \notin listed
  <2>1. PICK b \in Asset : Attach(b)
    <3>1. ASSUME NEW r \in Request, Serve(r) \/ Abandon(r) PROVE listed' = listed
      BY <3>1 DEF Serve, Abandon, Complete, Fetch, PutFinal, Commit, Tidy
    <3>2. ASSUME NEW w \in Worker, Work(w) \/ StoreFails(w) \/ Crash(w) PROVE listed' = listed
      BY <3>2
         DEF Work, List, NextPhase, Claim, FetchHot, PutCold, Verify, Switch, Release,
             Expire, EraseStaging, Discard, Inspect, Retire, Recheck, Erase, StoreFails, Crash
    <3> QED
      BY <1>2, <3>1, <3>2
         DEF Next, vars, Market, Time, Intent, Detach, Upload, Place, Due, Lapse, Settle,
             Close, AgeAsset, AgeObject
  <2> QED
    BY <1>2, <2>1 DEF Attach
<1> QED
  BY <1>1, <1>2

(* An object of a completion's key is one that was there, or the one that  *)
(* this completion puts.                                                   *)
LEMMA FinalSteps ==
  ASSUME IInv, [Next]_vars, NEW r \in Request, NEW a \in Asset, NEW k,
         k = Final(a, r), k \in DOMAIN store'
  PROVE  \/ /\ k \in DOMAIN store
            /\ store'[k].old => store[k].old \/ AgeObject(k)
         \/ PutFinal(r) /\ request[r].asset = a /\ ~store'[k].old
<1> DEFINE Was == /\ k \in DOMAIN store
                  /\ store'[k].old => store[k].old \/ AgeObject(k)
<1>1. ASSUME NEW j, j # k, NEW c, Put(j, c) PROVE Was
  <2>1. /\ DOMAIN store' = DOMAIN store \cup {j}
        /\ \A x \in DOMAIN store : x # j => store'[x] = store[x]
    BY <1>1, PutEffect
  <2>2. k \in DOMAIN store
    BY <1>1, <2>1
  <2> QED
    BY <1>1, <2>1, <2>2
<1>2. ASSUME NEW j, Delete(j) PROVE Was
  BY <1>2, DeleteEffect
<1>3. ASSUME NEW b \in Asset, NEW c, Put(Staging(b), c) PROVE Was
  BY <1>1, <1>3, Keys
<1>4. ASSUME NEW w \in Worker, PutCold(w) PROVE Was
  <2>1. PICK b \in Asset : worker[w].cold = Archive(b, asset[b].sha)
    BY <1>4, Archives DEF PutCold, At
  <2> QED
    BY <1>1, <1>4, <2>1, Keys DEF PutCold
<1>5. ASSUME NEW j \in DOMAIN store, AgeObject(j) PROVE Was
  BY <1>5, TypeParts DEF AgeObject, IInv, StoreType
<1>6. ASSUME NEW q \in Request, PutFinal(q)
      PROVE  Was \/ (PutFinal(r) /\ request[r].asset = a /\ ~store'[k].old)
  <2>1. CASE FinalKey(q) = k
    <3>1. q = r /\ request[r].asset = a
      BY <2>1, Keys DEF FinalKey
    <3>2. Put(k, request[q].bytes)
      BY <1>6, <2>1 DEF PutFinal
    <3>3. store'[k] = [bytes |-> request[q].bytes, old |-> FALSE]
      BY <3>2, PutEffect
    <3> QED
      BY <1>6, <3>1, <3>3
  <2>2. CASE FinalKey(q) # k
    BY <1>1, <1>6, <2>2 DEF PutFinal
  <2> QED
    BY <2>1, <2>2
<1>7. ASSUME NEW w \in Worker, Erase(w) PROVE Was
  BY <1>2, <1>7, Erased
<1> QED
  BY <1>2, <1>3, <1>4, <1>5, <1>6, <1>7, StoreSteps DEF StoreStep

LEMMA NextCompletion == ASSUME IInv, [Next]_vars, NEW r \in Request PROVE Completion(r)'
<1>0. Completion(r) /\ RequestStep(r) /\ request[r] \in RequestRow
  BY RequestStepsHold, TypeParts DEF IInv, RequestType
<1>1. request'[r].step # "new" => request'[r].asset \in Asset
  BY <1>0 DEF Completion, RequestStep, PutBy, PutFinal, Advanced
<1>2. request'[r].step \in {"put", "commit"} => request'[r].bytes \in Byte
  BY <1>0 DEF Completion, RequestStep, PutBy, PutFinal, Advanced
<1>3. ASSUME request'[r].step = "commit"
      PROVE  \A k, b : k = Final(request'[r].asset, r) /\ b = request'[r].bytes => Holds(k, b)'
  <2> TAKE k, b
  <2> HAVE k = Final(request'[r].asset, r) /\ b = request'[r].bytes
  <2>1. CASE PutBy(r)
    <3>1. Put(k, b)
      BY <2>1 DEF PutBy, PutFinal, FinalKey
    <3>2. DOMAIN store' = DOMAIN store \cup {k} /\ store'[k] = [bytes |-> b, old |-> FALSE]
      BY <3>1, PutEffect
    <3> QED
      BY <3>2 DEF Holds, Exists
  <2>2. CASE request'[r] = request[r]
    <3>1. Holds(k, b) /\ k = FinalKey(r) /\ request[r].step = "commit"
      BY <1>0, <1>3, <2>2 DEF Completion, FinalKey
    <3> QED
      BY <3>1, StoreKeeps
  <2> QED
    BY <1>0, <1>3, <2>1, <2>2 DEF RequestStep, Advanced
<1>4. ASSUME NEW a \in Asset, NEW k, k = Final(a, r), k \in DOMAIN store'
      PROVE  /\ request'[r].asset = a
             /\ request'[r].step \notin {"new", "fetch", "put"}
             /\ store'[k].old => Over(r)'
  <2>1. CASE /\ k \in DOMAIN store
             /\ store'[k].old => store[k].old \/ AgeObject(k)
    <3>1. /\ request[r].asset = a /\ request[r].step \notin {"new", "fetch", "put"}
          /\ store[k].old => Over(r)
      BY <1>0, <1>4, <2>1 DEF Completion, Exists
    <3>2. /\ request'[r].asset = a /\ request'[r].step \notin {"new", "fetch", "put"}
      BY <1>0, <3>1 DEF RequestStep, PutBy, PutFinal, Advanced
    <3>3. Over(r) => Over(r)'
      BY Lasting
    <3>4. AgeObject(k) => Over(r)
      BY <1>0, <1>4, <3>1 DEF AgeObject, InUse, FinalKey, Over, RequestRow, RequestSteps
    <3> QED
      BY <2>1, <3>1, <3>2, <3>3, <3>4
  <2>2. CASE PutFinal(r) /\ request[r].asset = a /\ ~store'[k].old
    <3>1. request'[r].step = "commit" /\ request'[r].asset = request[r].asset
      BY <2>2, TypeParts DEF PutFinal, Goto, IInv, RequestType, RequestRow
    <3> QED
      BY <2>2, <3>1
  <2> QED
    BY <1>4, <2>1, <2>2, FinalSteps
<1> QED
  BY <1>1, <1>2, <1>3, <1>4 DEF Completion, FinalKey, Holds, Exists

(* A free key stays free unless an archive names it.                       *)
LEMMA FreeLasts ==
  ASSUME IInv, [Next]_vars, NEW k, Free(k), \A w \in Worker : ~Switch(w)
  PROVE  Free(k)'
<1>1. IsFinal(k) => IsFinal(k)'
  BY Lasting DEF IsFinal
<1>2. ASSUME ~IsStaging(k), NEW a \in Asset PROVE k # asset'[a].hot /\ k # asset'[a].cold
  <2>1. k # asset[a].hot /\ k # asset[a].cold
    BY <1>2 DEF Free, Unnamed
  <2>2. k # None
    BY <1>2, KeyTypes DEF Free, IsFinal, IsArchive
  <2>3. ASSUME NEW r \in Request, request[r].step = "commit" PROVE k # FinalKey(r)
    BY <1>2, <2>3, Keys DEF Free, IsFinal, IsArchive, FinalKey, Over
  <2> QED
    BY <2>1, <2>2, <2>3, ImageSteps
       DEF ImageStep, SameImage, Unkept, CommittedBy, ArchivedBy, RetiredBy
<1> QED
  BY <1>1, <1>2 DEF Free, Unnamed, IsStaging, IsArchive

LEMMA PlacedLasts ==
  ASSUME IInv, [Next]_vars, NEW o, Placed(o)
  PROVE  Placed(o)' /\ snap'[o].media = snap[o].media
BY Lasting DEF Placed

(* What the worker knows stands while others move.                         *)
LEMMA OthersWorking ==
  ASSUME IInv, [Next]_vars, NEW w \in Worker, worker' = worker
  PROVE  Working(w)'
<1>0. Working(w) /\ WorkerType
  BY TypeParts DEF IInv
<1>1. \A v \in Worker : ~Switch(v)
  BY <1>0, StepEffect DEF IInv, Switch, At, WorkerSteps
<1>2. \A k : Free(k) => Free(k)'
  BY <1>1, FreeLasts
<1>3. \A k : IsFinal(k) => IsFinal(k)'
  BY Lasting DEF IsFinal
<1>4. \A o : Placed(o) => Placed(o)'
  BY PlacedLasts
<1>5. ASSUME worker[w].phase = 1, ~At(w, "idle") PROVE Archiving(w)'
  <2>1. In(w, "archive")
    BY <1>5, AtPhase
  <2>2. PICK a \in Asset, o \in Order :
          /\ o = Item(w) /\ a = snap[o].media /\ a # None /\ Kept(a)
          /\ worker[w].step \in {"put", "verify", "switch"} =>
               worker[w].cold = Archive(a, asset[a].sha)
          /\ worker[w].step = "switch" => Holds(worker[w].cold, asset[a].sha)
    BY <1>5, <2>1, Archives
  <2>3. snap'[o].media = a /\ Placed(o)' /\ asset'[a].sha = asset[a].sha
    BY <2>2, PlacedLasts, Lasting DEF Placed
  <2>4. PICK k, b : k = worker[w].cold /\ b = asset[a].sha
    OBVIOUS
  <2>5. worker[w].step = "switch" => Holds(k, b)'
    BY <2>1, <2>2, <2>4, StoreKeeps
  <2> QED
    BY <2>2, <2>3, <2>4, <2>5 DEF Archiving, Item
<1> QED
  BY <1>0, <1>2, <1>3, <1>4, <1>5 DEF Working, At, Item, IsStaging, IsArchive

(* An archive under way goes on with the same snapshot and contents.       *)
LEMMA StillArchiving ==
  ASSUME IInv, [Next]_vars, NEW w \in Worker, In(w, "archive"), ~At(w, "idle"),
         worker'[w].item = worker[w].item,
         worker'[w].step \in {"put", "verify", "switch"} =>
           worker'[w].cold = Archive(snap[Item(w)].media, asset[snap[Item(w)].media].sha),
         worker'[w].step = "switch" =>
           Holds(worker'[w].cold, asset[snap[Item(w)].media].sha)
  PROVE  Archiving(w)'
<1>1. PICK a \in Asset, o \in Order : o = Item(w) /\ a = snap[o].media /\ a # None /\ Kept(a)
  BY Archives
<1>2. snap'[o].media = a /\ Placed(o)' /\ asset'[a].sha = asset[a].sha
  BY <1>1, PlacedLasts, Lasting DEF Placed
<1>3. PICK k, b : k = worker'[w].cold /\ b = asset[a].sha
  OBVIOUS
<1>4. worker'[w].step = "switch" => Holds(k, b)'
  BY <1>1, <1>3, StoreKeeps
<1> QED
  BY <1>1, <1>2, <1>3, <1>4 DEF Archiving, Item

(* A worker that goes idle has nothing to answer for but its list.         *)
LEMMA IdleWorking ==
  ASSUME IInv, [Next]_vars, NEW w \in Worker, worker'[w].step = "idle",
         worker'[w].phase = worker[w].phase, worker'[w].todo \subseteq worker[w].todo
  PROVE  Working(w)'
<1>1. \A k : IsFinal(k) => IsFinal(k)'
  BY Lasting DEF IsFinal
<1>2. \A o : Placed(o) => Placed(o)'
  BY PlacedLasts
<1> QED
  BY <1>1, <1>2 DEF IInv, Working, At, IsStaging, IsArchive

(* The list of the worker in the phase it stays in.                        *)
LEMMA ListWorking ==
  ASSUME IInv, [Next]_vars, NEW w \in Worker,
         worker'[w].phase = worker[w].phase, worker'[w].todo \subseteq worker[w].todo
  PROVE  /\ worker'[w].phase = 1 => \A o \in worker'[w].todo : Placed(o)'
         /\ worker'[w].phase = 4 => \A k \in worker'[w].todo : IsFinal(k)'
         /\ worker'[w].phase = 5 => \A k \in worker'[w].todo : IsStaging(k)
         /\ worker'[w].phase = 6 => \A k \in worker'[w].todo : IsArchive(k)
<1>1. \A k : IsFinal(k) => IsFinal(k)'
  BY Lasting DEF IsFinal
<1>2. \A o : Placed(o) => Placed(o)'
  BY PlacedLasts
<1> QED
  BY <1>1, <1>2 DEF IInv, Working, At

LEMMA ArchiveWorking ==
  ASSUME IInv, [Next]_vars, NEW w \in Worker,
         \/ \E o \in Order : Claim(w, o)
         \/ FetchHot(w) \/ PutCold(w) \/ Verify(w) \/ Switch(w) \/ Release(w)
  PROVE  Working(w)'
<1>0. worker[w].phase = 1 /\ In(w, "archive") /\ TypeOK
  BY AtPhase DEF IInv, Claim, FetchHot, PutCold, Verify, Switch, Release
<1>1. ASSUME NEW o \in Order, Claim(w, o) PROVE Working(w)'
  <2>1. /\ o \in worker[w].todo /\ worker'[w].phase = 1
        /\ worker'[w].todo \subseteq worker[w].todo
        /\ worker'[w].step \in {"fetch", "idle"}
        /\ worker'[w].step = "fetch" => worker'[w].item = o
    BY <1>0, <1>1, TakeEffect DEF Claim, WorkerSteps
  <2>2. Placed(o)'
    BY <1>0, <2>1, PlacedLasts DEF IInv, Working
  <2>3. worker'[w].step = "fetch" => Archiving(w)'
    BY <2>1, <2>2 DEF Archiving, Item
  <2> QED
    BY <1>0, <2>1, <2>3, ListWorking DEF Working, At
<1>2. ASSUME ~At(w, "idle"), worker'[w].phase = 1, worker'[w].todo = worker[w].todo,
             worker'[w].step # "idle" => Archiving(w)'
      PROVE  Working(w)'
  BY <1>0, <1>2, ListWorking DEF Working, At
<1>3. CASE FetchHot(w)
  <2>1. PICK a \in Asset, o \in Order :
          o = Item(w) /\ a = snap[o].media /\ a # None /\ Kept(a)
    BY <1>0, <1>3, Archives DEF FetchHot, At
  <2>2. asset[a].cold # None => asset[a].cold = Archive(a, asset[a].sha)
    BY DEF IInv, Named
  <2>3. /\ worker'[w].phase = 1 /\ worker'[w].todo = worker[w].todo
        /\ worker'[w].item = worker[w].item
        /\ worker'[w].step \in {"put", "verify", "release"}
        /\ worker'[w].step # "release" => worker'[w].cold = Archive(a, asset[a].sha)
    <3>1. ASSUME Step(w, "release")
          PROVE  /\ worker'[w].phase = 1 /\ worker'[w].todo = worker[w].todo
                 /\ worker'[w].item = worker[w].item /\ worker'[w].step = "release"
      BY <1>0, <3>1, StepEffect DEF WorkerSteps
    <3>2. ASSUME NEW s, NEW c, worker' = [worker EXCEPT ![w].step = s, ![w].cold = c]
          PROVE  /\ worker'[w].phase = 1 /\ worker'[w].todo = worker[w].todo
                 /\ worker'[w].item = worker[w].item /\ worker'[w].step = s
                 /\ worker'[w].cold = c
      BY <1>0, <3>2, TypeParts DEF WorkerType, WorkerRow
    <3> QED
      BY <1>3, <2>1, <2>2, <3>1, <3>2 DEF FetchHot
  <2>4. Archiving(w)'
    BY <1>0, <1>3, <2>1, <2>3, StillArchiving DEF FetchHot, At
  <2> QED
    BY <1>2, <1>3, <2>3, <2>4 DEF FetchHot, At
<1>4. CASE PutCold(w) \/ Verify(w)
  <2>1. PICK a \in Asset, o \in Order :
          /\ o = Item(w) /\ a = snap[o].media
          /\ worker[w].cold = Archive(a, asset[a].sha)
    BY <1>0, <1>4, Archives DEF PutCold, Verify, At
  <2>2. /\ worker'[w].phase = 1 /\ worker'[w].todo = worker[w].todo
        /\ worker'[w].item = worker[w].item /\ worker'[w].cold = worker[w].cold
        /\ worker'[w].step \in {"verify", "switch", "release"}
        /\ worker'[w].step = "switch" => Holds(worker[w].cold, asset[a].sha)
    BY <1>0, <1>4, <2>1, StepEffect DEF PutCold, Verify, WorkerSteps
  <2>3. Archiving(w)'
    BY <1>0, <1>4, <2>1, <2>2, StillArchiving DEF PutCold, Verify, At
  <2> QED
    BY <1>2, <1>4, <2>2, <2>3 DEF PutCold, Verify, At
<1>5. CASE Switch(w) \/ Release(w)
  <2>1. PICK a \in Asset, o \in Order : o = Item(w) /\ a = snap[o].media
    BY <1>0, <1>5, Archives DEF Switch, Release, At
  <2>2. /\ worker'[w].phase = 1 /\ worker'[w].todo = worker[w].todo
        /\ worker'[w].step \in {"idle", "release"}
        /\ worker'[w].step # "idle" => worker'[w].item = worker[w].item
    BY <1>0, <1>5, StepEffect DEF Switch, Release, WorkerSteps
  <2>3. worker'[w].step # "idle" => Archiving(w)'
    BY <1>0, <1>5, <2>1, <2>2, StillArchiving DEF Switch, Release, At
  <2> QED
    BY <1>2, <1>5, <2>2, <2>3 DEF Switch, Release, At
<1> QED
  BY <1>1, <1>3, <1>4, <1>5

LEMMA Heads ==
  ASSUME NEW k
  PROVE  /\ IsStaging(k) => k[1] = "staging/"
         /\ IsFinal(k) => k[1] = "assets/"
         /\ IsArchive(k) => k[1] = "archive/"
BY Keys DEF IsStaging, IsFinal, IsArchive

(* The other phases: what a worker is about to erase is free, and no       *)
(* archive is under way.                                                   *)
LEMMA SweepWorking ==
  ASSUME IInv, [Next]_vars, NEW w \in Worker,
         \/ \E c \in Asset \X {"pending", "expired"} : Expire(w, c)
         \/ EraseStaging(w) \/ Discard(w)
         \/ \E a \in Asset : Inspect(w, a)
         \/ Retire(w)
         \/ \E k \in Key : Recheck(w, k)
         \/ Erase(w)
  PROVE  Working(w)'
<1>a. In(w, "expire") \/ In(w, "retire") \/ Sweeps(w)
  BY DEF Expire, EraseStaging, Discard, Inspect, Retire, Recheck, Erase
<1>0. worker[w].phase \in 2..6 /\ ~In(w, "archive") /\ TypeOK
  BY <1>a, AtPhase DEF IInv
<1>1. \A v \in Worker : ~Switch(v)
  BY <1>0, MediaAssumption DEF Switch
<1>2. \A k : Free(k) => Free(k)'
  BY <1>1, FreeLasts
<1>3. ASSUME NEW c \in Asset \X {"pending", "expired"}, Expire(w, c) PROVE Working(w)'
  <2>1. /\ worker'[w].phase = 2 /\ worker'[w].step \in {"erase", "idle"}
        /\ worker'[w].step # "idle" => worker'[w].item = c
    BY <1>0, <1>3, AtPhase, TakeEffect DEF Expire, WorkerSteps
  <2> QED
    BY <2>1 DEF Working, At, Item
<1>4. CASE EraseStaging(w) \/ Discard(w)
  <2>1. worker[w].phase = 2 /\ Item(w) \in Asset \X {"pending", "expired"}
    BY <1>4, AtPhase DEF EraseStaging, Discard, IInv, Working, At
  <2>2. /\ worker'[w].phase = 2 /\ worker'[w].step \in {"discard", "idle"}
        /\ worker'[w].step # "idle" => worker'[w].item = worker[w].item
    BY <1>0, <1>4, <2>1, StepEffect DEF EraseStaging, Discard, WorkerSteps
  <2> QED
    BY <2>1, <2>2 DEF Working, At, Item
<1>5. ASSUME NEW a \in Asset, Inspect(w, a) PROVE Working(w)'
  <2>1. /\ worker'[w].phase = 3 /\ worker'[w].step \in {"lock", "idle"}
        /\ worker'[w].step # "idle" => worker'[w].item = a
    BY <1>0, <1>5, AtPhase, TakeEffect DEF Inspect, WorkerSteps
  <2> QED
    BY <2>1 DEF Working, At, Item
<1>6. CASE Retire(w)
  <2>1. PICK a \in Asset : a = Item(w)
    BY <1>6, AtPhase DEF Retire, IInv, Working
  <2>2. worker[w].phase = 3
    BY <1>6, AtPhase DEF Retire
  <2>3. ASSUME ~Retirable(a) PROVE worker'[w].phase = 3 /\ worker'[w].step = "idle"
    BY <1>0, <1>6, <2>1, <2>2, <2>3, StepEffect DEF Retire, WorkerSteps
  <2>4. ASSUME Retirable(a)
        PROVE  /\ worker'[w].phase = 3 /\ worker'[w].item = asset[a].hot
               /\ asset' = [asset EXCEPT ![a].status = "cold_only", ![a].hot = None]
               /\ worker'[w].step = "erase"
    <3>1. /\ worker' = [worker EXCEPT ![w].step = "erase", ![w].item = asset[a].hot]
          /\ asset' = [asset EXCEPT ![a].status = "cold_only", ![a].hot = None]
      BY <1>6, <2>1, <2>4 DEF Retire
    <3> QED
      BY <1>0, <2>2, <3>1, TypeParts DEF WorkerType, WorkerRow
  <2>5. ASSUME Retirable(a), NEW k, k = asset[a].hot PROVE Free(k)'
    <3>1. PICK r \in Request : k = Final(a, r) /\ Over(r) /\ request[r].asset = a
      BY <2>5 DEF Retirable, IInv, Named
    <3>2. IsFinal(k)'
      BY <3>1, Lasting DEF IsFinal
    <3>3. ASSUME NEW b \in Asset PROVE k # asset'[b].hot /\ k # asset'[b].cold
      <4>1. asset'[a].hot = None /\ asset'[a].cold = asset[a].cold
            /\ (b # a => asset'[b] = asset[b])
        BY <1>0, <2>4, <2>5, TypeParts DEF AssetType, AssetRow
      <4>2. asset[b].cold # None => asset[b].cold = Archive(b, asset[b].sha)
        BY DEF IInv, Named
      <4>3. asset[b].hot # None => \E q \in Request : asset[b].hot = Final(b, q)
        BY DEF IInv, Named
      <4>4. k # None
        BY <3>1, KeyTypes
      <4>5. k # asset'[b].cold
        BY <3>1, <4>1, <4>2, <4>4, Keys
      <4>6. ASSUME b # a PROVE k # asset[b].hot
        BY <3>1, <4>3, <4>4, <4>6, Keys
      <4> QED
        BY <4>1, <4>4, <4>5, <4>6
    <3> QED
      BY <3>2, <3>3 DEF Free, Unnamed
  <2> QED
    BY <2>3, <2>4, <2>5 DEF Working, At, Item
<1>7. ASSUME NEW k \in Key, Recheck(w, k) PROVE Working(w)'
  <2>1. /\ k \in worker[w].todo /\ worker'[w].phase = worker[w].phase
        /\ worker'[w].todo \subseteq worker[w].todo
        /\ worker'[w].step \in {"erase", "idle"}
        /\ worker'[w].step # "idle" => worker'[w].item = k /\ Untracked(k)
        /\ worker[w].phase \in {4, 5, 6}
    BY <1>0, <1>7, AtPhase, TakeEffect DEF Recheck, WorkerSteps
  <2>2. Untracked(k) => Free(k)
    <3>1. IsFinal(k) \/ IsStaging(k) \/ IsArchive(k)
      BY <2>1 DEF IInv, Working
    <3> QED
      BY <3>1, Heads DEF Untracked, Free
  <2>3. worker'[w].step # "idle" => Free(k)'
    BY <1>2, <2>1, <2>2
  <2> QED
    BY <2>1, <2>3, ListWorking DEF Working, At, Item
<1>8. CASE Erase(w)
  BY <1>0, <1>8, StepEffect, IdleWorking DEF Erase, WorkerSteps
<1> QED
  BY <1>3, <1>4, <1>5, <1>6, <1>7, <1>8

LEMMA TurnWorking ==
  ASSUME IInv, [Next]_vars, NEW w \in Worker,
         List(w) \/ NextPhase(w) \/ StoreFails(w) \/ Crash(w)
  PROVE  Working(w)'
<1>0. worker[w].phase \in 1..6 /\ TypeOK /\ worker[w] \in WorkerRow
  BY AtPhase, TypeParts DEF IInv, WorkerType
<1>1. CASE List(w)
  <2>1. PICK S : S = Listing(Phases[worker[w].phase])
    OBVIOUS
  <2>2. /\ worker'[w].phase = worker[w].phase /\ worker'[w].step = worker[w].step
        /\ worker'[w].item = worker[w].item /\ worker'[w].cold = worker[w].cold
        /\ worker'[w].todo = S
    BY <1>0, <1>1, <2>1, TypeParts DEF List, WorkerType, WorkerRow
  <2>3. ~Switch(w) /\ UNCHANGED <<asset, snap, store, request>>
    BY <1>0, <1>1, <2>2, StepEffect DEF List, Switch, At, WorkerSteps
  <2>4. worker[w].phase = 1 => \A o \in S : Placed(o)
    BY <2>1, PhaseNames DEF Listing, DueRows, Placed
  <2>5. ASSUME NEW p \in {"assets/", "staging/", "archive/"}, NEW k \in Litter(p)
        PROVE  /\ p = "assets/" => IsFinal(k)
               /\ p = "staging/" => IsStaging(k)
               /\ p = "archive/" => IsArchive(k)
    <3>1. k \in Key /\ k[1] = p /\ k \in DOMAIN store /\ store[k].old
      BY <1>0, <2>5, TypeParts DEF Litter, StoreType
    <3>2. \/ IsStaging(k) \/ IsArchive(k)
          \/ \E a \in Asset, r \in Request : k = Final(a, r)
      BY <3>1 DEF Key, IsStaging, IsArchive
    <3>3. ASSUME NEW a \in Asset, NEW r \in Request, k = Final(a, r) PROVE IsFinal(k)
      BY <3>1, <3>3 DEF IInv, Completion, Exists, IsFinal
    <3> QED
      BY <2>5, <3>1, <3>2, <3>3, Heads
  <2>6. /\ worker[w].phase = 4 => \A k \in S : IsFinal(k)
        /\ worker[w].phase = 5 => \A k \in S : IsStaging(k)
        /\ worker[w].phase = 6 => \A k \in S : IsArchive(k)
    BY <2>1, <2>5, PhaseNames DEF Listing
  <2> QED
    BY <2>2, <2>3, <2>4, <2>6
       DEF IInv, Working, At, Item, Archiving, Placed, Holds, Exists, Free, IsFinal, IsStaging,
           IsArchive, Unnamed, Over
<1>2. CASE NextPhase(w)
  <2>1. worker'[w].step = "idle" /\ worker'[w].todo = {}
    BY <1>0, <1>2, TypeParts DEF NextPhase, Start, WorkerType
  <2> QED
    BY <2>1 DEF Working, At
<1>3. CASE Crash(w)
  <2>1. worker'[w].step = "idle" /\ worker'[w].todo = {}
    BY <1>0, <1>3, TypeParts DEF Crash, Start, WorkerType
  <2> QED
    BY <2>1 DEF Working, At
<1>4. CASE StoreFails(w) /\ ~In(w, "archive")
  BY <1>0, <1>4, StepEffect, IdleWorking DEF StoreFails, WorkerSteps
<1>5. CASE StoreFails(w) /\ In(w, "archive")
  <2>1. /\ worker'[w].phase = 1 /\ worker'[w].todo = worker[w].todo /\ worker[w].phase = 1
        /\ worker'[w].item = worker[w].item /\ worker'[w].step = "release"
    BY <1>0, <1>5, AtPhase, StepEffect DEF StoreFails, WorkerSteps
  <2>2. Archiving(w)'
    BY <1>5, <2>1, StillArchiving DEF StoreFails, At
  <2> QED
    BY <2>1, <2>2, ListWorking DEF Working, At
<1> QED
  BY <1>1, <1>2, <1>3, <1>4, <1>5

LEMMA NextWorking == ASSUME IInv, [Next]_vars, NEW w \in Worker PROVE Working(w)'
<1>1. ASSUME NEW v \in Worker, Work(v) \/ StoreFails(v) \/ Crash(v) PROVE Working(w)'
  BY <1>1, ArchiveWorking, SweepWorking, TurnWorking, MediaAssumption DEF Work
<1>2. ASSUME NEW r \in Request, Serve(r) \/ Abandon(r) PROVE worker' = worker
  BY <1>2 DEF Serve, Abandon, Complete, Fetch, PutFinal, Commit, Tidy
<1>3. ASSUME Market \/ Time PROVE worker' = worker
  BY <1>3
     DEF Market, Time, Intent, Attach, Detach, Upload, Place, Due, Lapse, Settle, Close,
         AgeAsset, AgeObject
<1> QED
  BY <1>1, <1>2, <1>3, OthersWorking DEF Next, vars

-----------------------------------------------------------------------------
(* The theorems.                                                           *)

LEMMA InitInv == Init => IInv
<1> SUFFICES ASSUME Init PROVE IInv
  OBVIOUS
<1>1. TypeOK
  BY InitType
<1>2. Listed
  BY DEF Init, Listed
<1>3. ASSUME NEW a \in Asset PROVE Named(a)
  BY <1>3 DEF Init, Named, Kept
<1>4. ASSUME NEW o \in Order PROVE Evidence(o)
  BY <1>4 DEF Init, Evidence
<1>5. ASSUME NEW r \in Request PROVE Completion(r)
  BY <1>5 DEF Init, Completion, Exists
<1>6. ASSUME NEW w \in Worker PROVE Working(w)
  BY <1>6 DEF Init, Working, At, Start
<1> QED
  BY <1>1, <1>2, <1>3, <1>4, <1>5, <1>6 DEF IInv

LEMMA NextInv == IInv /\ [Next]_vars => IInv'
BY NextType, NextListed, NextNamed, NextEvidence, NextCompletion, NextWorking DEF IInv

(* Every reachable state has rows, objects and processes of the declared   *)
(* types (Init, Next).                                                     *)
THEOREM TypeCorrect == Spec => []TypeOK
<1>1. IInv => TypeOK
  BY DEF IInv
<1> QED
  BY InitInv, NextInv, <1>1, PTL DEF Spec

(* Whatever a listing, a row or an order names can be read with the bytes  *)
(* that were checked, between any two calls of uploads, completions and    *)
(* the worker, failed and crashed ones included.                           *)
THEOREM ImagesHold == Spec => []ImagesKept
<1>1. IInv => ImagesKept
  <2> SUFFICES ASSUME IInv PROVE ImagesKept
    OBVIOUS
  <2>1. \A a \in listed : asset[a].status = "ready"
    BY DEF IInv, Listed
  <2>2. ASSUME NEW o \in Order, snap[o].media # None
        PROVE  IF snap[o].tier = "cold" THEN asset[snap[o].media].cold # None
                                        ELSE asset[snap[o].media].hot # None
    <3>1. snap[o].media \in Asset /\ snap[o].tier \in {"hot", "cold"}
      BY <2>2, TypeParts DEF IInv, SnapType, SnapRow
    <3> QED
      BY <2>2, <3>1 DEF IInv, Evidence, Named
  <2> QED
    BY <2>1, <2>2 DEF IInv, Named, ImagesKept
<1> QED
  BY InitInv, NextInv, <1>1, PTL DEF Spec

(* The image of an order's snapshot and the digest it is checked against   *)
(* never change (Place, Commit).                                           *)
THEOREM EvidenceHolds == Spec => EvidenceFixed
<1> DEFINE Fixed ==
      \A o \in Order : snap[o].media # None =>
        /\ snap'[o].media = snap[o].media
        /\ asset'[snap[o].media].sha = asset[snap[o].media].sha
<1>1. IInv /\ [Next]_vars => Fixed
  <2> SUFFICES ASSUME IInv, [Next]_vars, NEW o \in Order, snap[o].media # None
               PROVE  /\ snap'[o].media = snap[o].media
                      /\ asset'[snap[o].media].sha = asset[snap[o].media].sha
    OBVIOUS
  <2>1. snap[o].media \in Asset
    BY TypeParts DEF IInv, SnapType, SnapRow
  <2>2. Kept(snap[o].media)
    BY DEF IInv, Evidence
  <2> QED
    BY <2>1, <2>2, Lasting DEF Placed
<1>2. IInv /\ [Next]_vars => [Fixed]_vars
  BY <1>1
<1> QED
  BY InitInv, NextInv, <1>2, PTL DEF Spec, EvidenceFixed

=============================================================================
