--------------------------- MODULE BrowserProofs ---------------------------
(***************************************************************************)
(* Theorems about the parts of the browser, each by itself and for every   *)
(* number of tabs, components, sessions, calls and items: what a tab shows *)
(* is its account's, what it was asked to read again it reads, and what    *)
(* several tabs or components share, they agree on.                        *)
(***************************************************************************)
EXTENDS MCBrowser, TLAPS

-----------------------------------------------------------------------------
(***************************************************************************)
(* The favorites. TabsAgree is inductive with the types: a tab that is not *)
(* told of a change has made it, or it changed nothing.                    *)
(***************************************************************************)
FavoritesType ==
  /\ value \in [BrowserTab -> (SUBSET Favorite) \cup {Unset}]
  /\ events \in [BrowserTab -> Seq(SUBSET Favorite)]
  /\ saved \in SUBSET Favorite

LEMMA ToggleAgrees ==
  ASSUME FavoritesType, TabsAgree, NEW t \in BrowserTab, NEW i \in Favorite, F!Toggle(t, i)
  PROVE  FavoritesType' /\ TabsAgree'
<1>1. PICK v \in SUBSET Favorite : F!Set(t, v)
  <2>1. value[t] \in SUBSET Favorite
    BY DEF F!Toggle, F!Mounted, FavoritesType
  <2> QED
    BY <2>1 DEF F!Toggle
<1>2. saved' = v /\ value' = [value EXCEPT ![t] = v]
  BY <1>1 DEF F!Set
<1>3. ASSUME NEW u \in BrowserTab
      PROVE  /\ events'[u] \in Seq(SUBSET Favorite)
             /\ events'[u] = <<>> => events[u] = <<>>
             /\ events'[u] = <<>> /\ F!Mounted(u) /\ u # t => v = saved
  <2>1. events[u] \in Seq(SUBSET Favorite)
    BY DEF FavoritesType
  <2>2. Append(events[u], v) \in Seq(SUBSET Favorite) /\ Append(events[u], v) # <<>>
    BY <2>1
  <2>3. CASE v = saved
    BY <1>1, <2>1, <2>3 DEF F!Set
  <2>4. CASE v # saved
    <3>1. events'[u] = IF u # t /\ F!Mounted(u) THEN Append(events[u], v) ELSE events[u]
      BY <1>1, <2>4 DEF F!Set, F!Tell
    <3> QED
      BY <2>1, <2>2, <3>1
  <2> QED
    BY <2>3, <2>4
<1>4. events' \in [BrowserTab -> Seq(SUBSET Favorite)]
  <2>1. events' = [u \in BrowserTab |-> events'[u]]
    BY <1>1 DEF F!Set, F!Tell, FavoritesType
  <2> QED
    BY <1>3, <2>1
<1>5. FavoritesType'
  BY <1>2, <1>4 DEF FavoritesType
<1>6. TabsAgree'
  BY <1>2, <1>3 DEF TabsAgree, F!TabsAgree, F!Mounted, FavoritesType
<1> QED
  BY <1>5, <1>6

LEMMA NextAgrees ==
  ASSUME FavoritesType, TabsAgree, [F!Next]_(F!vars)
  PROVE  FavoritesType' /\ TabsAgree'
<1>1. CASE UNCHANGED F!vars
  BY <1>1 DEF F!vars, FavoritesType, TabsAgree, F!TabsAgree, F!Mounted
<1>2. ASSUME NEW t \in BrowserTab, F!Mount(t) PROVE FavoritesType' /\ TabsAgree'
  BY <1>2 DEF F!Mount, FavoritesType, TabsAgree, F!TabsAgree, F!Mounted
<1>3. ASSUME NEW t \in BrowserTab, F!Unmount(t) PROVE FavoritesType' /\ TabsAgree'
  <2>1. FavoritesType'
    BY <1>3 DEF F!Unmount, FavoritesType
  <2> QED
    BY <1>3, <2>1 DEF F!Unmount, FavoritesType, TabsAgree, F!TabsAgree, F!Mounted
<1>4. ASSUME NEW t \in BrowserTab, F!Hear(t) PROVE FavoritesType' /\ TabsAgree'
  <2>1. events[t] \in Seq(SUBSET Favorite) /\ events[t] # <<>>
    BY <1>4 DEF F!Hear, FavoritesType
  <2>2. Tail(events[t]) \in Seq(SUBSET Favorite)
    BY <2>1
  <2> QED
    BY <1>4, <2>2 DEF F!Hear, FavoritesType, TabsAgree, F!TabsAgree, F!Mounted
<1> QED
  BY <1>1, <1>2, <1>3, <1>4, ToggleAgrees DEF F!Next

(* A tab that has heard of every change shows what is saved, in whatever   *)
(* order the tabs wrote over each other's lists (use-local-storage).       *)
THEOREM TabsAgreeHolds == F!Spec => []TabsAgree
<1>1. F!Init => FavoritesType /\ TabsAgree
  BY DEF F!Init, FavoritesType, TabsAgree, F!TabsAgree, F!Mounted
<1>2. FavoritesType /\ TabsAgree /\ [F!Next]_(F!vars) => FavoritesType' /\ TabsAgree'
  BY NextAgrees
<1> QED
  BY <1>1, <1>2, PTL DEF F!Spec

-----------------------------------------------------------------------------
(***************************************************************************)
(* The listings of the favorites. Whoever waits is subscribed to a job     *)
(* that goes on, because the map names no job that was cut off.            *)
(***************************************************************************)
Jobs == R!Job

JobRow ==
  [list : Wanted \cup {None}, state : {"none", "running", "read", "failed", "settled"},
   aborted : BOOLEAN, subscribers : SUBSET Reader, sent : Nat, pages : Nat]

MountRow ==
  [list : Wanted \cup {None}, job : Jobs \cup {None},
   shows : {"nothing", "loading", "items", "error"}]

ListingsType ==
  /\ inFlight \in [Wanted -> Jobs \cup {None}]
  /\ job \in [Jobs -> JobRow]
  /\ mount \in [Reader -> MountRow]

Going(j) == job[j].state \in {"running", "read", "failed"}

(* The map names the job of a list that goes on; a component that has a    *)
(* job has the list of that job.                                           *)
Mapped ==
  \A l \in Wanted : inFlight[l] # None =>
    LET j == inFlight[l]
    IN  Going(j) /\ job[j].list = l /\ (job[j].aborted => job[j].state = "failed")

Served ==
  \A m \in Reader :
    /\ mount[m].job # None =>
         LET j == mount[m].job
         IN  job[j].state # "none" /\ mount[m].list = job[j].list /\ job[j].list \in Wanted
    /\ mount[m].shows = "loading" => mount[m].job # None /\ Going(mount[m].job)

ListingsInv == ListingsType /\ Mapped /\ Served /\ NobodyCutOff

LEMMA NoJob == None \notin Jobs
BY NamesApart DEF Jobs, R!Job

LEMMA InitListings == R!Init => ListingsInv
<1> SUFFICES ASSUME R!Init PROVE ListingsInv
  OBVIOUS
<1>1. ListingsType
  BY DEF R!Init, R!Unborn, R!Away, ListingsType, JobRow, MountRow, Jobs
<1> QED
  BY <1>1 DEF R!Init, R!Away, ListingsInv, Mapped, Served, NobodyCutOff, R!NobodyCutOff

(* One job goes on or fails, and nobody joins or leaves.                   *)
LEMMA JobStep ==
  ASSUME ListingsInv, NEW j \in Jobs, NEW row \in JobRow,
         job' = [job EXCEPT ![j] = row], UNCHANGED <<inFlight, mount>>,
         Going(j), row.state \in {"running", "read", "failed"},
         row.list = job[j].list, row.subscribers = job[j].subscribers,
         row.aborted => row.state = "failed"
  PROVE  ListingsInv'
<1>1. ListingsType'
  BY DEF ListingsInv, ListingsType
<1>2. \A i \in Jobs : job'[i] = IF i = j THEN row ELSE job[i]
  BY DEF ListingsInv, ListingsType
<1>3. Mapped'
  BY <1>2 DEF ListingsInv, ListingsType, Mapped, Going
<1>4. Served'
  BY <1>2, NoJob DEF ListingsInv, ListingsType, MountRow, Served, Going
<1>5. NobodyCutOff'
  BY <1>2, NoJob
     DEF ListingsInv, ListingsType, MountRow, Served, NobodyCutOff, R!NobodyCutOff
<1> QED
  BY <1>1, <1>3, <1>4, <1>5 DEF ListingsInv

LEMMA SubscribeStep ==
  ASSUME ListingsInv, NEW m \in Reader, NEW l \in Wanted, R!Subscribe(m, l)
  PROVE  ListingsInv'
<1> DEFINE now(j) == [list |-> job'[j].list, job |-> j, shows |-> "loading"]
<1>1. mount[m].job = None
  BY DEF R!Subscribe
<1>2. ASSUME inFlight[l] # None, NEW j, j = inFlight[l], NEW row,
             row = [job[j] EXCEPT !.subscribers = @ \cup {m}],
             job' = [job EXCEPT ![j] = row], R!Join(m, j), UNCHANGED inFlight
      PROVE  ListingsInv'
  <2>1. j \in Jobs /\ Going(j) /\ job[j].list = l
        /\ (job[j].aborted => job[j].state = "failed")
    BY <1>2 DEF ListingsInv, ListingsType, Mapped
  <2>2. job[j] \in JobRow
    BY <2>1 DEF ListingsInv, ListingsType
  <2>3. /\ row \in JobRow /\ row.list = l /\ row.state = job[j].state
        /\ row.aborted = job[j].aborted /\ row.subscribers = job[j].subscribers \cup {m}
    BY <1>2, <2>1, <2>2 DEF JobRow
  <2>4. \A i \in Jobs : job'[i] = IF i = j THEN row ELSE job[i]
    BY <1>2 DEF ListingsInv, ListingsType
  <2>5. mount' = [mount EXCEPT ![m] = now(j)] /\ now(j) \in MountRow
    BY <1>2, <2>1, <2>3, <2>4 DEF R!Join, MountRow
  <2>6. ListingsType'
    BY <1>2, <2>1, <2>3, <2>5 DEF ListingsInv, ListingsType
  <2>7. Mapped'
    BY <1>2, <2>3, <2>4 DEF ListingsInv, ListingsType, Mapped, Going
  <2>8. \A n \in Reader : mount'[n] = IF n = m THEN now(j) ELSE mount[n]
    BY <2>5 DEF ListingsInv, ListingsType
  <2>9. Served'
    BY <2>1, <2>3, <2>4, <2>8, NoJob
       DEF ListingsInv, ListingsType, MountRow, Served, Going
  <2>10. NobodyCutOff'
    BY <2>1, <2>3, <2>4, <2>8, NoJob
       DEF ListingsInv, ListingsType, MountRow, Served, NobodyCutOff, R!NobodyCutOff
  <2> QED
    BY <2>6, <2>7, <2>9, <2>10 DEF ListingsInv
<1>3. ASSUME NEW j \in Jobs, R!Unused(j), NEW row,
             row = [R!Unborn EXCEPT !.list = l, !.state = "running", !.subscribers = {m}],
             job' = [job EXCEPT ![j] = row], R!Join(m, j),
             inFlight' = [inFlight EXCEPT ![l] = j]
      PROVE  ListingsInv'
  <2>1. job[j].state = "none"
    BY <1>3 DEF R!Unused
  <2>2. /\ row \in JobRow /\ row.list = l /\ row.state = "running" /\ row.aborted = FALSE
        /\ row.subscribers = {m}
    BY <1>3 DEF R!Unborn, JobRow
  <2>3. \A i \in Jobs : job'[i] = IF i = j THEN row ELSE job[i]
    BY <1>3 DEF ListingsInv, ListingsType
  <2>4. mount' = [mount EXCEPT ![m] = now(j)] /\ now(j) \in MountRow
    BY <1>3, <2>2, <2>3 DEF R!Join, MountRow
  <2>5. ListingsType'
    BY <1>3, <2>2, <2>4 DEF ListingsInv, ListingsType
  <2>6. Mapped'
    BY <1>3, <2>1, <2>2, <2>3 DEF ListingsInv, ListingsType, Mapped, Going
  <2>7. \A n \in Reader : mount'[n] = IF n = m THEN now(j) ELSE mount[n]
    BY <2>4 DEF ListingsInv, ListingsType
  <2>8. Served'
    BY <2>1, <2>2, <2>3, <2>7, NoJob
       DEF ListingsInv, ListingsType, MountRow, Served, Going
  <2>9. NobodyCutOff'
    BY <2>1, <2>2, <2>3, <2>7, NoJob
       DEF ListingsInv, ListingsType, MountRow, Served, Going, NobodyCutOff, R!NobodyCutOff
  <2> QED
    BY <2>5, <2>6, <2>8, <2>9 DEF ListingsInv
<1> QED
  <2>1. CASE inFlight[l] # None
    BY <1>2, <2>1 DEF R!Subscribe
  <2>2. CASE inFlight[l] = None
    BY <1>3, <2>2 DEF R!Subscribe, Jobs
  <2> QED
    BY <2>1, <2>2

LEMMA ReleaseStep ==
  ASSUME ListingsInv, NEW m \in Reader, R!Release(m)
  PROVE  ListingsInv'
<1>1. PICK j \in Jobs : /\ j = mount[m].job /\ job[j].state # "none"
                        /\ mount[m].list = job[j].list /\ job[j].list \in Wanted
  BY DEF R!Release, ListingsInv, ListingsType, MountRow, Served
<1>2. mount' = [mount EXCEPT ![m] = R!Away] /\ R!Away \in MountRow
  BY DEF R!Release, R!Away, MountRow
<1>3. \A n \in Reader : mount'[n] = IF n = m THEN R!Away ELSE mount[n]
  BY <1>2 DEF ListingsInv, ListingsType
<1>4. R!Away.job = None /\ R!Away.shows = "nothing"
  BY DEF R!Away
<1>5. job[j] \in JobRow
  BY DEF ListingsInv, ListingsType
<1>6. CASE job[j].subscribers = {m}
  <2>1. PICK row : row = [job[j] EXCEPT !.subscribers = {}, !.aborted = TRUE]
    OBVIOUS
  <2>2. /\ row \in JobRow /\ row.list = job[j].list /\ row.state = job[j].state
        /\ row.subscribers = {}
    BY <1>5, <2>1 DEF JobRow
  <2>3. /\ job' = [job EXCEPT ![j] = row]
        /\ inFlight' = [inFlight EXCEPT ![job[j].list] = IF @ = j THEN None ELSE @]
    BY <1>1, <1>6, <2>1 DEF R!Release, ListingsInv, ListingsType
  <2>4. \A i \in Jobs : job'[i] = IF i = j THEN row ELSE job[i]
    BY <2>3 DEF ListingsInv, ListingsType
  <2>5. \A k \in Wanted : inFlight'[k] = IF k = job[j].list /\ inFlight[k] = j
                                         THEN None ELSE inFlight[k]
    BY <1>1, <2>3 DEF ListingsInv, ListingsType
  <2>6. ListingsType'
    BY <1>1, <1>2, <2>2, <2>3 DEF ListingsInv, ListingsType
  <2>7. Mapped'
    BY <1>1, <2>4, <2>5, NoJob DEF ListingsInv, ListingsType, Mapped, Going
  <2>8. Served'
    BY <1>1, <1>3, <1>4, <2>2, <2>4, NoJob
       DEF ListingsInv, ListingsType, MountRow, Served, Going
  <2>9. NobodyCutOff'
    BY <1>1, <1>3, <1>4, <1>6, <2>4, NoJob
       DEF ListingsInv, ListingsType, MountRow, Served, NobodyCutOff, R!NobodyCutOff
  <2> QED
    BY <2>6, <2>7, <2>8, <2>9 DEF ListingsInv
<1>7. CASE job[j].subscribers # {m}
  <2>1. PICK row : row = [job[j] EXCEPT !.subscribers = @ \ {m}]
    OBVIOUS
  <2>2. /\ row \in JobRow /\ row.list = job[j].list /\ row.state = job[j].state
        /\ row.aborted = job[j].aborted /\ row.subscribers = job[j].subscribers \ {m}
    BY <1>5, <2>1 DEF JobRow
  <2>3. job' = [job EXCEPT ![j] = row] /\ UNCHANGED inFlight
    BY <1>1, <1>7, <2>1 DEF R!Release, ListingsInv, ListingsType
  <2>4. \A i \in Jobs : job'[i] = IF i = j THEN row ELSE job[i]
    BY <2>3 DEF ListingsInv, ListingsType
  <2>5. ListingsType'
    BY <1>2, <2>2, <2>3 DEF ListingsInv, ListingsType
  <2>6. Mapped'
    BY <2>2, <2>3, <2>4 DEF ListingsInv, ListingsType, Mapped, Going
  <2>7. Served'
    BY <1>3, <1>4, <2>2, <2>4, NoJob
       DEF ListingsInv, ListingsType, MountRow, Served, Going
  <2>8. NobodyCutOff'
    BY <1>3, <1>4, <2>2, <2>4, NoJob
       DEF ListingsInv, ListingsType, MountRow, Served, NobodyCutOff, R!NobodyCutOff
  <2> QED
    BY <2>5, <2>6, <2>7, <2>8 DEF ListingsInv
<1> QED
  BY <1>6, <1>7

LEMMA SettleStep ==
  ASSUME ListingsInv, NEW j \in Jobs, R!Settle(j)
  PROVE  ListingsInv'
<1>1. job[j] \in JobRow /\ job[j].state \in {"read", "failed"}
  BY DEF R!Settle, ListingsInv, ListingsType
<1>2. PICK row : row = [job[j] EXCEPT !.state = "settled"]
  OBVIOUS
<1>3. row \in JobRow /\ row.list = job[j].list /\ row.state = "settled"
  BY <1>1, <1>2 DEF JobRow
<1>4. job' = [job EXCEPT ![j] = row]
  BY <1>2 DEF R!Settle, R!Finish, ListingsInv, ListingsType
<1>5. \A i \in Jobs : job'[i] = IF i = j THEN row ELSE job[i]
  BY <1>4 DEF ListingsInv, ListingsType
<1>6. PICK shown \in {"items", "error"} :
        mount' = [m \in Reader |-> IF mount[m].job = j
                    THEN [mount[m] EXCEPT !.shows = shown] ELSE mount[m]]
  BY DEF R!Settle, R!Finish, R!Shown
<1>7. ASSUME NEW m \in Reader
      PROVE  /\ mount'[m] \in MountRow
             /\ mount'[m].job = mount[m].job /\ mount'[m].list = mount[m].list
             /\ mount'[m].shows = "loading" => mount'[m] = mount[m] /\ mount[m].job # j
  <2>1. mount[m] \in MountRow
    BY DEF ListingsInv, ListingsType
  <2>2. mount'[m] = IF mount[m].job = j THEN [mount[m] EXCEPT !.shows = shown] ELSE mount[m]
    BY <1>6
  <2> QED
    BY <2>1, <2>2 DEF MountRow
<1>8. mount' \in [Reader -> MountRow]
  <2>1. mount' = [m \in Reader |-> mount'[m]]
    BY <1>6
  <2> QED
    BY <1>7, <2>1
<1>9. ASSUME NEW l \in Wanted
      PROVE  /\ inFlight'[l] \in Jobs \cup {None}
             /\ inFlight'[l] # None => inFlight'[l] = inFlight[l] /\ inFlight[l] # j
  BY <1>1, NoJob DEF R!Settle, ListingsInv, ListingsType, Mapped, JobRow
<1>10. inFlight' \in [Wanted -> Jobs \cup {None}]
  <2>1. inFlight' = [l \in Wanted |-> inFlight'[l]]
    BY DEF R!Settle, ListingsInv, ListingsType
  <2> QED
    BY <1>9, <2>1
<1>11. ListingsType'
  BY <1>3, <1>4, <1>8, <1>10 DEF ListingsInv, ListingsType
<1>12. Mapped'
  BY <1>5, <1>9, NoJob DEF ListingsInv, ListingsType, Mapped, Going
<1>13. Served'
  BY <1>1, <1>3, <1>5, <1>7, NoJob DEF ListingsInv, ListingsType, MountRow, Served, Going
<1>14. NobodyCutOff'
  BY <1>5, <1>7, NoJob
     DEF ListingsInv, ListingsType, MountRow, Served, NobodyCutOff, R!NobodyCutOff
<1> QED
  BY <1>11, <1>12, <1>13, <1>14 DEF ListingsInv

LEMMA NextListings == ListingsInv /\ [R!Next]_(R!vars) => ListingsInv'
<1> SUFFICES ASSUME ListingsInv, [R!Next]_(R!vars) PROVE ListingsInv'
  OBVIOUS
<1>1. CASE UNCHANGED R!vars
  BY <1>1 DEF R!vars, ListingsInv, ListingsType, Mapped, Served, Going, NobodyCutOff,
              R!NobodyCutOff
<1>2. ASSUME NEW j \in Jobs PROVE job[j] \in JobRow
  BY DEF ListingsInv, ListingsType
<1>3. ASSUME NEW j \in Jobs, R!Send(j) PROVE ListingsInv'
  <2>1. PICK row : row = [job[j] EXCEPT !.sent = @ + 1] /\ job' = [job EXCEPT ![j] = row]
    BY <1>3 DEF R!Send, ListingsInv, ListingsType
  <2>2. /\ row \in JobRow /\ row.state = "running" /\ ~row.aborted
        /\ row.list = job[j].list /\ row.subscribers = job[j].subscribers
    BY <1>2, <1>3, <2>1 DEF R!Send, JobRow
  <2> QED
    BY <1>3, <2>1, <2>2, JobStep DEF R!Send, Going
<1>4. ASSUME NEW j \in Jobs, R!Page(j) PROVE ListingsInv'
  <2>1. PICK row : row = [job[j] EXCEPT !.pages = @ + 1] /\ job' = [job EXCEPT ![j] = row]
    BY <1>4 DEF R!Page, ListingsInv, ListingsType
  <2>2. /\ row \in JobRow /\ row.state = "running" /\ ~row.aborted
        /\ row.list = job[j].list /\ row.subscribers = job[j].subscribers
    BY <1>2, <1>4, <2>1 DEF R!Page, JobRow
  <2> QED
    BY <1>4, <2>1, <2>2, JobStep DEF R!Page, Going
<1>5. ASSUME NEW j \in Jobs, R!Fail(j) PROVE ListingsInv'
  <2>1. PICK row : /\ row = [job[j] EXCEPT !.state = "failed", !.aborted = TRUE]
                   /\ job' = [job EXCEPT ![j] = row]
    BY <1>5 DEF R!Fail, ListingsInv, ListingsType
  <2>2. /\ row \in JobRow /\ row.state = "failed"
        /\ row.list = job[j].list /\ row.subscribers = job[j].subscribers
    BY <1>2, <2>1 DEF JobRow
  <2> QED
    BY <1>5, <2>1, <2>2, JobStep DEF R!Fail, Going
<1>6. ASSUME NEW j \in Jobs, R!Read(j) PROVE ListingsInv'
  <2>1. PICK row : row = [job[j] EXCEPT !.state = "read"] /\ job' = [job EXCEPT ![j] = row]
    BY <1>6 DEF R!Read, ListingsInv, ListingsType
  <2>2. /\ row \in JobRow /\ row.state = "read" /\ ~row.aborted
        /\ row.list = job[j].list /\ row.subscribers = job[j].subscribers
    BY <1>2, <1>6, <2>1 DEF R!Read, JobRow
  <2> QED
    BY <1>6, <2>1, <2>2, JobStep DEF R!Read, Going
<1> QED
  BY <1>1, <1>3, <1>4, <1>5, <1>6, ReleaseStep, SubscribeStep, SettleStep DEF R!Next, Jobs

(* Nobody who still waits has the job cut off by another's letting go      *)
(* (favorite-listings: the shared job, its subscribers and its signal).    *)
THEOREM NobodyCutOffHolds == R!Spec => []NobodyCutOff
<1>1. ListingsInv /\ [R!Next]_(R!vars) => ListingsInv'
  BY NextListings
<1>2. ListingsInv => NobodyCutOff
  BY DEF ListingsInv
<1> QED
  BY <1>1, <1>2, InitListings, PTL DEF R!Spec

-----------------------------------------------------------------------------
(***************************************************************************)
(* The tab. What is shown is kept with the token it was read under, a      *)
(* session belongs to one account for good, and a request is answered with *)
(* data only if its cookie and its token are of one session; so an answer  *)
(* is always its token's. A sign-in is current only while it is the latest *)
(* word of the user, because the later word outdates it.                   *)
(***************************************************************************)
CallFields ==
  [ kind : {"none", "restore", "login", "verify", "logout", "over"}, current : BOOLEAN,
    cookie : T!Session \cup {None}, csrf : T!Session \cup {None},
    who : Account \cup {None}, answer : T!Answers ]

(* Only a call that is under way has an answer, and who signs in is known. *)
CallRow ==
  {row \in CallFields : /\ row.kind \in {"none", "over"} => row.answer = "none"
                        /\ row.kind \in {"login", "verify"} => row.who \in Account}

ReadRow ==
  [ token : T!Session, cookie : T!Session \cup {None},
    answer : {"none", "unauthenticated", "rejected", "failed"} \cup Account,
    inFlight : BOOLEAN, queued : BOOLEAN, scheduled : BOOLEAN ]

ResultRow == [token : T!Session, data : Account \cup {"error"}]

(* An answer is that of the account whose token asked for it.              *)
AnswersOwn ==
  /\ read # None /\ read.answer \in Account => read.answer = owner[read.token]
  /\ result # None /\ result.data \in Account => result.data = owner[result.token]

(* A session that lives is somebody's.                                     *)
LiveOwned == \A s \in live : owner[s] \in Account

(* A reload is scheduled when no request is under way.                     *)
OneAtATime == read # None /\ read.inFlight => ~read.scheduled

(* A sign-in of the present generation is the user's latest word.          *)
LatestCurrent ==
  \A c \in T!Call : call[c].kind = "login" /\ call[c].current => latest = c

TabInv ==
  /\ T!TypeOK /\ call \in [T!Call -> CallRow]
  /\ AnswersOwn /\ LiveOwned /\ OneAtATime /\ ReloadKept /\ LatestCurrent

LEMMA Apart ==
  /\ None \notin Account /\ None \notin T!Session
  /\ Account \cap {"none", "error", "loading", "unauthenticated", "rejected", "failed"} = {}
BY NamesApart DEF T!Session, T!ToSet

LEMMA InitTab == T!Init => TabInv
<1> SUFFICES ASSUME T!Init PROVE TabInv
  OBVIOUS
<1>1. T!Unsent \in CallRow /\ T!Unsent.kind = "none"
  BY DEF T!Unsent, CallRow, CallFields, T!Answers
<1>2. T!TypeOK /\ call \in [T!Call -> CallRow]
  BY <1>1 DEF T!Init, T!TypeOK, CallRow, CallFields
<1>3. LatestCurrent
  BY <1>1 DEF T!Init, LatestCurrent
<1> QED
  BY <1>2, <1>3
     DEF T!Init, TabInv, AnswersOwn, LiveOwned, OneAtATime, ReloadKept, T!ReloadKept

(* A session is issued once, to one account.                               *)
LEMMA IssueOnce ==
  ASSUME T!TypeOK, LiveOwned, NEW s, NEW a \in Account, NEW cookie, T!Issue(s, a, cookie)
  PROVE  /\ s \in T!Session
         /\ owner' \in [T!Session -> Account \cup {None}] /\ live' \subseteq T!Session
         /\ \A x \in T!Session : owner[x] \in Account => owner'[x] = owner[x]
         /\ LiveOwned'
<1>1. PICK i \in DOMAIN Sessions : s = Sessions[i] /\ owner[s] = None
  BY DEF T!Issue, T!Unissued
<1>2. s \in T!Session
  BY <1>1 DEF T!Session, T!ToSet
<1> QED
  BY <1>1, <1>2, Apart DEF T!Issue, T!TypeOK, LiveOwned

LEMMA OutdatedRows ==
  ASSUME call \in [T!Call -> CallRow]
  PROVE  /\ T!Outdated \in [T!Call -> CallRow]
         /\ \A c \in T!Call : /\ T!Outdated[c].kind = call[c].kind
                              /\ T!Outdated[c].kind = "login" => ~T!Outdated[c].current
<1>1. ASSUME NEW c \in T!Call
      PROVE  /\ T!Outdated[c] \in CallRow
             /\ T!Outdated[c].kind = call[c].kind
             /\ T!Outdated[c].kind = "login" => ~T!Outdated[c].current
  <2>1. call[c] \in CallRow
    OBVIOUS
  <2>2. T!Outdated[c] = IF call[c].kind \in {"none", "over"} THEN call[c]
                        ELSE [call[c] EXCEPT !.current = FALSE]
    BY DEF T!Outdated
  <2> QED
    BY <2>1, <2>2 DEF CallRow, CallFields
<1>2. T!Outdated = [c \in T!Call |-> T!Outdated[c]]
  BY DEF T!Outdated
<1> QED
  BY <1>1, <1>2

(* What depends on the rows of one account only.                           *)
LEMMA OwnersKept ==
  ASSUME TabInv, UNCHANGED <<read, result, asked>>,
         owner' = owner \/ \A x \in T!Session : owner[x] \in Account => owner'[x] = owner[x]
  PROVE  AnswersOwn' /\ OneAtATime' /\ ReloadKept'
<1>1. read # None => read.token \in T!Session
  BY DEF TabInv, T!TypeOK
<1>2. result # None => result.token \in T!Session
  BY DEF TabInv, T!TypeOK
<1> QED
  BY <1>1, <1>2 DEF TabInv, AnswersOwn, OneAtATime, ReloadKept, T!ReloadKept

-----------------------------------------------------------------------------
(* The user begins a call.                                                 *)
LEMMA SentRow ==
  ASSUME T!TypeOK, NEW kind \in {"restore", "login", "verify", "logout"},
         NEW csrf \in T!Session \cup {None}, NEW who \in Account \cup {None},
         kind \in {"login", "verify"} => who \in Account
  PROVE  /\ T!Sent(kind, csrf, who) \in CallRow
         /\ T!Sent(kind, csrf, who).kind = kind /\ T!Sent(kind, csrf, who).current
BY DEF T!Sent, T!TypeOK, CallRow, CallFields, T!Answers

LEMMA BeginStep ==
  ASSUME TabInv, NEW c \in T!Call, NEW row \in CallRow, NEW rows \in [T!Call -> CallRow],
         call' = [rows EXCEPT ![c] = row],
         rows = call \/ rows = T!Outdated,
         row.kind = "login" => latest' = c,
         latest' = latest \/ (rows = T!Outdated /\ latest' = c),
         UNCHANGED <<owner, live, jar, view, read, result, asked>>
  PROVE  TabInv'
<1>1. call' \in [T!Call -> CallRow]
  OBVIOUS
<1>5. T!TypeOK'
  BY <1>1 DEF TabInv, T!TypeOK, CallRow, CallFields
<1>2. AnswersOwn' /\ OneAtATime' /\ ReloadKept'
  BY OwnersKept
<1>3. ASSUME NEW d \in T!Call, call'[d].kind = "login", call'[d].current
      PROVE  latest' = d
  <2>1. call'[d] = IF d = c THEN row ELSE rows[d]
    OBVIOUS
  <2>2. CASE d = c
    BY <1>3, <2>1, <2>2
  <2>3. CASE d # c /\ rows = T!Outdated
    BY <1>3, <2>1, <2>3, OutdatedRows DEF TabInv
  <2>4. CASE d # c /\ rows = call /\ latest' = latest
    BY <1>3, <2>1, <2>4 DEF TabInv, LatestCurrent
  <2> QED
    BY <2>2, <2>3, <2>4
<1> QED
  BY <1>1, <1>2, <1>3, <1>5 DEF TabInv, LiveOwned, LatestCurrent

LEMMA UserStep == ASSUME TabInv, T!User PROVE TabInv'
<1>1. T!TypeOK /\ call \in [T!Call -> CallRow]
  BY DEF TabInv
<1>2. T!Outdated \in [T!Call -> CallRow]
  BY <1>1, OutdatedRows
<1>3. ASSUME NEW c \in T!Call, T!Restore(c) PROVE TabInv'
  <2>1. PICK row \in CallRow : row.kind = "restore" /\ call' = [call EXCEPT ![c] = row]
    BY <1>1, <1>3, SentRow DEF T!Restore
  <2> QED
    BY <1>1, <1>3, <2>1, BeginStep DEF T!Restore, T!server, T!page
<1>4. ASSUME NEW c \in T!Call, NEW a \in Account, T!SignIn(c, a) PROVE TabInv'
  BY <1>1, <1>2, <1>4, SentRow, BeginStep DEF T!SignIn, T!server, T!page
<1>5. ASSUME NEW c \in T!Call, NEW a \in Account, T!VerifyCode(c, a) PROVE TabInv'
  <2>1. PICK row \in CallRow : row.kind = "verify" /\ call' = [call EXCEPT ![c] = row]
    BY <1>1, <1>5, SentRow DEF T!VerifyCode
  <2> QED
    BY <1>1, <1>5, <2>1, BeginStep DEF T!VerifyCode, T!server, T!page
<1>6. ASSUME NEW c \in T!Call, T!SignOut(c) PROVE TabInv'
  <2>1. view \in T!Session
    BY <1>1, <1>6 DEF T!SignOut, T!TypeOK
  <2> QED
    BY <1>1, <1>2, <1>6, <2>1, SentRow, BeginStep DEF T!SignOut, T!server, T!page
<1> QED
  BY <1>3, <1>4, <1>5, <1>6 DEF T!User

-----------------------------------------------------------------------------
(* A call is served, fails, or is answered.                                *)
LEMMA RowKept ==
  ASSUME TabInv, NEW c \in T!Call, NEW answer \in T!Answers,
         call[c].kind \notin {"none", "over"},
         call' = [call EXCEPT ![c].answer = answer], UNCHANGED latest
  PROVE  call' \in [T!Call -> CallRow] /\ LatestCurrent'
<1>1. call \in [T!Call -> CallRow]
  BY DEF TabInv
<1>2. PICK row : row = [call[c] EXCEPT !.answer = answer] /\ call' = [call EXCEPT ![c] = row]
  BY <1>1
<1>3. row \in CallRow /\ row.kind = call[c].kind /\ row.current = call[c].current
  BY <1>1, <1>2 DEF CallRow, CallFields
<1>4. \A d \in T!Call : call'[d] = IF d = c THEN row ELSE call[d]
  BY <1>1, <1>2
<1> QED
  BY <1>1, <1>2, <1>3, <1>4 DEF TabInv, LatestCurrent

LEMMA ServeStep ==
  ASSUME TabInv, NEW c \in T!Call, T!Serve(c) \/ T!Fail(c)
  PROVE  TabInv'
<1>1. T!TypeOK /\ call[c] \in CallRow /\ call[c].kind \notin {"none", "over"}
  BY DEF TabInv, T!Serve, T!Fail
<1>2. UNCHANGED <<jar, view, latest, read, result, asked>>
  BY DEF T!Serve, T!Fail, T!page
<1>3. ASSUME NEW answer \in T!Answers, call' = [call EXCEPT ![c].answer = answer],
             owner' \in [T!Session -> Account \cup {None}], live' \subseteq T!Session,
             \A x \in T!Session : owner[x] \in Account => owner'[x] = owner[x],
             LiveOwned'
      PROVE  TabInv'
  <2>1. call' \in [T!Call -> CallRow] /\ LatestCurrent'
    BY <1>1, <1>2, <1>3, RowKept
  <2>2. T!TypeOK'
    BY <1>1, <1>2, <1>3, <2>1 DEF T!TypeOK, CallRow, CallFields
  <2> QED
    BY <1>2, <1>3, <2>1, <2>2, OwnersKept DEF TabInv
<1>4. CASE T!Fail(c)
  BY <1>1, <1>3, <1>4 DEF T!Fail, T!server, T!Answers, T!TypeOK, TabInv, LiveOwned
<1>5. CASE T!Serve(c) /\ call[c].kind = "restore"
  <2>1. PICK answer : /\ call' = [call EXCEPT ![c].answer = answer]
                      /\ answer = IF call[c].cookie \in live THEN call[c].cookie
                                                             ELSE "unauthenticated"
    BY <1>5 DEF T!Serve
  <2>2. answer \in T!Answers
    BY <1>1, <2>1 DEF CallRow, CallFields, T!TypeOK, T!Answers
  <2> QED
    BY <1>1, <1>3, <1>5, <2>1, <2>2 DEF T!Serve, T!server, T!TypeOK, TabInv, LiveOwned
<1>6. CASE T!Serve(c) /\ call[c].kind \in {"login", "verify"}
  <2>1. PICK s \in T!Session : /\ T!Issue(s, call[c].who, call[c].cookie)
                               /\ call' = [call EXCEPT ![c].answer = s]
    BY <1>6 DEF T!Serve
  <2>2. call[c].who \in Account /\ s \in T!Answers
    BY <1>1, <1>6, <2>1 DEF CallRow, CallFields, T!Answers
  <2> QED
    BY <1>1, <1>3, <2>1, <2>2, IssueOnce DEF TabInv
<1>7. CASE T!Serve(c) /\ call[c].kind = "logout"
  <2>1. PICK g : /\ g = T!Guard(call[c].cookie, call[c].csrf)
                 /\ live' = IF g = "passed" THEN live \ {call[c].cookie} ELSE live
                 /\ call' = [call EXCEPT ![c].answer = IF g = "rejected" THEN "failed" ELSE g]
                 /\ UNCHANGED owner
    BY <1>7 DEF T!Serve
  <2>2. g \in {"unauthenticated", "rejected", "passed"}
    BY <2>1 DEF T!Guard
  <2>3. (IF g = "rejected" THEN "failed" ELSE g) \in T!Answers
    BY <2>2 DEF T!Answers
  <2> QED
    BY <1>1, <1>3, <2>1, <2>3 DEF T!TypeOK, TabInv, LiveOwned
<1> QED
  BY <1>4, <1>5, <1>6, <1>7 DEF T!Serve

LEMMA AnswerStep ==
  ASSUME TabInv, NEW c \in T!Call, T!Answer(c)
  PROVE  TabInv'
<1>1. T!TypeOK /\ call \in [T!Call -> CallRow] /\ call[c] \in CallRow
  BY DEF TabInv
<1>2. UNCHANGED <<owner, live, read, result, asked>>
  BY DEF T!Answer, T!server, T!page
<1>3. jar' \in T!Session \cup {None}
  BY <1>1 DEF T!Answer, T!TakeCookie, T!TypeOK
<1>4. view' \in T!Session \cup {None}
  <2>1. view \in T!Session \cup {None}
    BY <1>1 DEF T!TypeOK
  <2>2. call[c].kind \in {"restore", "login", "verify", "logout"} => view' \in T!Session \cup {None}
    BY <2>1 DEF T!Answer, T!Settle
  <2>3. call[c].kind \in {"restore", "login", "verify", "logout"}
    BY <1>1 DEF T!Answer, CallRow, CallFields
  <2> QED
    BY <2>2, <2>3
<1>5. T!Over \in CallRow /\ T!Over.kind = "over"
  BY DEF T!Over, T!Unsent, CallRow, CallFields, T!Answers
<1>6. call' \in [T!Call -> CallRow] /\ latest' \in T!Call \cup {None}
  BY <1>1, <1>5, OutdatedRows DEF T!Answer, T!TypeOK
<1>7. LatestCurrent'
  <2>1. ASSUME NEW d \in T!Call, call'[d].kind = "login", call'[d].current
        PROVE  latest' = d
    <3>1. d # c
      BY <1>1, <1>5, <2>1, OutdatedRows DEF T!Answer
    <3>2. call' = [call EXCEPT ![c] = T!Over] /\ latest' = IF latest = c THEN None ELSE latest
      BY <1>1, <2>1, <3>1, OutdatedRows DEF T!Answer
    <3> QED
      BY <1>1, <2>1, <3>1, <3>2 DEF TabInv, LatestCurrent
  <2> QED
    BY <2>1 DEF LatestCurrent
<1>8. T!TypeOK'
  BY <1>1, <1>2, <1>3, <1>4, <1>6 DEF T!TypeOK, CallRow, CallFields
<1> QED
  BY <1>2, <1>6, <1>7, <1>8, OwnersKept DEF TabInv, LiveOwned

-----------------------------------------------------------------------------
(* The other tab, and the page with its requests.                          *)
LEMMA OtherStep == ASSUME TabInv, T!OtherTab PROVE TabInv'
<1>1. UNCHANGED <<view, call, latest, read, result, asked>>
  BY DEF T!OtherTab, T!store, T!page
<1>2. ASSUME jar' \in T!Session \cup {None}, live' \subseteq T!Session,
             owner' \in [T!Session -> Account \cup {None}],
             \A x \in T!Session : owner[x] \in Account => owner'[x] = owner[x],
             LiveOwned'
      PROVE  TabInv'
  <2>1. T!TypeOK'
    BY <1>1, <1>2 DEF TabInv, T!TypeOK
  <2> QED
    BY <1>1, <1>2, <2>1, OwnersKept DEF TabInv, LatestCurrent
<1>3. ASSUME NEW s \in T!Session, NEW a \in Account, T!Issue(s, a, jar), jar' = s
      PROVE  TabInv'
  BY <1>2, <1>3, IssueOnce DEF TabInv
<1>4. ASSUME jar' = None, live' = live \ {jar}, UNCHANGED owner PROVE TabInv'
  BY <1>2, <1>4 DEF TabInv, LiveOwned, T!TypeOK
<1> QED
  BY <1>3, <1>4 DEF T!OtherTab

(* A step of the page leaves the server, the cookie and the calls alone.   *)
LEMMA PageStep ==
  ASSUME TabInv, UNCHANGED <<owner, live, jar, view, call, latest>>,
         read' # None => read' \in ReadRow,
         result' # None => result' \in ResultRow,
         asked' \in BOOLEAN, AnswersOwn', OneAtATime', ReloadKept'
  PROVE  TabInv'
<1>1. T!TypeOK'
  BY DEF TabInv, T!TypeOK, ReadRow, ResultRow
<1> QED
  BY <1>1 DEF TabInv, LiveOwned, LatestCurrent

LEMMA RenderStep == ASSUME TabInv, T!Render PROVE TabInv'
<1>1. UNCHANGED <<owner, live, jar, view, call, latest, result>> /\ asked' = FALSE
  BY DEF T!Render, T!server, T!store
<1>2. CASE view = None
  <2>1. read' = None
    BY <1>2 DEF T!Render
  <2> QED
    BY <1>1, <2>1, PageStep
       DEF TabInv, T!TypeOK, ResultRow, AnswersOwn, OneAtATime, ReloadKept, T!ReloadKept
<1>3. CASE view # None
  <2>1. PICK row : /\ row = [ token |-> view, cookie |-> jar, answer |-> "none",
                              inFlight |-> TRUE, queued |-> FALSE, scheduled |-> FALSE ]
                   /\ read' = row
    BY <1>3 DEF T!Render
  <2>2. row \in ReadRow /\ row.answer = "none" /\ ~row.scheduled
    BY <1>3, <2>1 DEF TabInv, T!TypeOK, ReadRow
  <2> QED
    BY <1>1, <2>1, <2>2, PageStep, Apart
       DEF TabInv, T!TypeOK, ResultRow, AnswersOwn, OneAtATime, ReloadKept, T!ReloadKept
<1> QED
  BY <1>2, <1>3

(* A request is answered with the data of the account of its token: the    *)
(* guard lets only the cookie's own token through.                         *)
LEMMA ServeReadStep == ASSUME TabInv, T!ServeRead \/ T!LoseRead PROVE TabInv'
<1>1. UNCHANGED <<owner, live, jar, view, call, latest, result, asked>>
  BY DEF T!ServeRead, T!LoseRead, T!server, T!store
<1>2. read # None /\ read \in ReadRow
  BY DEF T!ServeRead, T!LoseRead, TabInv, T!TypeOK, ReadRow
<1>3. ASSUME NEW answer, read' = [read EXCEPT !.answer = answer],
             answer \in {"unauthenticated", "rejected", "failed"}
               \/ (answer \in Account /\ answer = owner[read.token])
      PROVE  TabInv'
  <2>1. PICK row : row = [read EXCEPT !.answer = answer] /\ read' = row
    BY <1>3
  <2>2. /\ row \in ReadRow /\ row.answer = answer /\ row.token = read.token
        /\ row.inFlight = read.inFlight /\ row.scheduled = read.scheduled
        /\ row.queued = read.queued
    BY <1>2, <1>3, <2>1 DEF ReadRow
  <2> QED
    BY <1>1, <1>2, <1>3, <2>1, <2>2, PageStep, Apart
       DEF TabInv, T!TypeOK, ResultRow, AnswersOwn, OneAtATime, ReloadKept, T!ReloadKept
<1>4. CASE T!LoseRead
  BY <1>3, <1>4 DEF T!LoseRead
<1>5. CASE T!ServeRead
  <2>1. PICK g : /\ g = T!Guard(read.cookie, read.token)
                 /\ read' = [read EXCEPT !.answer =
                               IF g = "passed" THEN owner[read.cookie] ELSE g]
    BY <1>5 DEF T!ServeRead
  <2>2. /\ g \in {"unauthenticated", "rejected", "passed"}
        /\ g = "passed" => read.cookie = read.token /\ read.cookie \in live
    BY <2>1 DEF T!Guard
  <2>3. ASSUME g = "passed" PROVE owner[read.token] \in Account
    BY <2>2, <2>3 DEF TabInv, LiveOwned
  <2> QED
    BY <1>3, <2>1, <2>2, <2>3
<1> QED
  BY <1>4, <1>5

LEMMA TakeReadStep == ASSUME TabInv, T!TakeRead PROVE TabInv'
<1>1. UNCHANGED <<owner, live, jar, latest, asked>>
  BY DEF T!TakeRead, T!server
<1>2. read # None /\ read \in ReadRow /\ read.inFlight /\ ~read.scheduled
  BY DEF T!TakeRead, TabInv, T!TypeOK, ReadRow, OneAtATime
<1>3. PICK row : /\ row = [read EXCEPT !.inFlight = FALSE, !.queued = FALSE,
                                       !.scheduled = read.queued]
                 /\ read' = row
  BY DEF T!TakeRead, T!Finished
<1>4. /\ row \in ReadRow /\ row.token = read.token /\ row.answer = read.answer
      /\ ~row.inFlight /\ row.scheduled = read.queued
  BY <1>2, <1>3 DEF ReadRow
<1>5. PICK answer : /\ answer = [token |-> read.token,
                                 data |-> IF read.answer \in Account THEN read.answer
                                                                     ELSE "error"]
                    /\ result' = answer
  BY DEF T!TakeRead
<1>6. /\ answer \in ResultRow /\ answer.token = read.token
      /\ answer.data \in Account => answer.data = read.answer
  BY <1>2, <1>5, Apart DEF ReadRow, ResultRow
<1>7. AnswersOwn' /\ OneAtATime' /\ ReloadKept'
  BY <1>1, <1>2, <1>3, <1>4, <1>5, <1>6
     DEF TabInv, AnswersOwn, OneAtATime, ReloadKept, T!ReloadKept
<1>8. /\ view' \in T!Session \cup {None}
      /\ call' = call \/ call' = T!Outdated
  BY DEF T!TakeRead, T!Invalidate, TabInv, T!TypeOK
<1>9. call' \in [T!Call -> CallRow] /\ LatestCurrent'
  <2>1. CASE call' = call
    BY <1>1, <2>1 DEF TabInv, LatestCurrent
  <2>2. CASE call' = T!Outdated
    BY <2>2, OutdatedRows DEF TabInv, LatestCurrent
  <2> QED
    BY <1>8, <2>1, <2>2
<1>10. T!TypeOK'
  BY <1>1, <1>3, <1>4, <1>5, <1>6, <1>8, <1>9
     DEF TabInv, T!TypeOK, ReadRow, ResultRow, CallRow, CallFields
<1> QED
  BY <1>1, <1>7, <1>9, <1>10 DEF TabInv, LiveOwned

LEMMA ReloadStep == ASSUME TabInv, T!Reload \/ T!Poll PROVE TabInv'
<1>1. UNCHANGED <<owner, live, jar, view, call, latest, result>>
  BY DEF T!Reload, T!Poll, T!server, T!store
<1>2. read # None /\ read \in ReadRow /\ ~read.scheduled
  BY DEF T!Reload, T!Poll, TabInv, T!TypeOK, ReadRow
<1>3. PICK row : read' = row
  OBVIOUS
<1>4. /\ row \in ReadRow /\ row.token = read.token /\ row.answer = read.answer
      /\ row.inFlight = read.inFlight
      /\ row.scheduled = ~read.inFlight
      /\ read.inFlight => row.queued
  BY <1>2, <1>3 DEF T!Reload, T!Poll, ReadRow
<1> QED
  BY <1>1, <1>2, <1>3, <1>4, PageStep
     DEF TabInv, T!TypeOK, ResultRow, AnswersOwn, OneAtATime, ReloadKept, T!ReloadKept,
         T!Reload, T!Poll

LEMMA NextTab == ASSUME TabInv, [T!Next]_(T!vars) PROVE TabInv'
<1>1. CASE UNCHANGED T!vars
  BY <1>1, OwnersKept
     DEF T!vars, T!server, T!store, T!page, TabInv, T!TypeOK, LiveOwned, LatestCurrent
<1> QED
  BY <1>1, OtherStep, UserStep, ServeStep, AnswerStep, RenderStep, ServeReadStep,
     TakeReadStep, ReloadStep DEF T!Next

(* What an overtaken sign-in answers is not current any more.              *)
LEMMA OvertakenIsLate ==
  ASSUME TabInv, [T!Next]_(T!vars), NEW c \in T!Call,
         call[c].kind = "login", call'[c].kind = "over", latest # c
  PROVE  view' = view
<1>1. ~call[c].current
  BY DEF TabInv, LatestCurrent
<1>2. call \in [T!Call -> CallRow] /\ T!Outdated[c].kind = "login"
  BY OutdatedRows DEF TabInv
<1>3. ASSUME NEW d \in T!Call, T!Answer(d) PROVE view' = view
  <2>1. d = c
    BY <1>2, <1>3, OutdatedRows DEF T!Answer
  <2> QED
    BY <1>1, <1>3, <2>1 DEF T!Answer, T!Settle, T!Current
<1>4. ASSUME T!TakeRead PROVE FALSE
  BY <1>2, <1>4 DEF T!TakeRead, T!Invalidate
<1> QED
  BY <1>3, <1>4
     DEF T!Next, T!vars, T!store, T!OtherTab, T!User, T!Restore, T!SignIn, T!VerifyCode,
         T!SignOut, T!Serve, T!Fail, T!Render, T!ServeRead, T!LoseRead, T!Reload, T!Poll

LEMMA TabHolds == T!Spec => []TabInv
<1>1. TabInv /\ [T!Next]_(T!vars) => TabInv'
  BY NextTab
<1> QED
  BY <1>1, InitTab, PTL DEF T!Spec

(* Private data is on show only under the account it was read for, though  *)
(* another tab or a late answer has given the browser another session      *)
(* (use-api-resource, auth store, AuthGuard).                              *)
THEOREM ShownIsOwnHolds == T!Spec => []ShownIsOwn
<1>1. TabInv => ShownIsOwn
  BY Apart DEF TabInv, AnswersOwn, ShownIsOwn, T!ShownIsOwn, T!Displayed
<1> QED
  BY <1>1, TabHolds, PTL

(* A reload that a page asked for is not forgotten while a request is      *)
(* under way (use-api-resource reload and its queue).                      *)
THEOREM ReloadKeptHolds == T!Spec => []ReloadKept
<1>1. TabInv => ReloadKept
  BY DEF TabInv
<1> QED
  BY <1>1, TabHolds, PTL

(* A sign-in overtaken by a later sign-in or sign-out does not change what *)
(* is shown when it is answered at last (generation of the auth store).    *)
THEOREM NoLateSignInHolds == T!Spec => NoLateSignIn
<1>1. TabInv /\ [T!Next]_(T!vars) =>
        [\A c \in T!Call :
           call[c].kind = "login" /\ call'[c].kind = "over" /\ latest # c
             => view' = view]_(T!vars)
  BY OvertakenIsLate
<1> QED
  BY <1>1, TabHolds, PTL DEF T!Spec, NoLateSignIn, T!NoLateSignIn
=============================================================================
