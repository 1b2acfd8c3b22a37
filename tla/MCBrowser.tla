------------------------------ MODULE MCBrowser ------------------------------
(***************************************************************************)
(* Four parts of the system that share no state: the session and the       *)
(* private page of one tab, the favorites that all tabs keep in one        *)
(* localStorage, the reading of the favorites' listings for several        *)
(* components of a page, and the images with their worker. A behaviour     *)
(* picks one and leaves the rest where they begin.                         *)
(***************************************************************************)
EXTENDS Media, TLC

CONSTANTS
  Account, Sessions, MaxCalls, s1, s2,  \* Tab
  BrowserTab, Favorite, Unset, MaxEvents, \* Favorites
  Reader, Wanted, Batches, Workers, MaxJobs, long, short \* Resolutions

TwoSessions == <<s1, s2>>
LongAndShort == (long :> 3) @@ (short :> 1)

(* Names that the code tells apart: an account or a session from no        *)
(* session, from the outcomes of a request, from no list and no job.       *)
ASSUME NamesApart ==
  /\ None \notin Account \cup {Sessions[i] : i \in DOMAIN Sessions} \cup (1..MaxJobs)
  /\ Account \cap {"none", "error", "loading", "unauthenticated", "rejected", "failed"} = {}
  /\ MaxJobs \in Nat

VARIABLES
  part,
  owner, live, jar, view, call, latest, read, result, asked, \* Tab
  saved, value, events,                                      \* Favorites
  inFlight, job, mount                                       \* Resolutions

T == INSTANCE Tab
F == INSTANCE Favorites
R == INSTANCE Resolutions WITH Mount <- Reader

server == <<owner, live>>
tVars == <<server, jar, view, call, latest, read, result, asked>>
fVars == <<saved, value, events>>
rVars == <<inFlight, job, mount>>

PartsInit ==
  /\ part \in {"tab", "favorites", "listings", "images"}
  /\ T!Init /\ F!Init /\ R!Init /\ Init

PartsNext ==
  /\ UNCHANGED part
  /\ \/ part = "tab" /\ T!Next /\ UNCHANGED <<fVars, rVars, vars>>
     \/ part = "favorites" /\ F!Next /\ UNCHANGED <<tVars, rVars, vars>>
     \/ part = "listings" /\ R!Next /\ UNCHANGED <<tVars, fVars, vars>>
     \/ part = "images" /\ Next /\ UNCHANGED <<tVars, fVars, rVars>>

(* The fairness of Tab and of Media, each while its part is played.        *)
TabFair ==
  /\ WF_tVars(part = "tab" /\ T!Render)
  /\ SF_tVars(part = "tab" /\ T!ServeRead)
  /\ WF_tVars(part = "tab" /\ T!TakeRead)
  /\ WF_tVars(part = "tab" /\ T!Poll)

ImagesFair ==
  /\ \A o \in Order :
       /\ WF_vars(part = "images" /\ Due(o))
       /\ WF_vars(part = "images" /\ Lapse(o))
       /\ WF_vars(part = "images" /\ Settle(o))
  /\ \A a \in Asset :
       WF_vars(part = "images" /\ Close(a)) /\ WF_vars(part = "images" /\ AgeAsset(a))
  /\ \A k \in Key : WF_vars(part = "images" /\ AgeObject(k))
  /\ \A r \in Request : WF_vars(part = "images" /\ Serve(r))
  /\ \A w \in Worker : WF_vars(part = "images" /\ Work(w))

PartsSpec ==
  /\ PartsInit /\ [][PartsNext]_<<part, tVars, fVars, rVars, vars>>
  /\ TabFair /\ ImagesFair

-----------------------------------------------------------------------------
(* Private data is shown only under the account it was read for.           *)
ShownIsOwn == T!ShownIsOwn

(* A reload that a page asked for is not forgotten.                        *)
ReloadKept == T!ReloadKept

(* A sign-in overtaken by another call does not change what is shown.      *)
NoLateSignIn == T!NoLateSignIn

(* A session revoked elsewhere does not stay on show.                      *)
StaleViewEnds == T!StaleViewEnds

(* A tab that has heard of every change shows the saved favorites.         *)
TabsAgree == F!TabsAgree

(* Who still waits is not cut off because another lets go.                 *)
NobodyCutOff == R!NobodyCutOff
=============================================================================
