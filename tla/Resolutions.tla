---------------------------- MODULE Resolutions ----------------------------
(***************************************************************************)
(* The listings of the favorites, read once for all the components of a    *)
(* page that show them: a job per list of ids, shared while it runs, cut   *)
(* off when its last subscriber lets go, and read in batches.              *)
(***************************************************************************)
EXTENDS Naturals, FiniteSets

CONSTANTS
  Mount,     \* components that show the favorites
  Wanted,    \* lists of ids
  Batches,   \* of each list
  Workers,   \* favoritesConcurrentBatches
  None,
  MaxJobs    \* bound: jobs created

VARIABLES
  inFlight, \* the map of unfinished jobs
  job,
  mount

vars == <<inFlight, job, mount>>

Job == 1..MaxJobs
Unborn == [list |-> None, state |-> "none", aborted |-> FALSE,
           subscribers |-> {}, sent |-> 0, pages |-> 0]
Away == [list |-> None, job |-> None, shows |-> "nothing"]

TypeOK ==
  /\ inFlight \in [Wanted -> Job \cup {None}]
  /\ job \in [Job -> [list : Wanted \cup {None},
                      state : {"none", "running", "read", "failed", "settled"},
                      aborted : BOOLEAN, subscribers : SUBSET Mount,
                      sent : Nat, pages : Nat]]
  /\ \A j \in Job : /\ job[j].pages <= job[j].sent
                    /\ job[j].sent <= job[j].pages + Workers
  /\ mount \in [Mount -> [list : Wanted \cup {None}, job : Job \cup {None},
                          shows : {"nothing", "loading", "items", "error"}]]

Init ==
  /\ inFlight = [l \in Wanted |-> None]
  /\ job = [j \in Job |-> Unborn]
  /\ mount = [m \in Mount |-> Away]

-----------------------------------------------------------------------------
Unused(j) ==
  job[j].state = "none" /\ \A i \in Job : i < j => job[i].state # "none"

Join(m, j) ==
  mount' = [mount EXCEPT ![m] = [list |-> job'[j].list, job |-> j,
                                 shows |-> "loading"]]

(* The effect of a component, for a list of its own.                       *)
Subscribe(m, l) ==
  /\ mount[m].job = None
  /\ \/ /\ inFlight[l] # None
        /\ job' = [job EXCEPT ![inFlight[l]].subscribers = @ \cup {m}]
        /\ Join(m, inFlight[l])
        /\ UNCHANGED inFlight
     \/ /\ inFlight[l] = None
        /\ \E j \in Job :
             /\ Unused(j)
             /\ job' = [job EXCEPT ![j] = [Unborn EXCEPT
                          !.list = l, !.state = "running", !.subscribers = {m}]]
             /\ inFlight' = [inFlight EXCEPT ![l] = j]
             /\ Join(m, j)

(* Fault: whoever lets go cuts the job off.                                *)
ReleaseAborting(m) ==
  LET j == mount[m].job
      l == mount[m].list
  IN
  /\ j # None
  /\ mount' = [mount EXCEPT ![m] = Away]
  /\ job' = [job EXCEPT ![j].subscribers = @ \ {m}, ![j].aborted = TRUE]
  /\ inFlight' = [inFlight EXCEPT ![l] = IF @ = j THEN None ELSE @]

(* Its clean-up.                                                           *)
Release(m) ==
  LET j == mount[m].job
      l == mount[m].list
  IN
  /\ j # None
  /\ mount' = [mount EXCEPT ![m] = Away]
  /\ IF job[j].subscribers = {m}
       THEN /\ job' = [job EXCEPT ![j].subscribers = {}, ![j].aborted = TRUE]
            /\ inFlight' = [inFlight EXCEPT ![l] = IF @ = j THEN None ELSE @]
       ELSE /\ job' = [job EXCEPT ![j].subscribers = @ \ {m}]
            /\ UNCHANGED inFlight

Send(j) ==
  /\ job[j].state = "running" /\ ~job[j].aborted
  /\ job[j].sent < Batches[job[j].list]
  /\ job[j].sent < job[j].pages + Workers
  /\ job' = [job EXCEPT ![j].sent = @ + 1]
  /\ UNCHANGED <<inFlight, mount>>

Page(j) ==
  /\ job[j].state = "running" /\ ~job[j].aborted
  /\ job[j].pages < job[j].sent
  /\ job' = [job EXCEPT ![j].pages = @ + 1]
  /\ UNCHANGED <<inFlight, mount>>

(* A batch is refused or lost, or the signal ends it.                      *)
Fail(j) ==
  /\ job[j].state = "running"
  /\ job[j].pages < job[j].sent \/ job[j].aborted
  /\ job' = [job EXCEPT ![j].state = "failed", ![j].aborted = TRUE]
  /\ UNCHANGED <<inFlight, mount>>

Read(j) ==
  /\ job[j].state = "running" /\ ~job[j].aborted
  /\ job[j].pages = Batches[job[j].list]
  /\ job' = [job EXCEPT ![j].state = "read"]
  /\ UNCHANGED <<inFlight, mount>>

Shown(j) == IF job[j].state = "read" THEN "items" ELSE "error"

Finish(j) ==
  /\ job' = [job EXCEPT ![j].state = "settled"]
  /\ mount' = [m \in Mount |-> IF mount[m].job = j
                 THEN [mount[m] EXCEPT !.shows = Shown(j)] ELSE mount[m]]

(* The promise settles: the map forgets the job, its subscribers are told. *)
Settle(j) ==
  /\ job[j].state \in {"read", "failed"}
  /\ Finish(j)
  /\ inFlight' = [inFlight EXCEPT ![job[j].list] = IF @ = j THEN None ELSE @]

Next ==
  \/ \E m \in Mount : Release(m) \/ \E l \in Wanted : Subscribe(m, l)
  \/ \E j \in Job : Send(j) \/ Page(j) \/ Fail(j) \/ Read(j) \/ Settle(j)

Spec == Init /\ [][Next]_vars

-----------------------------------------------------------------------------
Working(j) == job[j].state = "running" /\ ~job[j].aborted

(* Nobody who still waits has the job cut off by another's letting go: an  *)
(* aborted job with subscribers is one of which a batch failed.            *)
NobodyCutOff ==
  \A m \in Mount : mount[m].shows = "loading" =>
    LET j == mount[m].job IN
    /\ m \in job[j].subscribers
    /\ job[j].aborted => job[j].state = "failed"
=============================================================================
