------------------------------ MODULE MCSettling ------------------------------
(***************************************************************************)
(* Four components of the backend in which something has to come to an     *)
(* end: the payment timers, the slots of requests, the row locks of        *)
(* commands, and the refresh of rates with the pages it sorts. A behaviour *)
(* picks one and leaves the rest where they begin.                         *)
(***************************************************************************)
EXTENDS OrderSweep, Sequences, FiniteSets, TLC

CONSTANTS
  Request, Live, Slots,                                                \* Admission
  Call, Command, Images, MaxAttempts,                                  \* RowLocks
  cart, cross, rule, edit, publish, retire,
  Caller, Instance, Filter, MaxSnapshots, MaxPage                      \* Explore

ASSUME SettlingAssumption == Slots \in Nat /\ MaxSnapshots \in Nat /\ MaxPage \in Nat

(* What the commands name: ids, compared as numbers; one listing for an    *)
(* order and for an edit; at most one listing that a publication replaces, *)
(* and one asset at a time for the worker. A listing has its images in     *)
(* some order.                                                             *)
CommandKinds == {"checkout", "order", "ruling", "edit", "publish", "retire"}

ASSUME LocksAssumption ==
  /\ IsFiniteSet(Call)
  /\ \A t \in Call :
       LET c == Command[t] IN
       /\ c \in [kind : CommandKinds, listings : Seq(Nat), replaced : Seq(Nat),
                 assets : SUBSET Nat]
       /\ IsFiniteSet(c.assets)
       /\ c.kind \in {"order", "edit"} => Len(c.listings) <= 1
       /\ c.kind = "publish" => Len(c.replaced) <= 1
       /\ c.kind = "retire" => Cardinality(c.assets) <= 1
       /\ \A i \in DOMAIN c.listings : Images[c.listings[i]] \subseteq Seq(Nat)

VARIABLES
  part,
  accepted, request, client,                          \* Admission
  state, tries, left, held,                           \* RowLocks
  rates, pending, ask, at, kept, fetch, shown         \* Explore

(* One slot, two requests that need it and a probe that does not.          *)
A == INSTANCE Admission WITH Limit <- Slots

(* Two articles, the first with two images. The carts name the articles in *)
(* opposite orders; article 2 replaces article 1 and is ruled on; article  *)
(* 1 is edited and keeps its images; a replacement of article 2 that is    *)
(* published names them as well, though they are not its own; the worker   *)
(* retires one of them.                                                    *)
Cmd(kind, listings, replaced, assets) ==
  [kind |-> kind, listings |-> listings, replaced |-> replaced, assets |-> assets]

Commands ==
  (cart :> Cmd("checkout", <<2, 1>>, <<>>, {}))
    @@ (cross :> Cmd("checkout", <<1, 2>>, <<>>, {}))
    @@ (rule :> Cmd("ruling", <<2>>, <<1>>, {}))
    @@ (edit :> Cmd("edit", <<1>>, <<>>, {1, 2}))
    @@ (publish :> Cmd("publish", <<>>, <<2>>, {1, 2}))
    @@ (retire :> Cmd("retire", <<>>, <<>>, {1}))

Pictures == <<{<<2, 1>>, <<2>>}, {<<>>}>>

L == INSTANCE RowLocks WITH attempt <- tries

(* One reader, one API process, two snapshots, lists of two pages.         *)
E == INSTANCE Explore

aVars == <<accepted, request, client>>
lVars == <<state, tries, left, held>>
pageVars == <<at, kept, fetch, shown>>
eVars == <<rates, pending, ask, pageVars>>
allVars == <<part, vars, aVars, lVars, eVars>>

SettlingInit ==
  /\ part \in {"timers", "admission", "locks", "rates"}
  /\ Init /\ A!Init /\ L!Init /\ E!Init

SettlingNext ==
  /\ UNCHANGED part
  /\ \/ part = "timers" /\ Next /\ UNCHANGED <<aVars, lVars, eVars>>
     \/ part = "admission" /\ A!Next /\ UNCHANGED <<vars, lVars, eVars>>
     \/ part = "locks" /\ L!Next /\ UNCHANGED <<vars, aVars, eVars>>
     \/ part = "rates" /\ E!Next /\ UNCHANGED <<vars, aVars, lVars>>

(* The fairness of each component, while its part is played.               *)
Fair ==
  /\ \A w \in Sweeper :
       /\ WF_vars(part = "timers" /\ Begin(w))
       /\ WF_vars(part = "timers" /\ Finish(w))
       /\ \A o \in Order : SF_vars(part = "timers" /\ Attempt(w, o))
  /\ \A t \in Call : WF_lVars(part = "locks" /\ L!Step(t))

SettlingSpec == SettlingInit /\ [][SettlingNext]_allVars /\ Fair

-----------------------------------------------------------------------------
(* No more handlers run than there are slots, and a slot is a handler's.   *)
WorkBounded == A!WorkBounded

(* No circle of waiting calls without a ruling on a replacement, or a      *)
(* request that names an image of another's listing while it is bought.    *)
CirclesHaveCause == L!CirclesHaveCause

(* Every call that has begun ends, whoever waits for whose rows.           *)
CallsEnd == L!CallsEnd

(* The pages of a list are sorted by one snapshot of the rates.            *)
PagesShareRates == E!PagesShareRates
=============================================================================
