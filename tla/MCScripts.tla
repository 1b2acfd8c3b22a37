------------------------------ MODULE MCScripts ------------------------------
(***************************************************************************)
(* The repository's acceptance scripts against the models of what they     *)
(* drive, beside a market of two physical listings. A behaviour picks one  *)
(* part and leaves the rest empty or where it begins.                      *)
(***************************************************************************)
EXTENDS MCMarket, Integers, Sequences, FiniteSets

CONSTANTS Buyers, Arrivals, Rounds, MaxTries  \* Workload

(* A request names an item and a key by their numbers and their purpose,   *)
(* and an order by its key; NoOrder is none.                               *)
Label == Nat \X Nat \X {"create", "cancel", "prepare", "item"}
Written ==
  [ do : {"create", "cancel"}, item : Label \cup {NoOrder},
    order : (Label \X Nat) \cup {NoOrder}, key : Label ]

ASSUME WorkloadAssumption ==
  /\ Buyers \in Nat \ {0} /\ {Arrivals, Rounds, MaxTries} \subseteq Nat
  /\ NoOrder \notin Written

VARIABLES
  script,
  jlisting, jinventory, jorder, jdraft, at, \* Journeys
  load, worder, wholder, record, call, late, named, client, trouble  \* Workload

J == INSTANCE Journeys WITH
       listing <- jlisting, inventory <- jinventory, order <- jorder, draft <- jdraft

W == INSTANCE Workload WITH
       Slots <- Buyers, MaxAttempts <- MaxTries, None <- NoOrder,
       order <- worder, holder <- wholder

jVars == <<jlisting, jinventory, jorder, jdraft, at>>
wVars == <<load, worder, wholder, record, call, late, named, client, trouble>>
partVars == <<script, vars, jVars, wVars>>

PartInit ==
  /\ script \in {"pair", "journeys", "writes"}
  /\ Init
  /\ IF script = "journeys" THEN J!Init
     ELSE jlisting = {} /\ jinventory = {} /\ jorder = {} /\ jdraft = {} /\ at = {}
  /\ IF script = "writes" THEN W!Init
     ELSE /\ load = {} /\ worder = {} /\ wholder = {} /\ record = {} /\ call = {}
          /\ late = {} /\ named = {} /\ client = {} /\ trouble = {}

PartNext ==
  /\ UNCHANGED script
  /\ \/ script = "pair" /\ UnruledNext /\ UNCHANGED <<jVars, wVars>>
     \/ script = "journeys" /\ J!Next /\ UNCHANGED <<vars, wVars>>
     \/ script = "writes" /\ W!Next /\ UNCHANGED <<vars, jVars>>

PartSpec == PartInit /\ [][PartNext]_partVars

-----------------------------------------------------------------------------
(* What the acceptance scripts rely on holds whenever they rely on it.     *)
JourneysStand == script = "journeys" => J!JourneysStand

(* A write workload finds one order for each of its operations.            *)
WritesAccounted == script = "writes" => W!WritesAccounted
=============================================================================
