----------------------------- MODULE MCOrderEnds -----------------------------
(***************************************************************************)
(* The two ends of an order command, which share no state here: the pages  *)
(* that send it and the cluster that keeps it, broken at any moment or by  *)
(* one of its drills. A behaviour picks one and leaves the rest where it   *)
(* begins.                                                                 *)
(***************************************************************************)
EXTENDS Drills, TLC

CONSTANTS
  n1, n2, n3,                                       \* haDataNodes
  Account, PageCommand, None, MaxSends, MaxMounts,  \* OrderClient
  Line, Basket, MinItems, MaxItems, MaxDialog,      \* OrderPages
  a1, a2, l1, l2, both, first, action

(* None is neither an account nor a pending command; the requests, the     *)
(* mounts of the hook and the sessions of a dialog are counted.            *)
ASSUME EndsAssumption ==
  /\ None \notin Account \cup [cmd : PageCommand, key : 1..MaxSends]
  /\ MaxSends \in Nat /\ MaxMounts \in Nat /\ MaxDialog \in Nat

VARIABLES
  end,
  view, token, owner, saved, storage, sent, effects, givenUp, answered,  \* OrderClient
  page, mount, cart, dialog, checks                                      \* OrderPages

(* Two accounts; a cart of two listings, one of them alone, and an action. *)
Baskets == [c \in {both, first, action} |->
  CASE c = both -> {l1, l2} [] c = first -> {l1} [] OTHER -> {}]

P == INSTANCE OrderPages WITH Command <- PageCommand

pVars == <<view, token, owner, saved, storage, sent, effects, givenUp, answered,
           page, mount, cart, dialog, checks>>

EndsInit ==
  /\ end \in {"pages", "cluster", "drills"}
  /\ IF end = "drills"
     THEN DrillInit
     ELSE Init /\ drill = "failover" /\ phase = "ready" /\ old = NoNode /\ kept = {}
  /\ IF end = "pages"
     THEN P!PagesInit /\ watchdog = "off" /\ leader = n1 /\ sync.standby = n2
     ELSE /\ view = {} /\ token = {} /\ owner = {} /\ saved = {} /\ storage = {}
          /\ sent = <<>> /\ effects = {} /\ givenUp = {} /\ answered = {}
          /\ page = {} /\ mount = {} /\ cart = {} /\ dialog = {} /\ checks = {}

(* Two orders are placed in a drill, one in the cluster by itself.         *)
EndsNext ==
  /\ UNCHANGED end
  /\ \/ end = "pages" /\ P!PagesNext /\ UNCHANGED <<vars, drillVars>>
     \/ /\ end = "cluster" /\ Next /\ UNCHANGED <<pVars, drillVars>>
        /\ \A n \in Node : applied'[n] \subseteq {first}
     \/ end = "drills" /\ DrillNext /\ UNCHANGED pVars

EndsSpec == EndsInit /\ [][EndsNext]_<<end, vars, drillVars, pVars>>

Names == Permutations({n1, n2, n3}) \cup Permutations({a1, a2})

-----------------------------------------------------------------------------
(* A command of unknown outcome is not forgotten.                          *)
DoubtKept == end = "pages" => P!DoubtKept

(* A drill never sees what its script does not expect.                     *)
DrillsStand == end = "drills" => DrillsPass

(* What is ordered is what was confirmed.                                  *)
OrderedAsConfirmed == P!OrderedAsConfirmed
=============================================================================
