------------------------------ MODULE Cluster ------------------------------
(***************************************************************************)
(* The database under the API processes: PostgreSQL nodes with synchronous *)
(* replication, a Patroni manager each, and the leader key in etcd, as     *)
(* infra/ha/patroni.json and watchdog_policy.py set them up and as the     *)
(* drills of backend/scripts break them (kills, a frozen manager,          *)
(* partition from etcd, loss of the quorum).                               *)
(*                                                                         *)
(* The managers' protocol is Patroni's, not this repository's: its steps   *)
(* are modelled as infra/HA.md relies on them. Gateways are left out: a    *)
(* session may reach any node that takes itself for the primary. Time      *)
(* passes in ticks. A manager may put off its next step by any time, as    *)
(* one that SIGSTOP has frozen does while PostgreSQL goes on.              *)
(***************************************************************************)
EXTENDS Naturals, FiniteSets

CONSTANTS
  Node,       \* haDataNodes
  Command,    \* order commands the API has the database carry out
  NoNode,     \* no leader, no standby, no upstream
  Ttl,        \* patroni.json ttl: lease of the leader key, in ticks
  MaxFaults   \* bound on the faults of one drill

ASSUME ClusterAssumption ==
  /\ NoNode \notin Node
  /\ Ttl \in Nat \ {0}
  /\ MaxFaults \in Nat

VARIABLES
  watchdog,   \* HA_WATCHDOG_MODE: "required", or "off" in local validation
  leader,     \* holder of the leader key in etcd
  lease,      \* ticks left of its lease
  sync,       \* the /sync key: the leader and standby that may be elected
  role,       \* what each node's PostgreSQL does
  stage,      \* how far the round of each leader's manager is
  standby,    \* synchronous_standby_names of each node
  source,     \* the node each node streams from
  applied,    \* commands each node has applied
  confirmed,  \* commands answered with 200
  timer,      \* ticks until the watchdog of a node resets it
  cut,        \* nodes cut off from etcd
  quorum,     \* etcd has a majority
  faults      \* faults injected so far

nodeVars == <<role, stage, standby, source, timer>>
dcsVars == <<leader, lease, sync>>
faultVars == <<cut, quorum, faults>>
dataVars == <<applied, confirmed>>
vars == <<watchdog, dcsVars, nodeVars, dataVars, faultVars>>

Roles == {"down", "replica", "elected", "primary"}

(* Fault: the default margin of five seconds before the lease ends.        *)
LateTimeout == Ttl - 1

(* configure_watchdog: safety_margin -1 halves the lease.                  *)
Timeout == Ttl \div 2

Off == Ttl + 1     \* timer of a node without an armed watchdog

Armed == IF watchdog = "required" THEN Timeout ELSE Off

(* The cluster as the drill finds it: one primary, everybody streaming.    *)
Init ==
  /\ watchdog \in {"required", "off"}
  /\ \E p, s \in Node :
       /\ p # s
       /\ leader = p
       /\ sync = [leader |-> p, standby |-> s]
       /\ role = [n \in Node |-> IF n = p THEN "primary" ELSE "replica"]
       /\ standby = [n \in Node |-> IF n = p THEN s ELSE NoNode]
       /\ source = [n \in Node |-> IF n = p THEN NoNode ELSE p]
       /\ timer = [n \in Node |-> IF n = p THEN Armed ELSE Off]
  /\ lease = Ttl
  /\ stage = [n \in Node |-> "idle"]
  /\ applied = [n \in Node |-> {}]
  /\ confirmed = {}
  /\ cut = {}
  /\ quorum = TRUE
  /\ faults = 0

-----------------------------------------------------------------------------
Runs(n) == role[n] # "down" /\ timer[n] > 0
Reaches(n) == Runs(n) /\ quorum /\ n \notin cut

(* A node stops being what it was: its own and its followers' streams end. *)
Become(n, r) ==
  /\ role' = [role EXCEPT ![n] = r]
  /\ stage' = [stage EXCEPT ![n] = "idle"]
  /\ standby' = [standby EXCEPT ![n] = NoNode]
  /\ source' = [m \in Node |-> IF m = n \/ source[m] = n THEN NoNode ELSE source[m]]

Streams(n, p) == source[n] = p /\ role[n] \in {"replica", "elected"}

(* Orders: the primary applies, its standbys follow, and with              *)
(* synchronous_mode_strict and remote_apply nothing is answered before the *)
(* named standby has it.                                                   *)
Write(p, c) ==
  /\ role[p] = "primary"
  /\ c \notin applied[p]
  /\ applied' = [applied EXCEPT ![p] = @ \cup {c}]
  /\ UNCHANGED <<watchdog, dcsVars, nodeVars, confirmed, faultVars>>

Follow(n, p) ==
  /\ Streams(n, p) /\ role[p] = "primary"
  /\ applied[n] # applied[p]
  /\ applied' = [applied EXCEPT ![n] = applied[p]]
  /\ UNCHANGED <<watchdog, dcsVars, nodeVars, confirmed, faultVars>>

(* Fault: synchronous_mode_strict is off: a primary without a streaming    *)
(* standby answers alone.                                                  *)
ConfirmAlone(p, c) ==
  /\ role[p] = "primary"
  /\ c \in applied[p] \ confirmed
  /\ standby[p] # NoNode /\ Streams(standby[p], p) => c \in applied[standby[p]]
  /\ confirmed' = confirmed \cup {c}
  /\ UNCHANGED <<watchdog, dcsVars, nodeVars, applied, faultVars>>

Confirm(p, c) ==
  /\ role[p] = "primary"
  /\ c \in applied[p] \ confirmed
  /\ standby[p] # NoNode /\ Streams(standby[p], p) /\ c \in applied[standby[p]]
  /\ confirmed' = confirmed \cup {c}
  /\ UNCHANGED <<watchdog, dcsVars, nodeVars, applied, faultVars>>

(* A replica, an old primary that comes back included, follows the holder  *)
(* of the leader key; pg_rewind drops what that one does not have.         *)
Rejoin(n, p) ==
  /\ Reaches(n) /\ role[n] = "replica"
  /\ leader = p /\ role[p] = "primary" /\ source[n] # p
  /\ source' = [source EXCEPT ![n] = p]
  /\ applied' = [applied EXCEPT ![n] = applied[p]]
  /\ UNCHANGED <<watchdog, dcsVars, role, stage, standby, timer, confirmed, faultVars>>

-----------------------------------------------------------------------------
(* A round of the primary's manager: renew the lease, feed the watchdog,   *)
(* then look after the standby.                                            *)
Renew(n) ==
  /\ Reaches(n) /\ role[n] = "primary" /\ stage[n] # "renewed"
  /\ leader = n \/ (leader = NoNode /\ sync.leader = n)
  /\ leader' = n /\ lease' = Ttl
  /\ stage' = [stage EXCEPT ![n] = "renewed"]
  /\ UNCHANGED <<watchdog, sync, role, standby, source, timer, dataVars, faultVars>>

Feed(n) ==
  /\ Runs(n) /\ stage[n] = "renewed"
  /\ timer' = [timer EXCEPT ![n] = Armed]
  /\ stage' = [stage EXCEPT ![n] = "fed"]
  /\ UNCHANGED <<watchdog, dcsVars, role, standby, source, dataVars, faultVars>>

(* A standby that is lost is taken out of /sync first, and only then out   *)
(* of PostgreSQL's names.                                                  *)
Withdraw(n) ==
  /\ Reaches(n) /\ stage[n] = "fed"
  /\ sync.leader = n /\ sync.standby # NoNode
  /\ ~Streams(sync.standby, n)
  /\ sync' = [sync EXCEPT !.standby = NoNode]
  /\ UNCHANGED <<watchdog, leader, lease, nodeVars, dataVars, faultVars>>

Name(n, s) ==
  /\ Reaches(n) /\ stage[n] = "fed"
  /\ sync = [leader |-> n, standby |-> NoNode]
  /\ Streams(s, n) /\ standby[n] # s
  /\ standby' = [standby EXCEPT ![n] = s]
  /\ UNCHANGED <<watchdog, dcsVars, role, stage, source, timer, dataVars, faultVars>>

(* Fault: the new standby is made electable before PostgreSQL waits for it *)
(* and before it has caught up.                                            *)
PublishEarly(n) ==
  /\ Reaches(n) /\ stage[n] = "fed"
  /\ sync = [leader |-> n, standby |-> NoNode]
  /\ \E s \in Node : Streams(s, n) /\ sync' = [sync EXCEPT !.standby = s]
  /\ UNCHANGED <<watchdog, leader, lease, nodeVars, dataVars, faultVars>>

(* A new standby becomes electable last, when it has caught up.            *)
Publish(n) ==
  /\ Reaches(n) /\ stage[n] = "fed"
  /\ sync = [leader |-> n, standby |-> NoNode]
  /\ standby[n] # NoNode /\ Streams(standby[n], n)
  /\ applied[standby[n]] = applied[n]
  /\ sync' = [sync EXCEPT !.standby = standby[n]]
  /\ UNCHANGED <<watchdog, leader, lease, nodeVars, dataVars, faultVars>>

(* A primary that has lost the key, or cannot reach etcd, goes read-only   *)
(* and puts its watchdog away (checkDcsPartition, "DCS quorum loss").      *)
Demote(n) ==
  /\ Runs(n) /\ role[n] \in {"elected", "primary"}
  /\ ~Reaches(n) \/ leader \notin {n, NoNode}
  /\ Become(n, "replica")
  /\ timer' = [timer EXCEPT ![n] = Off]
  /\ UNCHANGED <<watchdog, dcsVars, dataVars, faultVars>>

Electable(n) == n \in {sync.leader, sync.standby}

Elect(n) ==
  /\ Reaches(n) /\ role[n] = "replica" /\ Electable(n)
  /\ leader \in {n, NoNode}
  /\ leader' = n /\ lease' = Ttl
  /\ role' = [role EXCEPT ![n] = "elected"]
  /\ UNCHANGED <<watchdog, sync, stage, standby, source, timer, dataVars, faultVars>>

(* The elected node makes itself the only electable one before it takes    *)
(* writes.                                                                 *)
Promote(n) ==
  /\ Reaches(n) /\ role[n] = "elected" /\ Electable(n)
  /\ sync' = [leader |-> n, standby |-> NoNode]
  /\ Become(n, "primary")
  /\ timer' = [timer EXCEPT ![n] = Armed]
  /\ UNCHANGED <<watchdog, leader, lease, dataVars, faultVars>>

-----------------------------------------------------------------------------
(* Time. etcd lets no lease run out while it has no majority; a watchdog   *)
(* that has run out resets its node at once.                               *)
Tick ==
  /\ \A n \in Node : timer[n] > 0
  /\ (quorum /\ lease > 0) \/ \E n \in Node : timer[n] # Off
  /\ lease' = IF quorum /\ lease > 0 THEN lease - 1 ELSE lease
  /\ leader' = IF lease' = 0 THEN NoNode ELSE leader
  /\ timer' = [n \in Node |-> IF timer[n] = Off THEN Off ELSE timer[n] - 1]
  /\ UNCHANGED <<watchdog, sync, role, stage, standby, source, dataVars, faultVars>>

Stop(n) ==
  /\ Become(n, "down")
  /\ timer' = [timer EXCEPT ![n] = Off]

Reset(n) ==
  /\ timer[n] = 0
  /\ Stop(n)
  /\ UNCHANGED <<watchdog, dcsVars, dataVars, faultVars>>

Inject == faults < MaxFaults /\ faults' = faults + 1

(* compose kill -s SIGKILL of a database node.                             *)
Kill(n) ==
  /\ role[n] # "down"
  /\ Inject
  /\ Stop(n)
  /\ UNCHANGED <<watchdog, dcsVars, dataVars, cut, quorum>>

(* docker network disconnect of the dcs network (checkDcsPartition).       *)
Isolate(n) ==
  /\ n \notin cut
  /\ Inject
  /\ cut' = cut \cup {n}
  /\ UNCHANGED <<watchdog, dcsVars, nodeVars, dataVars, quorum>>

Reconnect(n) ==
  /\ n \in cut
  /\ cut' = cut \ {n}
  /\ UNCHANGED <<watchdog, dcsVars, nodeVars, dataVars, quorum, faults>>

(* SIGKILL of two etcd members, and their return.                          *)
LoseQuorum ==
  /\ quorum /\ Inject /\ quorum' = FALSE
  /\ UNCHANGED <<watchdog, dcsVars, nodeVars, dataVars, cut>>

RegainQuorum ==
  /\ ~quorum /\ quorum' = TRUE
  /\ UNCHANGED <<watchdog, dcsVars, nodeVars, dataVars, cut, faults>>

Start(n) ==
  /\ role[n] = "down"
  /\ role' = [role EXCEPT ![n] = "replica"]
  /\ UNCHANGED <<watchdog, dcsVars, stage, standby, source, timer, dataVars, faultVars>>

Manage(n) ==
  \/ Renew(n) \/ Feed(n) \/ Withdraw(n) \/ Publish(n) \/ \E s \in Node : Name(n, s)
  \/ Demote(n) \/ Elect(n) \/ Promote(n) \/ \E p \in Node : Rejoin(n, p)

Drill(n) ==
  \/ Kill(n) \/ Isolate(n) \/ Reconnect(n) \/ Start(n)

Next ==
  \/ Tick \/ LoseQuorum \/ RegainQuorum
  \/ \E n \in Node : Manage(n) \/ Drill(n) \/ Reset(n)
  \/ \E n \in Node, c \in Command : Write(n, c) \/ Confirm(n, c)
  \/ \E n, p \in Node : Follow(n, p)

Spec == Init /\ [][Next]_vars

-----------------------------------------------------------------------------
TypeOK ==
  /\ watchdog \in {"required", "off"}
  /\ leader \in Node \cup {NoNode} /\ lease \in 0 .. Ttl
  /\ sync \in [leader: Node, standby: Node \cup {NoNode}]
  /\ role \in [Node -> Roles]
  /\ stage \in [Node -> {"idle", "renewed", "fed"}]
  /\ standby \in [Node -> Node \cup {NoNode}]
  /\ source \in [Node -> Node \cup {NoNode}]
  /\ applied \in [Node -> SUBSET Command] /\ confirmed \subseteq Command
  /\ timer \in [Node -> (0 .. Timeout) \cup {Off}]
  /\ cut \subseteq Node
  /\ quorum \in BOOLEAN /\ faults \in 0 .. MaxFaults

(* No order that was answered with 200 is lost: every node that may still  *)
(* be elected has applied it, whatever the drills do, and with the         *)
(* watchdog off as well, so that two primaries cannot both confirm         *)
(* (infra/HA.md leaves open whether the old primary of a freeze commits;   *)
(* it cannot tell a client so). This is what the failover of OrderTxn      *)
(* takes for granted.                                                      *)
ConfirmedKept ==
  \A n \in Node : Electable(n) => confirmed \subseteq applied[n]

(* With the watchdog required there is never a moment with two writable    *)
(* nodes: the watchdog resets a frozen primary before its lease is over,   *)
(* since half a lease is left for the delay between the renewal and the    *)
(* feeding (watchdog_policy.py, freezeQualification, checkDcsPartition).   *)
Primaries == {n \in Node : role[n] = "primary"}

OneWriter == watchdog = "required" => Cardinality(Primaries) <= 1
=============================================================================
