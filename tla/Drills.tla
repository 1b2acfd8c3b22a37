------------------------------- MODULE Drills -------------------------------
(***************************************************************************)
(* The drills that qualify the cluster: check-postgres-ha-auto.mjs kills   *)
(* the primary, both replicas or the majority of etcd, ha-auto-partition   *)
(* cuts the primary off, ha-auto-process-freeze stops its manager. Each    *)
(* waits for what it expects and asserts while it waits. Managers, writes  *)
(* and time go on between any two steps of a drill; only the drill breaks  *)
(* and mends things. compose.ha-auto.yaml runs the nodes without watchdog. *)
(***************************************************************************)
EXTENDS Cluster

VARIABLES
  drill,
  phase, \* how far it is
  old,   \* initialPrimary
  kept   \* the orders that were acknowledged when a phase began

drillVars == <<drill, phase, old, kept>>

DrillNames == {"failover", "replicas", "quorum", "partition", "freeze"}

Streaming == {n \in Node : \E p \in Primaries : Streams(n, p)}
Unreplicated == Streaming = {}
CaughtUp == \E p \in Primaries : standby[p] \in Streaming
Replaced == \E n \in Node \ {old} : Primaries = {n}

(* One primary with two streaming replicas.                                *)
Ready ==
  /\ Cardinality(Primaries) = 1
  /\ Cardinality(Streaming) = Cardinality(Node) - 1

(* The old primary still has the key, and /sync names a standby that       *)
(* streams from it.                                                        *)
Synced ==
  /\ role[old] = "primary"
  /\ leader = old /\ lease > 0
  /\ sync.leader = old /\ sync.standby \in Streaming

DrillInit ==
  /\ Init /\ watchdog = "off"
  /\ drill \in DrillNames
  /\ phase = "ready"
  /\ old = leader
  /\ kept = {}

-----------------------------------------------------------------------------
(* until: what a phase waits for. From then on what is acknowledged counts.*)
Await(from, condition, to) ==
  /\ phase = from /\ condition
  /\ phase' = to /\ kept' = confirmed
  /\ UNCHANGED <<vars, drill, old>>

Act(from, to) ==
  /\ phase = from
  /\ phase' = to /\ kept' = IF from = "ready" THEN confirmed ELSE kept
  /\ UNCHANGED <<drill, old>>

(* An order of the API is confirmed, if there is one left to place.        *)
Written == confirmed # kept \/ confirmed = Command

(* An old primary is back when it streams from the new one.                *)
Rejoined == Ready /\ Replaced /\ old \in Streaming

(* automatic primary failover, old primary rejoin                          *)
Failover ==
  /\ drill = "failover"
  /\ \/ Act("ready", "waiting") /\ Kill(old)
     \/ Await("waiting", Replaced, "writing")
     \/ Act("writing", "rejoining") /\ Written /\ Start(old)
     \/ Await("rejoining", Rejoined, "done")

(* all replicas unavailable                                                *)
ReplicasLost ==
  /\ drill = "replicas"
  /\ \/ \E n \in Node \ {old} :
          Act(IF faults = 0 THEN "ready" ELSE "killing",
              IF faults = 0 THEN "killing" ELSE "waiting") /\ Kill(n)
     \/ Await("waiting", Unreplicated, "blocked")
     \/ \E n \in Node \ {old} : Act("blocked", "catching up") /\ Start(n)
     \/ Await("catching up", CaughtUp, "writing")
     \/ \E n \in Node \ {old} : Act("writing", "restoring") /\ Written /\ Start(n)
     \/ Await("restoring", Ready /\ CaughtUp, "done")

(* DCS quorum loss, DCS quorum recovery                                    *)
QuorumLost ==
  /\ drill = "quorum"
  /\ \/ Act("ready", "waiting") /\ LoseQuorum
     \/ Await("waiting", Primaries = {}, "dark")
     \/ Act("dark", "recovering") /\ RegainQuorum
     \/ Await("recovering", Cardinality(Primaries) = 1, "writing")
     \/ Await("writing", Written, "done")

(* checkDcsPartition                                                       *)
Severed == drill = "partition" /\ phase \in {"waiting", "demoted", "writing"}

Partitioned ==
  /\ drill = "partition"
  /\ \/ Act("ready", "waiting") /\ Synced /\ Isolate(old)
     \/ Await("waiting", role[old] = "replica", "demoted")
     \/ Await("demoted", Replaced, "writing")
     \/ Act("writing", "rejoining") /\ Written /\ Reconnect(old)
     \/ Await("rejoining", Rejoined, "done")

(* checkProcessFreeze: STOP and CONT. The old primary may go on, so one    *)
(* more is what the drill waits for (replacementPrimary).                  *)
Frozen == drill = "freeze" /\ phase \in {"waiting", "writing"}

Replacement == \E n \in Node : Primaries \ {old} = {n}

FrozenManager ==
  /\ drill = "freeze"
  /\ \/ Act("ready", "waiting") /\ Synced /\ UNCHANGED vars
     \/ Await("waiting", Replacement, "writing")
     \/ Act("writing", "rejoining") /\ Written /\ UNCHANGED vars
     \/ Await("rejoining", Rejoined, "done")

(* A manager that runs renews its lease, or goes back to being a replica,  *)
(* within half of it: loop_wait and retry_timeout are less (patroni.json,  *)
(* configure_watchdog).                                                    *)
Prompt ==
  \A n \in Node :
    leader = n /\ role[n] \in {"elected", "primary"} /\ ~(Frozen /\ n = old)
      => lease > Ttl - Timeout

(* What goes on by itself.                                                 *)
Unattended ==
  /\ \/ Tick /\ Prompt
     \/ \E n \in Node : Manage(n) /\ (Frozen => n # old)
     \/ \E n \in Node, c \in Command : Write(n, c) \/ Confirm(n, c)
     \/ \E n, p \in Node : Follow(n, p)
  /\ UNCHANGED drillVars

DrillNext ==
  \/ Failover \/ ReplicasLost \/ QuorumLost \/ Partitioned \/ FrozenManager
  \/ phase # "done" /\ Unattended

DrillSpec == DrillInit /\ [][DrillNext]_<<vars, drillVars>>

-----------------------------------------------------------------------------
(* A frozen primary that nobody has demoted: until it has rejoined, its    *)
(* manager does not tell the gateways that it takes writes.                *)
Astray == IF drill = "freeze" /\ phase # "ready" THEN {old} ELSE {}

(* Whoever else takes writes has every order acknowledged when the phase   *)
(* began (businessState against before).                                   *)
RowsKept == \A p \in Primaries \ Astray : kept \subseteq applied[p]

(* Nothing is acknowledged without a replica or without a majority, and    *)
(* nothing takes writes without a majority.                                *)
NothingAcknowledged ==
  /\ phase \in {"blocked", "dark"} => confirmed = kept
  /\ phase = "dark" => Primaries = {}

(* A primary is read-only before its lease is over, and no two nodes take  *)
(* writes.                                                                 *)
FencedInTime ==
  /\ role[old] = "primary" => leader = old
  /\ Cardinality(Primaries) <= 1

(* Every assertion of the drills that pass holds at every moment they      *)
(* might look; a primary cut off from etcd demotes itself in time          *)
(* (leaseRemainingAtDemotion, "Two PostgreSQL nodes were writable").       *)
DrillsPass == RowsKept /\ NothingAcknowledged /\ (Severed => FencedInTime)

(* What the freeze drill asserts as well, and HA.md reports it did not     *)
(* find: nothing fences a primary whose manager is frozen                  *)
(* (freezeQualification).                                                  *)
FrozenFenced == Frozen => FencedInTime
=============================================================================
