-------------------------- MODULE OrderEndsProofs --------------------------
(***************************************************************************)
(* Theorems about the two ends of an order command. Of the cluster, for    *)
(* every lease and any number of faults: with the watchdog required one    *)
(* node takes writes at a time (OneWriter), with or without it no          *)
(* confirmed order is lost by an election (ConfirmedKept), and without it  *)
(* the drills see what they expect while managers run, but for the fencing *)
(* of a frozen one (DrillsStand). The first rests on time, the second on   *)
(* the /sync key, the third on both. Of the pages, for any accounts,       *)
(* commands, requests and dialogs: a command of unknown outcome is not     *)
(* forgotten (DoubtKept), and what is ordered is what was confirmed        *)
(* (OrderedAsConfirmed).                                                   *)
(***************************************************************************)
EXTENDS MCOrderEnds, Sequences, FiniteSetTheorems, TLAPS

-----------------------------------------------------------------------------
(* The kinds of step. *)

(* A node stops being what it was, by a crash, a reset or on its own.      *)
Loses(n) ==
  /\ Become(n, "down") \/ Become(n, "replica")
  /\ timer' = [timer EXCEPT ![n] = Off]
  /\ UNCHANGED <<watchdog, dcsVars, dataVars>>

(* A node loses its network, etcd its majority, or they get it back.       *)
Steady == UNCHANGED <<watchdog, dcsVars, nodeVars, dataVars>>

Round(n) ==
  \/ Renew(n) \/ Feed(n) \/ Withdraw(n) \/ Publish(n) \/ \E s \in Node : Name(n, s)
  \/ Elect(n) \/ Promote(n) \/ \E p \in Node : Rejoin(n, p)
  \/ Start(n) \/ Loses(n)

Order(n) ==
  \/ \E c \in Command : Write(n, c) \/ Confirm(n, c)
  \/ \E p \in Node : Follow(n, p)

LEMMA NextSorted ==
  ASSUME [Next]_vars
  PROVE  Tick \/ Steady \/ \E n \in Node : Round(n) \/ Order(n)
<1>1. CASE UNCHANGED vars
  BY <1>1 DEF vars, Steady, dcsVars, nodeVars, dataVars
<1>2. CASE LoseQuorum \/ RegainQuorum
  BY <1>2 DEF LoseQuorum, RegainQuorum, Steady
<1>3. ASSUME NEW n \in Node, Drill(n) \/ Reset(n) \/ Demote(n)
      PROVE  Steady \/ Loses(n) \/ Start(n)
  BY <1>3 DEF Drill, Kill, Isolate, Reconnect, Reset, Demote, Stop, Steady, Loses
<1>4. ASSUME NEW n \in Node, Manage(n)
      PROVE  Steady \/ Round(n)
  BY <1>3, <1>4 DEF Manage, Round
<1> QED
  BY <1>1, <1>2, <1>3, <1>4 DEF Next, Round, Order

(* Half a lease is no longer than the other half. *)
Margin == Ttl - Timeout

LEMMA Halves ==
  /\ Timeout \in Nat /\ Margin \in Nat /\ Timeout <= Margin /\ Margin > 0
  /\ Off \in Nat /\ Timeout < Off
  /\ Armed \in (0 .. Timeout) \cup {Off}
  /\ watchdog = "required" => Armed = Timeout
BY ClusterAssumption DEF Timeout, Margin, Off, Armed

-----------------------------------------------------------------------------
(* Type correctness. *)

LEMMA BecomeType ==
  ASSUME TypeOK, NEW n \in Node, NEW r \in Roles, Become(n, r)
  PROVE  /\ role' \in [Node -> Roles]
         /\ stage' \in [Node -> {"idle", "renewed", "fed"}]
         /\ standby' \in [Node -> Node \cup {NoNode}]
         /\ source' \in [Node -> Node \cup {NoNode}]
BY DEF TypeOK, Become

LEMMA InitType == Init => TypeOK
<1> SUFFICES ASSUME Init PROVE TypeOK
  OBVIOUS
<1>1. PICK p \in Node, s \in Node :
        /\ p # s /\ leader = p
        /\ sync = [leader |-> p, standby |-> s]
        /\ role = [n \in Node |-> IF n = p THEN "primary" ELSE "replica"]
        /\ standby = [n \in Node |-> IF n = p THEN s ELSE NoNode]
        /\ source = [n \in Node |-> IF n = p THEN NoNode ELSE p]
        /\ timer = [n \in Node |-> IF n = p THEN Armed ELSE Off]
  BY DEF Init
<1> QED
  BY <1>1, Halves, ClusterAssumption DEF Init, TypeOK, Roles

LEMMA TickType == TypeOK /\ Tick => TypeOK'
<1> SUFFICES ASSUME TypeOK, Tick PROVE TypeOK'
  OBVIOUS
<1>1. timer' \in [Node -> (0 .. Timeout) \cup {Off}]
  BY Halves DEF TypeOK, Tick
<1>2. lease' \in 0 .. Ttl /\ leader' \in Node \cup {NoNode}
  BY ClusterAssumption DEF TypeOK, Tick
<1> QED
  BY <1>1, <1>2 DEF TypeOK, Tick, faultVars, dataVars

(* The leader key and the lease, the rows of the nodes, and the data of a  *)
(* manager's round and of the orders.                                      *)
LEMMA ManageType == ASSUME TypeOK, NEW n \in Node, Manage(n) PROVE TypeOK'
<1> USE ClusterAssumption, Halves
<1>1. CASE Renew(n)
  BY <1>1 DEF TypeOK, Renew, faultVars, dataVars
<1>2. CASE Feed(n)
  BY <1>2 DEF TypeOK, Feed, faultVars, dataVars, dcsVars
<1>3. CASE Withdraw(n)
  BY <1>3 DEF TypeOK, Withdraw, faultVars, dataVars, nodeVars
<1>4. CASE Publish(n)
  BY <1>4 DEF TypeOK, Publish, Streams, faultVars, dataVars, nodeVars
<1>5. ASSUME NEW s \in Node, Name(n, s) PROVE TypeOK'
  BY <1>5 DEF TypeOK, Name, faultVars, dataVars, dcsVars
<1>6. CASE Demote(n)
  <2>1. Become(n, "replica")
    BY <1>6 DEF Demote
  <2> QED
    BY <1>6, <2>1, BecomeType DEF TypeOK, Demote, Roles, faultVars, dataVars, dcsVars
<1>7. CASE Elect(n)
  BY <1>7 DEF TypeOK, Elect, Roles, faultVars, dataVars
<1>8. CASE Promote(n)
  <2>1. Become(n, "primary")
    BY <1>8 DEF Promote
  <2> QED
    BY <1>8, <2>1, BecomeType DEF TypeOK, Promote, Roles, faultVars, dataVars
<1>9. ASSUME NEW p \in Node, Rejoin(n, p) PROVE TypeOK'
  BY <1>9 DEF TypeOK, Rejoin, faultVars, dcsVars
<1> QED
  BY <1>1, <1>2, <1>3, <1>4, <1>5, <1>6, <1>7, <1>8, <1>9 DEF Manage

LEMMA DrillType == ASSUME TypeOK, NEW n \in Node, Drill(n) \/ Reset(n) PROVE TypeOK'
<1> USE ClusterAssumption, Halves
<1>1. CASE Kill(n) \/ Reset(n)
  <2>1. Become(n, "down")
    BY <1>1 DEF Kill, Reset, Stop
  <2> QED
    BY <1>1, <2>1, BecomeType
       DEF TypeOK, Kill, Reset, Stop, Inject, Roles, faultVars, dataVars, dcsVars
<1>2. CASE Isolate(n) \/ Reconnect(n)
  BY <1>2 DEF TypeOK, Isolate, Reconnect, Inject, nodeVars, dataVars, dcsVars
<1>3. CASE Start(n)
  BY <1>3 DEF TypeOK, Start, Roles, faultVars, dataVars, dcsVars
<1> QED
  BY <1>1, <1>2, <1>3 DEF Drill

LEMMA NextType == TypeOK /\ [Next]_vars => TypeOK'
<1> SUFFICES ASSUME TypeOK, [Next]_vars PROVE TypeOK'
  OBVIOUS
<1> USE ClusterAssumption
<1>1. CASE UNCHANGED vars
  BY <1>1 DEF TypeOK, vars, nodeVars, dcsVars, dataVars, faultVars
<1>2. CASE LoseQuorum \/ RegainQuorum
  <2>1. quorum' \in BOOLEAN
    BY <1>2 DEF LoseQuorum, RegainQuorum
  <2>2. faults' \in 0 .. MaxFaults
    BY <1>2 DEF TypeOK, LoseQuorum, RegainQuorum, Inject
  <2>3. UNCHANGED <<watchdog, dcsVars, nodeVars, dataVars, cut>>
    BY <1>2 DEF LoseQuorum, RegainQuorum
  <2> QED
    BY <2>1, <2>2, <2>3 DEF TypeOK, nodeVars, dcsVars, dataVars
<1>3. ASSUME NEW n \in Node, NEW c \in Command, Write(n, c) \/ Confirm(n, c) PROVE TypeOK'
  BY <1>3 DEF TypeOK, Write, Confirm, nodeVars, dcsVars, faultVars
<1>4. ASSUME NEW n \in Node, NEW p \in Node, Follow(n, p) PROVE TypeOK'
  BY <1>4 DEF TypeOK, Follow, nodeVars, dcsVars, faultVars
<1> QED
  BY <1>1, <1>2, <1>3, <1>4, TickType, ManageType, DrillType DEF Next

(* Every reachable state of the cluster has nodes, leases and timers of    *)
(* the declared types, whatever the drill.                                 *)
THEOREM TypeCorrect == Spec => []TypeOK
BY InitType, NextType, PTL DEF Spec

-----------------------------------------------------------------------------
(* What a node that is not primary keeps: no round in progress, no standby *)
(* and no watchdog; a node that is down or primary streams from nobody.    *)
Ranked ==
  \A n \in Node :
    /\ role[n] # "primary" => stage[n] = "idle" /\ standby[n] = NoNode /\ timer[n] = Off
    /\ role[n] \in {"down", "primary"} => source[n] = NoNode

LEMMA InitRanked == Init => Ranked
<1> SUFFICES ASSUME Init PROVE Ranked
  OBVIOUS
<1>1. PICK p \in Node, s \in Node :
        /\ role = [n \in Node |-> IF n = p THEN "primary" ELSE "replica"]
        /\ standby = [n \in Node |-> IF n = p THEN s ELSE NoNode]
        /\ source = [n \in Node |-> IF n = p THEN NoNode ELSE p]
        /\ timer = [n \in Node |-> IF n = p THEN Armed ELSE Off]
  BY DEF Init
<1> QED
  BY <1>1 DEF Init, Ranked

LEMMA NextRanked == ASSUME TypeOK, Ranked, [Next]_vars PROVE Ranked'
<1>1. CASE Tick
  BY <1>1 DEF TypeOK, Ranked, Tick
<1>2. CASE Steady
  BY <1>2 DEF Ranked, Steady, nodeVars
<1>3. ASSUME NEW n \in Node, Order(n) PROVE Ranked'
  BY <1>3 DEF Ranked, Order, Write, Confirm, Follow, nodeVars
<1>4. ASSUME NEW n \in Node, Round(n) PROVE Ranked'
  <2> USE DEF TypeOK, Ranked
  <2>1. CASE Renew(n) \/ Feed(n)
    BY <1>4, <2>1 DEF Renew, Feed
  <2>2. CASE Withdraw(n) \/ Publish(n)
    BY <1>4, <2>2 DEF Withdraw, Publish, nodeVars
  <2>3. ASSUME NEW s \in Node, Name(n, s) PROVE Ranked'
    BY <1>4, <2>3 DEF Name
  <2>4. CASE Elect(n)
    BY <1>4, <2>4 DEF Elect
  <2>5. CASE Promote(n)
    BY <1>4, <2>5 DEF Promote, Become
  <2>6. ASSUME NEW p \in Node, Rejoin(n, p) PROVE Ranked'
    BY <1>4, <2>6 DEF Rejoin
  <2>7. CASE Start(n)
    BY <1>4, <2>7 DEF Start
  <2>8. CASE Loses(n)
    BY <1>4, <2>8 DEF Loses, Become
  <2> QED
    BY <1>4, <2>1, <2>2, <2>3, <2>4, <2>5, <2>6, <2>7, <2>8 DEF Round
<1> QED
  BY <1>1, <1>2, <1>3, <1>4, NextSorted

-----------------------------------------------------------------------------
(* One writer. While the watchdog is required, a primary either is the     *)
(* only node that may be elected, or holds the leader key and is reset     *)
(* before its lease is over. Between renewing the lease and feeding the    *)
(* watchdog a manager may be frozen, but then the timer that still runs    *)
(* has the whole margin to go before the lease.                            *)
Alone(p) == sync = [leader |-> p, standby |-> NoNode]

Guarded(p) ==
  /\ timer[p] <= Timeout
  /\ stage[p] = "renewed" => leader = p /\ timer[p] + Margin <= lease
  /\ stage[p] = "fed" => leader = p /\ timer[p] < lease
  /\ Alone(p) \/ (leader = p /\ timer[p] < lease)

(* A node that was elected before another was promoted may not go on.      *)
Waits(n, p) == source[n] # p /\ ~Electable(n)

WriterInv ==
  watchdog = "required" =>
    /\ \A p \in Primaries : Guarded(p)
    /\ \A p, q \in Primaries : p = q
    /\ \A n \in Node, p \in Primaries : role[n] = "elected" => Waits(n, p)

LEMMA InitWriter == Init => WriterInv
<1> SUFFICES ASSUME Init PROVE WriterInv
  OBVIOUS
<1>1. PICK p \in Node, s \in Node :
        /\ p # s /\ leader = p
        /\ role = [n \in Node |-> IF n = p THEN "primary" ELSE "replica"]
        /\ timer = [n \in Node |-> IF n = p THEN Armed ELSE Off]
  BY DEF Init
<1>2. Primaries = {p}
  BY <1>1 DEF Primaries
<1> QED
  BY <1>1, <1>2, Halves, ClusterAssumption DEF Init, WriterInv, Guarded, Margin

(* An election succeeds only where there is no primary.                    *)
LEMMA ElectedAlone ==
  ASSUME TypeOK, WriterInv, watchdog = "required", NEW n \in Node, Elect(n)
  PROVE  Primaries = {}
<1> SUFFICES ASSUME NEW p \in Primaries PROVE FALSE
  OBVIOUS
<1>1. Guarded(p) /\ role[p] = "primary" /\ p \in Node
  BY DEF WriterInv, Primaries
<1>2. CASE leader = p
  BY <1>1, <1>2, ClusterAssumption DEF Elect
<1>3. CASE Alone(p)
  BY <1>1, <1>3, ClusterAssumption DEF Elect, Electable, Alone
<1> QED
  BY <1>1, <1>2, <1>3 DEF Guarded

(* A round, or a tick, in which no node becomes primary or elected.        *)
LEMMA TickWriter == ASSUME TypeOK, WriterInv, Tick PROVE WriterInv'
<1> SUFFICES ASSUME watchdog = "required" PROVE WriterInv'
  BY DEF WriterInv, Tick
<1>1. ASSUME NEW p \in Primaries PROVE Guarded(p)'
  <2>1. p \in Node /\ Guarded(p) /\ timer[p] \in 1 .. Timeout
    BY Halves DEF WriterInv, Primaries, Guarded, Tick, TypeOK
  <2>2. timer'[p] = timer[p] - 1
    BY <2>1, Halves DEF Tick, TypeOK
  <2>3. leader = p /\ timer[p] < lease => leader' = p /\ lease' >= lease - 1
    BY <2>1, Halves, ClusterAssumption DEF Tick, TypeOK
  <2>4. lease \in Nat /\ lease' \in Nat
    BY ClusterAssumption DEF Tick, TypeOK
  <2> QED
    BY <2>1, <2>2, <2>3, <2>4, Halves DEF Guarded, Alone, Tick
<1>2. Primaries' = Primaries
  BY DEF Primaries, Tick
<1> QED
  BY <1>1, <1>2 DEF WriterInv, Waits, Electable, Tick

LEMMA RoundWriter ==
  ASSUME TypeOK, Ranked, WriterInv, NEW n \in Node, Round(n)
  PROVE  WriterInv'
<1> SUFFICES ASSUME watchdog = "required" PROVE WriterInv'
  BY DEF WriterInv, Round, Renew, Feed, Withdraw, Publish, Name, Elect, Promote, Rejoin,
         Start, Loses
<1> USE ClusterAssumption, Halves
<1>0. /\ \A p \in Primaries : Guarded(p)
      /\ \A p, q \in Primaries : p = q
      /\ \A m \in Node, p \in Primaries : role[m] = "elected" => Waits(m, p)
  BY DEF WriterInv
<1>1. CASE Renew(n)
  <2>1. Primaries = {n} /\ Primaries' = {n}
    BY <1>0, <1>1 DEF Primaries, Renew
  <2>2. Guarded(n)'
    BY <1>0, <1>1, <2>1 DEF Guarded, Renew, TypeOK, Margin
  <2> QED
    BY <1>0, <1>1, <2>1, <2>2 DEF WriterInv, Waits, Electable, Renew
<1>2. CASE Feed(n)
  <2>1. Primaries = {n} /\ Primaries' = {n}
    BY <1>0, <1>2 DEF Primaries, Feed, Ranked
  <2>2. Guarded(n)'
    BY <1>0, <1>2, <2>1 DEF Guarded, Feed, Runs, TypeOK, Margin, dcsVars, Alone
  <2> QED
    BY <1>0, <1>2, <2>1, <2>2 DEF WriterInv, Waits, Electable, Feed, dcsVars
<1>3. CASE Withdraw(n) \/ Publish(n) \/ \E s \in Node : Name(n, s)
  <2>1. Primaries = {n} /\ Primaries' = {n} /\ stage[n] = "fed"
    BY <1>0, <1>3 DEF Primaries, Withdraw, Publish, Name, Ranked, nodeVars
  <2>2. Guarded(n)'
    BY <1>0, <1>3, <2>1 DEF Guarded, Withdraw, Publish, Name, dcsVars, nodeVars
  <2>3. ASSUME NEW m \in Node, role[m] = "elected" PROVE Waits(m, n)'
    <3>1. Waits(m, n) /\ m # n
      BY <1>0, <2>1, <2>3 DEF Primaries
    <3> QED
      BY <1>3, <3>1 DEF Waits, Electable, Withdraw, Publish, Name, Streams, TypeOK,
                        dcsVars, nodeVars
  <2>4. role' = role
    BY <1>3 DEF Withdraw, Publish, Name, nodeVars
  <2> QED
    BY <2>1, <2>2, <2>3, <2>4 DEF WriterInv
<1>4. CASE Elect(n)
  <2>1. Primaries' = {}
    BY <1>4, ElectedAlone DEF Primaries, Elect, TypeOK
  <2> QED
    BY <2>1 DEF WriterInv
<1>5. CASE Promote(n)
  <2>1. Primaries = {}
    BY <1>0, <1>5 DEF Promote, Waits
  <2>2. Primaries' = {n}
    BY <1>5, <2>1 DEF Primaries, Promote, Become, TypeOK
  <2>3. Guarded(n)'
    BY <1>5 DEF Guarded, Promote, Become, TypeOK, Alone
  <2>4. ASSUME NEW m \in Node, role'[m] = "elected" PROVE Waits(m, n)'
    <3>1. m # n
      BY <1>5, <2>4 DEF Promote, Become, TypeOK
    <3> QED
      BY <1>5, <3>1 DEF Waits, Electable, Promote, Become, TypeOK
  <2> QED
    BY <2>2, <2>3, <2>4 DEF WriterInv
<1>6. CASE Start(n) \/ \E p \in Node : Rejoin(n, p)
  <2>1. Primaries' = Primaries /\ UNCHANGED <<timer, stage, dcsVars>>
    BY <1>6 DEF Primaries, Start, Rejoin, TypeOK
  <2>2. \A p \in Primaries : Guarded(p)'
    BY <1>0, <2>1 DEF Guarded, Alone, dcsVars
  <2>3. ASSUME NEW m \in Node, NEW p \in Primaries, role'[m] = "elected" PROVE Waits(m, p)'
    BY <1>0, <1>6, <2>3 DEF Waits, Electable, Start, Rejoin, TypeOK, dcsVars
  <2> QED
    BY <1>0, <2>1, <2>2, <2>3 DEF WriterInv
<1>7. CASE Loses(n)
  <2>1. Primaries' = Primaries \ {n}
    BY <1>7 DEF Primaries, Loses, Become, TypeOK
  <2>2. \A p \in Primaries' : Guarded(p)'
    BY <1>0, <1>7, <2>1 DEF Primaries, Guarded, Alone, Loses, Become, TypeOK, dcsVars
  <2>3. ASSUME NEW m \in Node, NEW p \in Primaries', role'[m] = "elected" PROVE Waits(m, p)'
    BY <1>0, <1>7, <2>1, <2>3 DEF Primaries, Waits, Electable, Loses, Become, TypeOK, dcsVars
  <2> QED
    BY <1>0, <2>1, <2>2, <2>3 DEF WriterInv
<1> QED
  BY <1>1, <1>2, <1>3, <1>4, <1>5, <1>6, <1>7 DEF Round

LEMMA NextWriter == ASSUME TypeOK, Ranked, WriterInv, [Next]_vars PROVE WriterInv'
<1>1. ASSUME Steady \/ \E n \in Node : Order(n) PROVE WriterInv'
  <2>1. UNCHANGED <<watchdog, dcsVars, nodeVars>>
    BY <1>1 DEF Steady, Order, Write, Confirm, Follow
  <2> QED
    BY <2>1 DEF WriterInv, Primaries, Guarded, Alone, Waits, Electable, nodeVars, dcsVars
<1> QED
  BY <1>1, NextSorted, TickWriter, RoundWriter

(* There is never a moment with two writable nodes while the watchdog is   *)
(* required, however long a manager is frozen and whatever the drill       *)
(* breaks: the margin of half a lease (watchdog_policy.py,                 *)
(* configure_watchdog) is what the proof uses and cannot do without.       *)
THEOREM OneWriterHolds == Spec => []OneWriter
<1>1. Init => TypeOK /\ Ranked /\ WriterInv
  BY InitType, InitRanked, InitWriter
<1>2. TypeOK /\ Ranked /\ WriterInv /\ [Next]_vars => (TypeOK /\ Ranked /\ WriterInv)'
  BY NextType, NextRanked, NextWriter
<1>3. WriterInv => OneWriter
  <2> SUFFICES ASSUME WriterInv, watchdog = "required" PROVE Cardinality(Primaries) <= 1
    BY DEF OneWriter
  <2>1. CASE Primaries = {}
    BY <2>1, FS_EmptySet
  <2>2. ASSUME NEW p \in Primaries PROVE Cardinality(Primaries) <= 1
    <3>1. Primaries = {p}
      BY DEF WriterInv
    <3> QED
      BY <3>1, FS_Singleton
  <2> QED
    BY <2>1, <2>2
<1> QED
  BY <1>1, <1>2, <1>3, PTL DEF Spec

-----------------------------------------------------------------------------
(* Confirmed orders. A primary may be an old one, which the managers have  *)
(* replaced and no watchdog resets, and it goes on confirming for as long  *)
(* as its standby streams from it. What keeps those orders is /sync: as    *)
(* long as the standby of a primary streams from it, nobody else than the  *)
(* two may be elected (Electors).                                          *)
Electors(p) ==
  standby[p] # NoNode /\ Streams(standby[p], p) =>
    \A n \in Node : Electable(n) => n \in {p, standby[p]}

(* A standby that was elected may be promoted after the old primary has    *)
(* got the key back; it is then alone in /sync, and has confirmed nothing  *)
(* of its own until the old primary loses the key again.                   *)
Slipped(p) ==
  \E s \in Node :
    /\ s # p /\ Alone(s) /\ standby[p] = s
    /\ stage[s] = "idle" /\ standby[s] = NoNode
    /\ source[s] \in {NoNode, p}

(* A node that may be elected catches up from a primary, or is rewound to  *)
(* the holder of the key, without losing what was confirmed.               *)
Sound(p) ==
  /\ Electors(p)
  /\ sync.leader = p /\ sync.standby # NoNode => standby[p] = sync.standby
  /\ leader = p => sync.leader = p \/ Slipped(p)
  /\ leader = p => confirmed \subseteq applied[p]
  /\ \A n \in Node : Electable(n) /\ Streams(n, p) => confirmed \subseteq applied[p]

KeptInv == ConfirmedKept /\ \A p \in Primaries : Sound(p)

LEMMA InitKept == Init => KeptInv
<1> SUFFICES ASSUME Init PROVE KeptInv
  OBVIOUS
<1>1. PICK p \in Node, s \in Node :
        /\ p # s /\ leader = p
        /\ sync = [leader |-> p, standby |-> s]
        /\ role = [n \in Node |-> IF n = p THEN "primary" ELSE "replica"]
        /\ standby = [n \in Node |-> IF n = p THEN s ELSE NoNode]
  BY DEF Init
<1>2. Primaries = {p}
  BY <1>1 DEF Primaries
<1> QED
  BY <1>1, <1>2 DEF Init, KeptInv, ConfirmedKept, Sound, Electors, Electable

(* The data of a primary only grows. *)
LEMMA PrimaryGrows ==
  ASSUME TypeOK, NEW n \in Node, Order(n) \/ \E p \in Node : Rejoin(n, p),
         NEW p \in Primaries
  PROVE  applied[p] \subseteq applied'[p]
BY DEF Order, Write, Confirm, Follow, Rejoin, Streams, Primaries, TypeOK, dataVars

(* Orders change the data alone. *)
LEMMA OrderKept ==
  ASSUME TypeOK, Ranked, KeptInv, NEW n \in Node, Order(n)
  PROVE  KeptInv'
<1>0. \A p \in Primaries : Sound(p)
  BY DEF KeptInv
<1>1. UNCHANGED <<watchdog, dcsVars, nodeVars, faultVars>> /\ Primaries' = Primaries
  BY DEF Order, Write, Confirm, Follow, Primaries, nodeVars
<1>2. ASSUME NEW p \in Primaries,
             leader = p => confirmed' \subseteq applied'[p],
             \A m \in Node : Electable(m) /\ Streams(m, p) => confirmed' \subseteq applied'[p]
      PROVE  Sound(p)'
  BY <1>0, <1>1, <1>2 DEF Sound, Electors, Slipped, Alone, Electable, Streams, nodeVars, dcsVars
<1>3. CASE confirmed' = confirmed
  <2>1. \A p \in Primaries : Sound(p)'
    BY <1>0, <1>2, <1>3, PrimaryGrows DEF Sound
  <2>2. ASSUME NEW m \in Node, Electable(m) PROVE confirmed \subseteq applied'[m]
    <3>1. confirmed \subseteq applied[m]
      BY <2>2 DEF KeptInv, ConfirmedKept
    <3>2. CASE applied[m] \subseteq applied'[m]
      BY <3>1, <3>2
    <3>3. ASSUME NEW p \in Node, Follow(n, p) PROVE confirmed \subseteq applied'[m]
      <4>1. p \in Primaries /\ Streams(n, p)
        BY <3>3 DEF Follow, Primaries
      <4>2. CASE m = n
        BY <1>0, <2>2, <3>3, <4>1, <4>2 DEF Sound, Follow, TypeOK
      <4>3. CASE m # n
        BY <3>1, <3>3, <4>3 DEF Follow, TypeOK
      <4> QED
        BY <4>2, <4>3
    <3> QED
      BY <3>2, <3>3 DEF Order, Write, Confirm, TypeOK
  <2> QED
    BY <1>1, <1>3, <2>1, <2>2 DEF KeptInv, ConfirmedKept, Electable, dcsVars
<1>4. ASSUME NEW c \in Command, Confirm(n, c) PROVE KeptInv'
  <2> DEFINE w == standby[n]
  <2>1. /\ n \in Primaries /\ w # NoNode /\ w \in Node /\ Streams(w, n)
        /\ c \in applied[n] /\ c \in applied[w]
        /\ applied' = applied /\ confirmed' = confirmed \cup {c}
    BY <1>4 DEF Confirm, Primaries, TypeOK
  <2>2. \A m \in Node : Electable(m) => m \in {n, w}
    BY <1>0, <2>1 DEF Sound, Electors
  <2>3. ASSUME NEW p \in Primaries, p # n, leader = p PROVE FALSE
    <3>1. sync.leader = p \/ Slipped(p)
      BY <1>0, <2>3 DEF Sound
    <3>2. CASE sync.leader = p
      BY <2>1, <2>2, <2>3, <3>2 DEF Electable, Streams, Primaries
    <3>3. ASSUME NEW s \in Node, Alone(s), standby[s] = NoNode, source[s] \in {NoNode, p}
          PROVE  FALSE
      BY <2>1, <2>2, <2>3, <3>3, ClusterAssumption DEF Alone, Electable, Streams, Primaries, TypeOK
    <3> QED
      BY <3>1, <3>2, <3>3 DEF Slipped
  <2>4. ASSUME NEW p \in Primaries, NEW m \in Node, Electable(m), Streams(m, p) PROVE p = n
    BY <2>1, <2>2, <2>4 DEF Streams, Primaries
  <2>5. \A p \in Primaries : Sound(p)'
    BY <1>0, <1>2, <2>1, <2>3, <2>4 DEF Sound
  <2> QED
    BY <1>1, <2>1, <2>2, <2>5 DEF KeptInv, ConfirmedKept, Electable, dcsVars
<1> QED
  BY <1>3, <1>4 DEF Order, Write, Follow

(* A tick, and what the managers and the drills do to the nodes.           *)
LEMMA TickKept == ASSUME TypeOK, KeptInv, Tick PROVE KeptInv'
<1>1. /\ UNCHANGED <<sync, role, stage, standby, source, dataVars>>
      /\ Primaries' = Primaries
      /\ leader' \in {leader, NoNode}
  BY DEF Tick, Primaries
<1>2. \A p \in Primaries : leader' = p => leader = p
  BY <1>1, ClusterAssumption DEF Primaries
<1> QED
  BY <1>1, <1>2 DEF KeptInv, ConfirmedKept, Sound, Electors, Slipped, Alone, Electable, Streams, dataVars

LEMMA RenewKept ==
  ASSUME TypeOK, KeptInv, NEW n \in Node, Renew(n)
  PROVE  KeptInv'
<1>1. UNCHANGED <<sync, role, standby, source, dataVars>> /\ Primaries' = Primaries /\ n \in Primaries
  BY DEF Renew, Primaries
<1>2. ASSUME NEW p \in Primaries, p # n PROVE Sound(p)'
  BY <1>1, <1>2 DEF KeptInv, Sound, Electors, Electable, Streams, Renew, dataVars
<1>3. Sound(n)'
  <2>1. Sound(n)
    BY <1>1 DEF KeptInv
  <2>2. leader = n \/ sync.leader = n
    BY DEF Renew
  <2>3. confirmed \subseteq applied[n]
    BY <1>1, <2>1, <2>2 DEF KeptInv, ConfirmedKept, Sound, Electable, Primaries
  <2>4. Slipped(n) => Slipped(n)'
    BY <1>1 DEF Slipped, Alone, Renew, TypeOK
  <2> QED
    BY <1>1, <2>1, <2>2, <2>3, <2>4 DEF Sound, Electors, Electable, Streams, dataVars
<1> QED
  BY <1>1, <1>2, <1>3 DEF KeptInv, ConfirmedKept, Electable, dataVars

LEMMA FeedKept ==
  ASSUME TypeOK, Ranked, KeptInv, NEW n \in Node, Feed(n)
  PROVE  KeptInv'
<1>1. /\ UNCHANGED <<dcsVars, role, standby, source, dataVars>> /\ Primaries' = Primaries
      /\ \A m \in Node : stage[m] = "idle" => stage'[m] = "idle"
  BY DEF Feed, Primaries, TypeOK
<1>2. \A p \in Primaries : Slipped(p) => Slipped(p)'
  BY <1>1 DEF Slipped, Alone, dcsVars
<1> QED
  BY <1>1, <1>2 DEF KeptInv, ConfirmedKept, Sound, Electors, Electable, Streams, dataVars, dcsVars

(* A manager in the middle of its round that looks after the standby: no   *)
(* other primary has a standby that streams from it and may be elected.    *)
LEMMA StandbyKept ==
  ASSUME TypeOK, Ranked, KeptInv, NEW n \in Node,
         Withdraw(n) \/ Publish(n) \/ \E s \in Node : Name(n, s)
  PROVE  KeptInv'
<1>0. /\ n \in Primaries /\ stage[n] = "fed"
      /\ UNCHANGED <<leader, role, stage, source, dataVars>> /\ Primaries' = Primaries
      /\ \A m \in Node \ {n} : standby'[m] = standby[m]
  BY DEF Withdraw, Publish, Name, Ranked, Primaries, TypeOK, nodeVars, dcsVars
<1>1. /\ sync.leader = n /\ sync'.leader = n
      /\ sync'.standby # NoNode =>
           /\ sync'.standby = standby'[n] /\ Streams(sync'.standby, n)
           /\ applied[sync'.standby] = applied[n]
  <2>1. CASE Withdraw(n)
    BY <2>1 DEF Withdraw, TypeOK
  <2>2. CASE Publish(n)
    BY <2>2 DEF Publish, TypeOK, nodeVars
  <2>3. ASSUME NEW s \in Node, Name(n, s)
        PROVE  sync.leader = n /\ sync' = sync /\ sync.standby = NoNode
    BY <2>3 DEF Name, dcsVars
  <2> QED
    BY <2>1, <2>2, <2>3
<1>2. confirmed \subseteq applied[n]
  BY <1>0, <1>1 DEF KeptInv, ConfirmedKept, Electable, Primaries
<1>3. \A m \in Node : Electable(m)' => m = n \/ (Streams(m, n) /\ applied[m] = applied[n])
  BY <1>1, ClusterAssumption DEF Electable
<1>4. ASSUME NEW p \in Primaries, p # n PROVE Sound(p)'
  <2>1. Sound(p) /\ p \in Node
    BY DEF KeptInv, Primaries
  <2>2. leader # p
    BY <1>0, <1>1, <1>4, <2>1 DEF Sound, Slipped, Alone
  <2>3. ~(standby[p] # NoNode /\ Streams(standby[p], p))
    BY <1>0, <1>1, <1>4, <2>1 DEF Sound, Electors, Electable, Streams, Primaries
  <2>4. \A m \in Node : ~(Electable(m)' /\ Streams(m, p))
    BY <1>0, <1>3, <1>4 DEF Streams, Primaries
  <2> QED
    BY <1>0, <1>1, <1>4, <2>1, <2>2, <2>3, <2>4 DEF Sound, Electors, Streams, dataVars
<1>5. Sound(n)'
  <2>1. Electors(n)'
    BY <1>1, ClusterAssumption DEF Electors, Electable
  <2> QED
    BY <1>0, <1>1, <1>2, <2>1 DEF Sound, dataVars
<1> QED
  BY <1>0, <1>2, <1>3, <1>4, <1>5 DEF KeptInv, ConfirmedKept, dataVars

LEMMA ElectKept ==
  ASSUME TypeOK, Ranked, KeptInv, NEW n \in Node, Elect(n)
  PROVE  KeptInv'
<1>1. /\ UNCHANGED <<sync, stage, standby, source, dataVars>> /\ Primaries' = Primaries
      /\ \A p \in Primaries : leader' # p
      /\ \A m, p \in Node : Streams(m, p)' => Streams(m, p)
  BY DEF Elect, Primaries, Streams, TypeOK
<1> QED
  BY <1>1, ClusterAssumption DEF KeptInv, ConfirmedKept, Sound, Electors, Electable, Primaries, TypeOK, dataVars

(* What a node leaves behind when it becomes something else.               *)
LEMMA BecomeValues ==
  ASSUME TypeOK, NEW n \in Node, NEW r \in Roles, Become(n, r)
  PROVE  /\ role'[n] = r /\ stage'[n] = "idle" /\ standby'[n] = NoNode /\ source'[n] = NoNode
         /\ \A m \in Node \ {n} :
              /\ role'[m] = role[m] /\ stage'[m] = stage[m] /\ standby'[m] = standby[m]
              /\ source'[m] = IF source[m] = n THEN NoNode ELSE source[m]
BY DEF Become, TypeOK

LEMMA LosesKept ==
  ASSUME TypeOK, Ranked, KeptInv, NEW n \in Node, Loses(n)
  PROVE  KeptInv'
<1>1. PICK r \in {"down", "replica"} : Become(n, r)
  BY DEF Loses
<1>2. /\ role'[n] = r /\ stage'[n] = "idle" /\ standby'[n] = NoNode /\ source'[n] = NoNode
      /\ \A m \in Node \ {n} :
           /\ role'[m] = role[m] /\ stage'[m] = stage[m] /\ standby'[m] = standby[m]
           /\ source'[m] = IF source[m] = n THEN NoNode ELSE source[m]
  BY <1>1, BecomeValues DEF Roles
<1>3. UNCHANGED <<sync, leader, dataVars>>
  BY DEF Loses, dcsVars
<1>4. Primaries' = Primaries \ {n}
  BY <1>2 DEF Primaries
<1>5. ASSUME NEW p \in Primaries' PROVE Sound(p)'
  <2>1. Sound(p) /\ p # n /\ p \in Node
    BY <1>4 DEF KeptInv, Primaries
  <2>2. \A m \in Node : Streams(m, p)' => Streams(m, p)
    BY <1>2, <2>1, ClusterAssumption DEF Streams
  <2>3. Slipped(p) => Slipped(p)'
    BY <1>2, <1>3, <2>1 DEF Slipped, Alone
  <2>4. standby'[p] = standby[p] /\ (standby[p] # NoNode => standby[p] \in Node)
    BY <1>2, <2>1 DEF TypeOK
  <2> QED
    BY <1>3, <2>1, <2>2, <2>3, <2>4 DEF Sound, Electors, Electable, dataVars
<1> QED
  BY <1>3, <1>5 DEF KeptInv, ConfirmedKept, Electable, dataVars

(* The promoted node may be the standby of a primary that goes on, which   *)
(* then has slipped.                                                       *)
LEMMA PromoteKept ==
  ASSUME TypeOK, Ranked, KeptInv, NEW n \in Node, Promote(n)
  PROVE  KeptInv'
<1>1. /\ role'[n] = "primary" /\ stage'[n] = "idle" /\ standby'[n] = NoNode /\ source'[n] = NoNode
      /\ \A m \in Node \ {n} :
           /\ role'[m] = role[m] /\ stage'[m] = stage[m] /\ standby'[m] = standby[m]
           /\ source'[m] = IF source[m] = n THEN NoNode ELSE source[m]
  BY BecomeValues DEF Promote, Roles
<1>2. Alone(n)' /\ Electable(n) /\ UNCHANGED <<leader, dataVars>> /\ role[n] = "elected"
  BY DEF Promote, Alone
<1>3. Primaries' = Primaries \cup {n}
  BY <1>1 DEF Primaries
<1>4. confirmed \subseteq applied[n] /\ \A m \in Node : Electable(m)' => m = n
  BY <1>2, ClusterAssumption DEF KeptInv, ConfirmedKept, Alone, Electable
<1>5. \A m \in Node : ~Streams(m, n)'
  BY <1>1, ClusterAssumption DEF Streams, TypeOK
<1>6. Sound(n)'
  BY <1>1, <1>2, <1>4, <1>5 DEF Sound, Electors, Alone, dataVars
<1>7. ASSUME NEW p \in Primaries PROVE Sound(p)'
  <2>1. Sound(p) /\ p # n /\ p \in Node
    BY <1>2 DEF KeptInv, Primaries
  <2>2. \A m \in Node : Streams(m, p)' => Streams(m, p) /\ m # n
    BY <1>1, <2>1, ClusterAssumption DEF Streams
  <2>3. standby'[p] = standby[p] /\ (standby[p] # NoNode => standby[p] \in Node)
    BY <1>1, <2>1 DEF TypeOK
  <2>4. Electors(p)'
    BY <1>2, <1>4, <2>1, <2>2, <2>3 DEF Sound, Electors
  <2>5. ASSUME leader = p PROVE Slipped(p)'
    <3>1. standby[p] = n
      BY <1>2, <2>1, <2>5, ClusterAssumption DEF Sound, Slipped, Alone, Electable
    <3> QED
      BY <1>1, <1>2, <2>1, <2>3, <3>1 DEF Slipped
  <2>6. \A m \in Node : Electable(m)' /\ Streams(m, p)' => confirmed \subseteq applied[p]
    BY <1>4, <2>2
  <2> QED
    BY <1>2, <2>1, <2>4, <2>5, <2>6 DEF Sound, Alone, dataVars
<1> QED
  BY <1>2, <1>3, <1>4, <1>6, <1>7 DEF KeptInv, ConfirmedKept, dataVars

(* A replica that rejoins follows the primary that holds the key.          *)
LEMMA RejoinKept ==
  ASSUME TypeOK, Ranked, KeptInv, NEW n \in Node, NEW p \in Node, Rejoin(n, p)
  PROVE  KeptInv'
<1>1. /\ UNCHANGED <<dcsVars, role, stage, standby, confirmed>> /\ Primaries' = Primaries
      /\ p \in Primaries /\ leader = p /\ role[n] = "replica" /\ n # p
      /\ source' = [source EXCEPT ![n] = p]
      /\ applied' = [applied EXCEPT ![n] = applied[p]]
  BY DEF Rejoin, Primaries
<1>2. Sound(p) /\ confirmed \subseteq applied[p]
  BY <1>1 DEF KeptInv, Sound
<1>3. \A m \in Node : Electable(m)' => confirmed' \subseteq applied'[m]
  BY <1>1, <1>2 DEF KeptInv, ConfirmedKept, Electable, TypeOK, dcsVars
<1>4. \A q \in Primaries : applied'[q] = applied[q] /\ q # n
  BY <1>1 DEF Primaries, TypeOK
<1>5. ASSUME NEW q \in Primaries, q # p PROVE Sound(q)'
  <2>1. Sound(q) /\ leader # q /\ \A m \in Node : Streams(m, q)' => Streams(m, q)
    BY <1>1, <1>5 DEF KeptInv, Streams, TypeOK
  <2> QED
    BY <1>1, <1>4, <2>1 DEF Sound, Electors, Electable, Primaries, TypeOK, dcsVars
<1>6. Sound(p)'
  <2>1. Slipped(p) => Slipped(p)'
    BY <1>1 DEF Slipped, Alone, TypeOK, dcsVars
  <2>2. Electors(p)'
    BY <1>1, <1>2, ClusterAssumption DEF Sound, Electors, Slipped, Alone, Electable, TypeOK, dcsVars
  <2> QED
    BY <1>1, <1>2, <1>4, <2>1, <2>2 DEF Sound, dcsVars
<1> QED
  BY <1>1, <1>3, <1>5, <1>6 DEF KeptInv, ConfirmedKept

LEMMA StartKept ==
  ASSUME TypeOK, Ranked, KeptInv, NEW n \in Node, Start(n)
  PROVE  KeptInv'
<1>1. /\ UNCHANGED <<dcsVars, stage, standby, source, dataVars>> /\ Primaries' = Primaries
  BY DEF Start, Primaries, TypeOK
<1>2. \A m \in Node, p \in Primaries : Streams(m, p)' => Streams(m, p)
  BY ClusterAssumption DEF Start, Streams, Ranked, Primaries, TypeOK
<1> QED
  BY <1>1, <1>2, ClusterAssumption
     DEF KeptInv, ConfirmedKept, Sound, Electors, Slipped, Alone, Electable, Primaries, TypeOK,
         dataVars, dcsVars

LEMMA NextKept == ASSUME TypeOK, Ranked, KeptInv, [Next]_vars PROVE KeptInv'
<1>1. CASE Steady
  BY <1>1 DEF Steady, KeptInv, ConfirmedKept, Primaries, Sound, Electors, Slipped, Alone,
              Electable, Streams, nodeVars, dcsVars, dataVars
<1>2. ASSUME NEW n \in Node, Round(n) PROVE KeptInv'
  BY <1>2, RenewKept, FeedKept, StandbyKept, ElectKept, PromoteKept, RejoinKept, StartKept,
     LosesKept DEF Round
<1> QED
  BY <1>1, <1>2, NextSorted, TickKept, OrderKept

(* No order that was answered with 200 is lost: every node that may be     *)
(* elected has applied it, with the watchdog or without, whichever nodes   *)
(* crash, freeze, lose etcd or come back, and however many faults a drill  *)
(* injects (patroni.json synchronous_mode_strict, infra/HA.md).            *)
THEOREM ConfirmedHolds == Spec => []ConfirmedKept
<1>1. Init => TypeOK /\ Ranked /\ KeptInv
  BY InitType, InitRanked, InitKept
<1>2. TypeOK /\ Ranked /\ KeptInv /\ [Next]_vars => (TypeOK /\ Ranked /\ KeptInv)'
  BY NextType, NextRanked, NextKept
<1>3. KeptInv => ConfirmedKept
  BY DEF KeptInv
<1> QED
  BY <1>1, <1>2, <1>3, PTL DEF Spec

-----------------------------------------------------------------------------
(***************************************************************************)
(* The drills. Every step of a drill is a step of the cluster or none, so  *)
(* what was shown of the cluster holds in them; what is left is what each  *)
(* script knows of the nodes it broke, while it waits.                     *)
(***************************************************************************)

(* A drill injects its faults one after another, and looks at its orders   *)
(* as they were when a phase began.                                        *)
Scripted ==
  /\ drill \in DrillNames /\ old \in Node
  /\ kept \subseteq confirmed
  /\ phase = "ready" => faults = 0
  /\ phase = "blocked" => drill = "replicas"
  /\ phase = "dark" => drill = "quorum"

(* While the replicas are gone: one of them, and then all but the old      *)
(* primary, are down.                                                      *)
Bereft ==
  drill = "replicas" =>
    /\ phase = "killing" => faults # 0 /\ \E n \in Node \ {old} : role[n] = "down"
    /\ phase \in {"waiting", "blocked"} => \A n \in Node \ {old} : role[n] = "down"
    /\ phase = "blocked" => confirmed = kept

(* While etcd has no majority, and once no node takes writes.              *)
Dark ==
  drill = "quorum" =>
    /\ phase \in {"waiting", "dark"} => ~quorum
    /\ phase = "dark" => Primaries = {} /\ confirmed = kept

(* A node that takes writes or is about to holds the leader key, but for   *)
(* the primary of a drill whose manager was frozen: nobody lets its lease  *)
(* run out (Prompt).                                                       *)
Keyed ==
  \A n \in Node : role[n] \in {"elected", "primary"} => leader = n \/ n \in Astray

DrillInv == Scripted /\ Bereft /\ Dark /\ Keyed

LEMMA DrillIsCluster == DrillInit => Init
BY DEF DrillInit

LEMMA StepIsCluster == Scripted /\ [DrillNext]_<<vars, drillVars>> => [Next]_vars
<1> SUFFICES ASSUME Scripted, [DrillNext]_<<vars, drillVars>> PROVE [Next]_vars
  OBVIOUS
<1>0. old \in Node
  BY DEF Scripted
<1>1. CASE Failover
  BY <1>0, <1>1 DEF Failover, Await, Next, Drill
<1>2. CASE ReplicasLost
  BY <1>0, <1>2 DEF ReplicasLost, Await, Next, Drill
<1>3. CASE QuorumLost
  BY <1>0, <1>3 DEF QuorumLost, Await, Next, Drill
<1>4. CASE Partitioned
  BY <1>0, <1>4 DEF Partitioned, Await, Next, Drill
<1>5. CASE FrozenManager
  BY <1>0, <1>5 DEF FrozenManager, Await, Next, Drill
<1>6. CASE Unattended
  BY <1>6 DEF Unattended, Next
<1>7. CASE UNCHANGED <<vars, drillVars>>
  BY <1>7
<1> QED
  BY <1>1, <1>2, <1>3, <1>4, <1>5, <1>6, <1>7 DEF DrillNext

LEMMA InitDrill == DrillInit => DrillInv
<1> SUFFICES ASSUME DrillInit PROVE DrillInv
  OBVIOUS
<1>1. TypeOK
  BY DrillIsCluster, InitType
<1>2. old \in Node
  BY DEF DrillInit, Init
<1>3. Scripted
  BY <1>2 DEF DrillInit, Init, Scripted
<1>4. Keyed
  BY DEF DrillInit, Init, Keyed
<1> QED
  BY <1>3, <1>4 DEF DrillInit, DrillInv, Bereft, Dark

-----------------------------------------------------------------------------
(* What goes on by itself in a drill. *)

(* Nothing but the script breaks or mends anything; what else can happen   *)
(* to what the scripts wait on is a step of a manager or a confirmation.   *)
LEMMA RestingStill ==
  ASSUME TypeOK, Ranked, Unattended
  PROVE  /\ UNCHANGED <<drill, phase, old, kept, watchdog, cut, quorum, faults>>
         /\ confirmed \subseteq confirmed'
         /\ \A n \in Node : role[n] = "down" => role'[n] = "down"
         /\ \A n \in Node : role'[n] = "primary" /\ role[n] # "primary" => Promote(n)
         /\ confirmed' # confirmed => \E n \in Node, c \in Command : Confirm(n, c)
<1>0. UNCHANGED drillVars
  BY DEF Unattended
<1> DEFINE Goal ==
         /\ UNCHANGED <<watchdog, cut, quorum, faults>>
         /\ confirmed \subseteq confirmed'
         /\ \A n \in Node : role[n] = "down" => role'[n] = "down"
         /\ \A n \in Node : role'[n] = "primary" /\ role[n] # "primary" => Promote(n)
         /\ confirmed' # confirmed => \E n \in Node, c \in Command : Confirm(n, c)
<1>1. ASSUME Tick PROVE Goal
  BY <1>1 DEF Tick, faultVars, dataVars
<1>3. ASSUME NEW n \in Node, Renew(n) \/ Feed(n) PROVE Goal
  BY <1>3 DEF Renew, Feed, faultVars, dataVars, dcsVars
<1>4. ASSUME NEW n \in Node, Withdraw(n) \/ Publish(n) PROVE Goal
  BY <1>4 DEF Withdraw, Publish, faultVars, dataVars, nodeVars
<1>5. ASSUME NEW n \in Node, NEW s \in Node, Name(n, s) PROVE Goal
  BY <1>5 DEF Name, faultVars, dataVars, dcsVars
<1>6. ASSUME NEW n \in Node, Demote(n) PROVE Goal
  BY <1>6 DEF Demote, Become, faultVars, dataVars, dcsVars, TypeOK
<1>7. ASSUME NEW n \in Node, Elect(n) PROVE Goal
  BY <1>7 DEF Elect, faultVars, dataVars, TypeOK
<1>8. ASSUME NEW n \in Node, Promote(n) PROVE Goal
  BY <1>8 DEF Promote, Become, faultVars, dataVars, TypeOK
<1>9. ASSUME NEW n \in Node, NEW p \in Node, Rejoin(n, p) \/ Follow(n, p) PROVE Goal
  BY <1>9 DEF Rejoin, Follow, faultVars, dataVars, dcsVars, nodeVars
<1>10. ASSUME NEW n \in Node, NEW c \in Command, Write(n, c) \/ Confirm(n, c) PROVE Goal
  BY <1>10 DEF Write, Confirm, faultVars, dataVars, dcsVars, nodeVars
<1>11. Goal
  BY <1>1, <1>3, <1>4, <1>5, <1>6, <1>7, <1>8, <1>9, <1>10 DEF Unattended, Manage
<1> QED
  BY <1>0, <1>11 DEF drillVars

(* The lease of a node that takes writes does not run out, and no other    *)
(* node can take the key before.                                           *)
LEMMA RestingKeyed == ASSUME TypeOK, Keyed, Unattended PROVE Keyed'
<1>0. Astray' = Astray
  BY DEF Unattended, drillVars, Astray
<1>1. ASSUME Tick, Prompt PROVE Keyed'
  <2> SUFFICES ASSUME NEW n \in Node, role[n] \in {"elected", "primary"}, n \notin Astray
               PROVE  leader' = n
    BY <1>0, <1>1 DEF Keyed, Tick
  <2>1. leader = n /\ ~(Frozen /\ n = old)
    BY DEF Keyed, Astray, Frozen
  <2>2. lease > Margin
    BY <1>1, <2>1 DEF Prompt, Margin
  <2>3. lease' > 0
    BY <1>1, <2>2, Halves DEF Tick, TypeOK
  <2> QED
    BY <1>1, <2>1, <2>3 DEF Tick
<1>2. ASSUME NEW n \in Node, Renew(n) \/ Elect(n) PROVE Keyed'
  <2>1. leader \in {n, NoNode} /\ leader' = n
    BY <1>2 DEF Renew, Elect
  <2>2. \A m \in Node \ {n} : role'[m] = role[m]
    BY <1>2 DEF Renew, Elect, TypeOK
  <2> QED
    BY <1>0, <2>1, <2>2, ClusterAssumption DEF Keyed
<1>3. ASSUME NEW n \in Node, Demote(n) \/ Promote(n) PROVE Keyed'
  <2>1. /\ leader' = leader /\ role[n] \in {"elected", "primary"}
        /\ \A m \in Node \ {n} : role'[m] = role[m]
    BY <1>3 DEF Demote, Promote, Become, dcsVars, TypeOK
  <2> QED
    BY <1>0, <2>1 DEF Keyed
<1>4. ASSUME UNCHANGED <<role, leader>> PROVE Keyed'
  BY <1>0, <1>4 DEF Keyed
<1>5. ASSUME NEW n \in Node, Manage(n) PROVE Keyed'
  BY <1>2, <1>3, <1>4, <1>5
     DEF Manage, Feed, Withdraw, Publish, Name, Rejoin, nodeVars, dcsVars
<1>6. ASSUME NEW n \in Node, \/ \E c \in Command : Write(n, c) \/ Confirm(n, c)
                             \/ \E p \in Node : Follow(n, p)
      PROVE  Keyed'
  BY <1>4, <1>6 DEF Write, Confirm, Follow, nodeVars, dcsVars
<1> QED
  BY <1>1, <1>5, <1>6 DEF Unattended

LEMMA RestingDrill ==
  ASSUME TypeOK, Ranked, DrillInv, Unattended
  PROVE  DrillInv'
<1>0. /\ UNCHANGED <<drill, phase, old, kept, watchdog, cut, quorum, faults>>
      /\ confirmed \subseteq confirmed'
      /\ \A n \in Node : role[n] = "down" => role'[n] = "down"
      /\ \A n \in Node : role'[n] = "primary" /\ role[n] # "primary" => Promote(n)
      /\ confirmed' # confirmed => \E n \in Node, c \in Command : Confirm(n, c)
  BY RestingStill
<1>o. old \in Node
  BY DEF DrillInv, Scripted
<1>1. Scripted'
  BY <1>0 DEF DrillInv, Scripted
<1>2. Bereft'
  <2> SUFFICES ASSUME drill = "replicas" PROVE Bereft'
    BY <1>0 DEF Bereft
  <2>1. phase = "killing" => faults' # 0 /\ \E n \in Node \ {old} : role'[n] = "down"
    BY <1>0 DEF DrillInv, Bereft
  <2>2. phase \in {"waiting", "blocked"} => \A n \in Node \ {old} : role'[n] = "down"
    BY <1>0 DEF DrillInv, Bereft
  <2>3. ASSUME phase = "blocked", confirmed' # confirmed PROVE FALSE
    <3>1. PICK n \in Node, c \in Command : Confirm(n, c)
      BY <1>0, <2>3
    <3>2. /\ role[n] = "primary" /\ standby[n] \in Node
          /\ source[standby[n]] = n /\ role[standby[n]] \in {"replica", "elected"}
      BY <3>1 DEF Confirm, Streams, TypeOK
    <3>3. \A m \in Node \ {old} : role[m] = "down"
      BY <2>3 DEF DrillInv, Bereft
    <3> QED
      BY <3>2, <3>3
  <2> QED
    BY <1>0, <2>1, <2>2, <2>3 DEF DrillInv, Bereft
<1>3. Dark'
  <2> SUFFICES ASSUME drill = "quorum" PROVE Dark'
    BY <1>0 DEF Dark
  <2>1. ASSUME phase = "dark" PROVE Primaries' = {} /\ confirmed' = confirmed
    <3>1. Primaries = {} /\ ~quorum
      BY <2>1 DEF DrillInv, Dark
    <3>2. \A n \in Node : ~Promote(n)
      BY <3>1 DEF Promote, Reaches
    <3>3. \A n \in Node, c \in Command : ~Confirm(n, c)
      BY <3>1 DEF Confirm, Primaries
    <3> QED
      BY <1>0, <3>1, <3>2, <3>3 DEF Primaries
  <2> QED
    BY <1>0, <2>1 DEF DrillInv, Dark
<1>4. Keyed'
  BY <1>0, RestingKeyed DEF DrillInv, drillVars
<1> QED
  BY <1>1, <1>2, <1>3, <1>4 DEF DrillInv

-----------------------------------------------------------------------------
(* What the scripts do. *)

(* No step of a script confirms an order, or brings it back to its start.  *)
LEMMA ScriptStep ==
  ASSUME TypeOK, DrillInv,
         Failover \/ ReplicasLost \/ QuorumLost \/ Partitioned \/ FrozenManager
  PROVE  /\ UNCHANGED <<drill, old, watchdog, confirmed>>
         /\ phase' # "ready"
         /\ kept' \in {kept, confirmed}
         /\ Scripted' /\ Keyed'
<1> USE DEF Kill, Start, Isolate, Reconnect, LoseQuorum, RegainQuorum,
            dcsVars, nodeVars, dataVars, faultVars, vars
<1>1. /\ UNCHANGED <<drill, old, watchdog, confirmed>>
      /\ phase' # "ready"
      /\ kept' \in {kept, confirmed}
      /\ phase' = "blocked" => drill = "replicas"
      /\ phase' = "dark" => drill = "quorum"
  <2>1. CASE Failover
    BY <2>1 DEF Failover, Act, Await
  <2>2. CASE ReplicasLost
    BY <2>2 DEF ReplicasLost, Act, Await
  <2>3. CASE QuorumLost
    BY <2>3 DEF QuorumLost, Act, Await
  <2>4. CASE Partitioned
    BY <2>4 DEF Partitioned, Act, Await
  <2>5. CASE FrozenManager
    BY <2>5 DEF FrozenManager, Act, Await
  <2> QED
    BY <2>1, <2>2, <2>3, <2>4, <2>5
<1>2. /\ leader' = leader
      /\ \A n \in Node : role'[n] \in {"elected", "primary"} => role'[n] = role[n]
  <2> USE DEF Act, Await, Stop, Become, TypeOK
  <2>1. CASE Failover
    BY <2>1 DEF Failover
  <2>2. CASE ReplicasLost
    BY <2>2 DEF ReplicasLost
  <2>3. CASE QuorumLost
    BY <2>3 DEF QuorumLost
  <2>4. CASE Partitioned
    BY <2>4 DEF Partitioned
  <2>5. CASE FrozenManager
    BY <2>5 DEF FrozenManager
  <2> QED
    BY <2>1, <2>2, <2>3, <2>4, <2>5
<1>3. Keyed'
  BY <1>1, <1>2 DEF DrillInv, Keyed, Astray
<1> QED
  BY <1>1, <1>3 DEF DrillInv, Scripted

(* Two replicas are killed, one after the other, and there is no third.    *)
ThreeNodes == \E i, j, k \in Node : Node = {i, j, k}

LEMMA KillBereft ==
  ASSUME ThreeNodes, TypeOK, DrillInv, drill = "replicas", NEW n \in Node \ {old}, Kill(n)
  PROVE  /\ faults' # 0 /\ role'[n] = "down"
         /\ phase = "killing" => \A m \in Node \ {old} : role'[m] = "down"
<1>1. /\ faults' = faults + 1 /\ role[n] # "down"
      /\ role' = [role EXCEPT ![n] = "down"]
  BY DEF Kill, Inject, Stop, Become
<1>2. faults' # 0 /\ role'[n] = "down"
  BY <1>1 DEF TypeOK
<1>3. ASSUME phase = "killing", NEW m \in Node \ {old} PROVE role'[m] = "down"
  <2>1. PICK k \in Node \ {old} : role[k] = "down"
    BY <1>3 DEF DrillInv, Bereft
  <2>2. m \in {k, n}
    BY <1>1, <2>1 DEF ThreeNodes, DrillInv, Scripted
  <2> QED
    BY <1>1, <2>1, <2>2 DEF TypeOK
<1> QED
  BY <1>2, <1>3

LEMMA ReplicasDrill == ASSUME ThreeNodes, TypeOK, DrillInv, ReplicasLost PROVE DrillInv'
<1>0. /\ drill = "replicas" /\ drill' = drill /\ old' = old /\ phase' # "ready"
      /\ Scripted' /\ Keyed'
  BY ScriptStep DEF ReplicasLost
<1>1. Dark'
  BY <1>0 DEF Dark
<1>2. Bereft'
  <2>1. ASSUME NEW n \in Node \ {old}, faults = 0, Act("ready", "killing"), Kill(n)
        PROVE  Bereft'
    BY <1>0, <2>1, KillBereft DEF Bereft, Act
  <2>2. ASSUME NEW n \in Node \ {old}, Act("killing", "waiting"), Kill(n)
        PROVE  Bereft'
    BY <1>0, <2>2, KillBereft DEF Bereft, Act
  <2>3. CASE Await("waiting", Unreplicated, "blocked")
    BY <1>0, <2>3 DEF Bereft, Await, DrillInv, vars, nodeVars, dataVars
  <2>4. CASE phase' \notin {"killing", "waiting", "blocked"}
    BY <1>0, <2>4 DEF Bereft
  <2>5. ASSUME NEW n \in Node \ {old}, faults # 0, Act("ready", "killing"), Kill(n)
        PROVE  FALSE
    BY <2>5 DEF Act, DrillInv, Scripted
  <2> QED
    BY <2>1, <2>2, <2>3, <2>4, <2>5 DEF ReplicasLost, Act, Await
<1> QED
  BY <1>0, <1>1, <1>2 DEF DrillInv

LEMMA QuorumDrill == ASSUME TypeOK, DrillInv, QuorumLost PROVE DrillInv'
<1>0. drill = "quorum" /\ drill' = drill /\ old' = old /\ Scripted' /\ Keyed'
  BY ScriptStep DEF QuorumLost
<1>1. Bereft'
  BY <1>0 DEF Bereft
<1>2. Dark'
  <2>1. CASE Act("ready", "waiting") /\ LoseQuorum
    BY <2>1 DEF Act, LoseQuorum, Dark
  <2>2. CASE Await("waiting", Primaries = {}, "dark")
    BY <1>0, <2>2 DEF Await, Dark, DrillInv, Primaries, vars, nodeVars, dataVars, faultVars
  <2>3. CASE phase' \notin {"waiting", "dark"}
    BY <2>3 DEF Dark
  <2> QED
    BY <2>1, <2>2, <2>3 DEF QuorumLost, Act, Await
<1> QED
  BY <1>0, <1>1, <1>2 DEF DrillInv

(* The others break nothing that Bereft or Dark speak of.                  *)
LEMMA OtherDrills ==
  ASSUME TypeOK, DrillInv, Failover \/ Partitioned \/ FrozenManager
  PROVE  DrillInv'
<1>1. /\ drill \in {"failover", "partition", "freeze"} /\ drill' = drill
      /\ Scripted' /\ Keyed'
  BY ScriptStep DEF Failover, Partitioned, FrozenManager
<1> QED
  BY <1>1 DEF DrillInv, Bereft, Dark

LEMMA NextDrill ==
  ThreeNodes /\ TypeOK /\ Ranked /\ DrillInv /\ [DrillNext]_<<vars, drillVars>> => DrillInv'
<1> SUFFICES ASSUME ThreeNodes, TypeOK, Ranked, DrillInv, [DrillNext]_<<vars, drillVars>>
             PROVE  DrillInv'
  OBVIOUS
<1>1. CASE UNCHANGED <<vars, drillVars>>
  BY <1>1 DEF DrillInv, Scripted, Bereft, Dark, Keyed, Astray, Primaries,
              vars, drillVars, nodeVars, dcsVars, dataVars, faultVars
<1> QED
  BY <1>1, RestingDrill, ReplicasDrill, QuorumDrill, OtherDrills DEF DrillNext

-----------------------------------------------------------------------------
(* Every assertion of the drills: a primary that is not astray holds the   *)
(* key, so that there is one, and it has every confirmed order.            *)
LEMMA DrillAsserts == TypeOK /\ KeptInv /\ DrillInv => DrillsPass
<1> SUFFICES ASSUME TypeOK, KeptInv, DrillInv PROVE DrillsPass
  OBVIOUS
<1>0. \A p \in Primaries \ Astray : p \in Node /\ leader = p
  BY DEF DrillInv, Keyed, Primaries
<1>1. RowsKept
  BY <1>0 DEF RowsKept, KeptInv, Sound, DrillInv, Scripted
<1>2. NothingAcknowledged
  BY DEF NothingAcknowledged, DrillInv, Scripted, Bereft, Dark
<1>3. ASSUME Severed PROVE FencedInTime
  <2>1. Astray = {}
    BY <1>3 DEF Severed, Astray
  <2>2. role[old] = "primary" => leader = old
    BY <1>0, <2>1 DEF Primaries, DrillInv, Scripted
  <2>3. CASE Primaries = {}
    BY <2>2, <2>3, FS_EmptySet DEF FencedInTime
  <2>4. ASSUME NEW p \in Primaries PROVE FencedInTime
    <3>1. Primaries = {p}
      BY <1>0, <2>1
    <3>2. Cardinality(Primaries) = 1
      BY <3>1, FS_Singleton
    <3> QED
      BY <2>2, <3>2 DEF FencedInTime
  <2> QED
    BY <2>3, <2>4
<1> QED
  BY <1>1, <1>2, <1>3 DEF DrillsPass

(* As the drills run, without watchdog, none that passes sees what it does *)
(* not expect, whenever it looks: the primary has every order acknowledged *)
(* when the phase began, nothing is acknowledged without a replica or a    *)
(* majority, and a primary that is cut off is read-only within its lease   *)
(* and never one of two. For every lease and three data nodes              *)
(* (ha-auto-process-freeze.mjs haDataNodes), as long as managers that run  *)
(* renew within half a lease. The fencing of a frozen one is not claimed.  *)
THEOREM DrillsHold ==
  ASSUME ThreeNodes
  PROVE  DrillSpec => []DrillsPass /\ []DrillsStand
<1>1. DrillInit => TypeOK /\ Ranked /\ KeptInv /\ DrillInv
  BY DrillIsCluster, InitType, InitRanked, InitKept, InitDrill
<1>2. TypeOK /\ Ranked /\ KeptInv /\ DrillInv /\ [DrillNext]_<<vars, drillVars>>
      => (TypeOK /\ Ranked /\ KeptInv /\ DrillInv)'
  <2>1. DrillInv /\ [DrillNext]_<<vars, drillVars>> => [Next]_vars
    BY StepIsCluster DEF DrillInv
  <2> QED
    BY <2>1, NextType, NextRanked, NextKept, NextDrill
<1>3. TypeOK /\ KeptInv /\ DrillInv => DrillsPass /\ DrillsStand
  BY DrillAsserts DEF DrillsStand
<1> QED
  BY <1>1, <1>2, <1>3, PTL DEF DrillSpec

-----------------------------------------------------------------------------
(***************************************************************************)
(* The pages. A request keeps its sender and its command; what changes of  *)
(* it is its reply and whether it is open.                                 *)
(***************************************************************************)
Sendings == [gen : 0..MaxMounts, token : Nat, account : Account, cmd : PageCommand,
             key : 1..MaxSends, reply : P!Replies, open : BOOLEAN]

KeptOf(i) == [cmd |-> sent[i].cmd, key |-> sent[i].key]

Standing(i) ==
  /\ sent'[i].gen = sent[i].gen /\ sent'[i].token = sent[i].token
  /\ sent'[i].account = sent[i].account
  /\ sent'[i].cmd = sent[i].cmd /\ sent'[i].key = sent[i].key
  /\ sent'[i].open => sent[i].open

Noted(i) ==
  /\ sent' \in Seq(Sendings) /\ Len(sent') = Len(sent) /\ DOMAIN sent' = DOMAIN sent
  /\ \A j \in DOMAIN sent : Standing(j)
  /\ \A j \in DOMAIN sent \ {i} : sent'[j] = sent[j]

LEMMA SentType == P!TypeOK => sent \in Seq(Sendings) /\ DOMAIN sent = 1..Len(sent)
BY DEF P!TypeOK, P!Key, Sendings

LEMMA RowNoted ==
  ASSUME P!TypeOK, NEW i \in DOMAIN sent, NEW r \in Sendings,
         sent' = [sent EXCEPT ![i] = r],
         r.gen = sent[i].gen, r.token = sent[i].token, r.account = sent[i].account,
         r.cmd = sent[i].cmd, r.key = sent[i].key, r.open => sent[i].open
  PROVE  Noted(i) /\ sent'[i] = r
<1>1. sent \in Seq(Sendings) /\ DOMAIN sent = 1..Len(sent)
  BY SentType
<1>2. sent' \in Seq(Sendings) /\ Len(sent') = Len(sent) /\ DOMAIN sent' = DOMAIN sent
  BY <1>1
<1>3. sent'[i] = r /\ \A j \in DOMAIN sent \ {i} : sent'[j] = sent[j]
  BY <1>1
<1>4. \A j \in DOMAIN sent : Standing(j)
  BY <1>1, <1>3 DEF Standing
<1> QED
  BY <1>2, <1>3, <1>4 DEF Noted

LEMMA CloseNoted ==
  ASSUME P!TypeOK, NEW i \in DOMAIN sent, P!Close(i)
  PROVE  Noted(i) /\ ~sent'[i].open
<1>1. sent[i] \in Sendings
  BY SentType
<1>2. PICK r : r = [sent[i] EXCEPT !.open = FALSE]
  OBVIOUS
<1>3. /\ r \in Sendings /\ ~r.open
      /\ r.gen = sent[i].gen /\ r.token = sent[i].token /\ r.account = sent[i].account
      /\ r.cmd = sent[i].cmd /\ r.key = sent[i].key
  BY <1>1, <1>2 DEF Sendings
<1>4. sent' = [sent EXCEPT ![i] = r]
  BY <1>2, Zenon DEF P!Close
<1> QED
  BY <1>3, <1>4, RowNoted

LEMMA ReplyNoted ==
  ASSUME P!TypeOK, NEW i \in DOMAIN sent, NEW reply \in P!Replies, P!Reply(i, reply)
  PROVE  Noted(i)
<1>1. sent[i] \in Sendings
  BY SentType
<1>2. PICK r : r = [sent[i] EXCEPT !.reply = reply]
  OBVIOUS
<1>3. /\ r \in Sendings /\ r.open = sent[i].open
      /\ r.gen = sent[i].gen /\ r.token = sent[i].token /\ r.account = sent[i].account
      /\ r.cmd = sent[i].cmd /\ r.key = sent[i].key
  BY <1>1, <1>2 DEF Sendings
<1>4. sent' = [sent EXCEPT ![i] = r]
  BY <1>2, Zenon DEF P!Reply
<1> QED
  BY <1>3, <1>4, RowNoted

-----------------------------------------------------------------------------
(* The kinds of step of the hook. *)

Books == <<answered, givenUp>>

(* A new owner, with what the account it is for has saved.                 *)
Renews ==
  /\ owner.gen < MaxMounts
  /\ owner' = [gen |-> owner.gen + 1, account |-> view', busy |-> FALSE,
               pending |-> IF view' = None THEN None ELSE saved[view']]
  /\ view' \in Account \cup {None} /\ token' \in Nat
  /\ UNCHANGED <<saved, storage, Books>>
  /\ sent' = sent \/ \E i \in DOMAIN sent : Noted(i)

(* A request is answered, or closed without an outcome.                    *)
Notes(i) ==
  /\ Noted(i)
  /\ \/ owner' = owner
     \/ owner.gen = sent[i].gen /\ sent[i].open /\ ~sent'[i].open
        /\ owner' = [owner EXCEPT !.busy = FALSE]
  /\ UNCHANGED <<view, token, saved, storage, Books>>

(* The owner that sent a request learns its outcome.                       *)
Decides(i) ==
  /\ Noted(i)
  /\ sent[i].open /\ ~sent'[i].open /\ P!IsCurrent(i)
  /\ P!Drop /\ P!Save(view, None)
  /\ answered' \cup givenUp' = answered \cup givenUp \cup {sent[i].key}
  /\ answered' \subseteq answered \cup {sent[i].key}
  /\ givenUp' \subseteq givenUp \cup {sent[i].key}
  /\ UNCHANGED <<view, token, storage>>

HookSorted ==
  \/ Renews
  \/ \E i \in DOMAIN sent : Notes(i) \/ Decides(i)
  \/ \E cmd \in PageCommand : P!Run(cmd)
  \/ UNCHANGED <<view, token, owner, saved, storage, sent, Books>>

LEMMA HookSteps == ASSUME P!TypeOK, [P!Next]_(P!vars) PROVE HookSorted
<1> USE DEF Books
<1>v. view \in Account \cup {None} /\ token \in Nat /\ token + 1 \in Nat
  BY DEF P!TypeOK
<1>1. CASE UNCHANGED P!vars
  BY <1>1 DEF P!vars, HookSorted
<1>2. CASE P!Remount
  BY <1>2, <1>v DEF P!Remount, P!ResetOwner, Renews, HookSorted
<1>3. CASE P!SignOut
  BY <1>3, <1>v DEF P!SignOut, P!ResetOwner, Renews, HookSorted
<1>4. ASSUME NEW a \in Account, P!SignIn(a) PROVE HookSorted
  BY <1>4, <1>v DEF P!SignIn, P!ResetOwner, Renews, HookSorted
<1>5. ASSUME NEW i \in DOMAIN sent, P!Invalidate(i) PROVE HookSorted
  BY <1>5, <1>v, CloseNoted DEF P!Invalidate, P!ResetOwner, Renews, HookSorted
<1>6. ASSUME NEW i \in DOMAIN sent, P!Ignore(i) \/ P!Doubt(i) PROVE HookSorted
  BY <1>6, CloseNoted DEF P!Ignore, P!Doubt, P!Idle, Notes, HookSorted
<1>7. ASSUME NEW i \in DOMAIN sent, P!Server(i) PROVE HookSorted
  <2>1. PICK reply \in P!Replies : P!Reply(i, reply)
    BY <1>7 DEF P!Server, P!Carry, P!Refuse, P!Reject, P!Fail, P!Replies
  <2> QED
    BY <1>7, <2>1, ReplyNoted DEF P!Server, Notes, HookSorted
<1>8. ASSUME NEW i \in DOMAIN sent, P!Succeed(i) \/ P!GiveUp(i) PROVE HookSorted
  BY <1>8, CloseNoted DEF P!Succeed, P!GiveUp, Decides, HookSorted
<1>9. ASSUME NEW cmd \in PageCommand, P!Run(cmd) PROVE HookSorted
  BY <1>9 DEF HookSorted
<1> QED
  BY <1>1, <1>2, <1>3, <1>4, <1>5, <1>6, <1>7, <1>8, <1>9 DEF P!Next, P!Browser

-----------------------------------------------------------------------------
(* The types of the hook. *)

Owners == [gen : 0..MaxMounts, account : Account \cup {None},
           pending : P!Pending \cup {None}, busy : BOOLEAN]

(* A run sends the command the owner has pending, or one with a fresh key. *)
RunsWith(cmd, command) ==
  /\ command \in P!Pending /\ command.cmd = cmd
  /\ command = (IF owner.pending # None THEN owner.pending ELSE [cmd |-> cmd, key |-> Len(sent) + 1])
  /\ view \in Account /\ owner.account = view /\ ~owner.busy /\ Len(sent) < MaxSends
  /\ owner' = [gen |-> owner.gen, account |-> owner.account, pending |-> command, busy |-> TRUE]
  /\ P!Save(view, command)
  /\ sent' = Append(sent, [gen |-> owner.gen, token |-> token, account |-> view,
                           cmd |-> cmd, key |-> command.key, reply |-> "wire", open |-> TRUE])
  /\ UNCHANGED <<view, token, storage, Books>>

LEMMA RunRuns ==
  ASSUME P!TypeOK, NEW cmd \in PageCommand, P!Run(cmd)
  PROVE  \E command : RunsWith(cmd, command)
<1>1. view \in Account /\ owner.account = view /\ ~owner.busy /\ Len(sent) < MaxSends
  BY DEF P!TypeOK, P!Run
<1>2. Len(sent) + 1 \in 1..MaxSends
  BY <1>1, SentType, EndsAssumption
<1>3. PICK command :
        command = IF owner.pending # None THEN owner.pending ELSE [cmd |-> cmd, key |-> Len(sent) + 1]
  OBVIOUS
<1>4. command \in P!Pending /\ command.cmd = cmd
  BY <1>2, <1>3 DEF P!TypeOK, P!Run, P!Pending, P!Key
<1>5. P!NewKey = Len(sent) + 1
  BY <1>2, SentType DEF P!NewKey
<1>6. /\ owner' = [owner EXCEPT !.busy = TRUE, !.pending = command]
      /\ P!Save(view, command)
      /\ sent' = Append(sent, [gen |-> owner.gen, token |-> token, account |-> view,
                               cmd |-> cmd, key |-> command.key, reply |-> "wire", open |-> TRUE])
      /\ UNCHANGED <<view, token, storage, effects, givenUp, answered>>
  BY <1>3, <1>5, Zenon DEF P!Run
<1>7. owner' = [gen |-> owner.gen, account |-> owner.account, pending |-> command, busy |-> TRUE]
  <2>1. owner \in Owners
    BY DEF P!TypeOK, Owners
  <2> QED
    BY <1>6, <2>1 DEF Owners
<1> QED
  BY <1>1, <1>3, <1>4, <1>6, <1>7 DEF RunsWith, Books

LEMMA SaveType ==
  ASSUME P!TypeOK, NEW a \in Account, NEW p \in P!Pending \cup {None}, P!Save(a, p)
  PROVE  /\ saved' \in [Account -> P!Pending \cup {None}]
         /\ storage => saved'[a] = p /\ \A b \in Account \ {a} : saved'[b] = saved[b]
         /\ ~storage => saved' = saved
BY DEF P!TypeOK, P!Save

LEMMA HookType ==
  ASSUME P!TypeOK, HookSorted, effects' \subseteq P!Key
  PROVE  P!TypeOK'
<1> USE DEF Books
<1>0. /\ view \in Account \cup {None} /\ token \in Nat /\ owner \in Owners
      /\ owner.account = view /\ storage \in BOOLEAN
      /\ saved \in [Account -> P!Pending \cup {None}]
      /\ sent \in Seq(Sendings)
      /\ givenUp \subseteq P!Key /\ answered \subseteq P!Key
  BY SentType DEF P!TypeOK, Owners
<1>s. ASSUME /\ view' \in Account \cup {None} /\ token' \in Nat /\ owner' \in Owners
             /\ owner'.account = view' /\ storage' \in BOOLEAN
             /\ saved' \in [Account -> P!Pending \cup {None}]
             /\ sent' \in Seq(Sendings)
             /\ givenUp' \subseteq P!Key /\ answered' \subseteq P!Key
      PROVE  P!TypeOK'
  BY <1>s DEF P!TypeOK, Owners, Sendings, P!Key
<1>1. CASE Renews
  <2>1. owner.gen + 1 \in 0..MaxMounts
    BY <1>0, <1>1, EndsAssumption DEF Renews, Owners
  <2>2. (IF view' = None THEN None ELSE saved[view']) \in P!Pending \cup {None}
    BY <1>0, <1>1 DEF Renews
  <2>3. owner' \in Owners /\ owner'.account = view'
    BY <1>1, <2>1, <2>2 DEF Renews, Owners
  <2>4. sent' \in Seq(Sendings)
    BY <1>0, <1>1 DEF Renews, Noted
  <2> QED
    BY <1>0, <1>1, <1>s, <2>3, <2>4 DEF Renews
<1>2. ASSUME NEW i \in DOMAIN sent, Notes(i) PROVE P!TypeOK'
  <2>1. owner' \in Owners /\ owner'.account = owner.account
    BY <1>0, <1>2 DEF Notes, Owners
  <2> QED
    BY <1>0, <1>2, <1>s, <2>1 DEF Notes, Noted
<1>3. ASSUME NEW i \in DOMAIN sent, Decides(i) PROVE P!TypeOK'
  <2>1. owner' \in Owners /\ owner'.account = owner.account
    BY <1>0, <1>3 DEF Decides, P!Drop, Owners
  <2>2. sent[i] \in Sendings
    BY <1>0
  <2>3. view \in Account /\ sent[i].key \in P!Key
    BY <1>3, <2>2 DEF Decides, P!IsCurrent, Sendings, P!Key
  <2>4. saved' \in [Account -> P!Pending \cup {None}]
    BY <1>3, <2>3, SaveType DEF Decides
  <2> QED
    BY <1>0, <1>3, <1>s, <2>1, <2>3, <2>4 DEF Decides, Noted
<1>4. ASSUME NEW cmd \in PageCommand, P!Run(cmd) PROVE P!TypeOK'
  <2>1. PICK command : RunsWith(cmd, command)
    BY <1>4, RunRuns
  <2>2. owner' \in Owners /\ owner'.account = owner.account
    BY <1>0, <2>1 DEF RunsWith, Owners
  <2>3. saved' \in [Account -> P!Pending \cup {None}]
    BY <2>1, SaveType DEF RunsWith
  <2>4. [gen |-> owner.gen, token |-> token, account |-> view, cmd |-> cmd,
         key |-> command.key, reply |-> "wire", open |-> TRUE] \in Sendings
    BY <1>0, <2>1 DEF RunsWith, Sendings, Owners, P!Pending, P!Key, P!Replies
  <2>5. sent' \in Seq(Sendings)
    BY <1>0, <2>1, <2>4 DEF RunsWith
  <2> QED
    BY <1>0, <1>s, <2>1, <2>2, <2>3, <2>5 DEF RunsWith
<1>5. CASE UNCHANGED <<view, token, owner, saved, storage, sent, Books>>
  BY <1>0, <1>5, <1>s
<1> QED
  BY <1>1, <1>2, <1>3, <1>4, <1>5 DEF HookSorted

LEMMA NextHookType == ASSUME P!TypeOK, [P!Next]_(P!vars) PROVE P!TypeOK'
<1>1. effects' \subseteq P!Key
  <2>0. effects \subseteq P!Key /\ \A i \in DOMAIN sent : sent[i].key \in P!Key
    <3>1. \A i \in DOMAIN sent : sent[i] \in Sendings
      BY SentType
    <3> QED
      BY <3>1 DEF P!TypeOK, Sendings, P!Key
  <2>1. ASSUME NEW i \in DOMAIN sent, P!Browser(i) \/ P!Server(i) PROVE effects' \subseteq P!Key
    BY <2>0, <2>1 DEF P!Browser, P!Succeed, P!GiveUp, P!Ignore, P!Doubt, P!Invalidate,
                      P!Server, P!Carry, P!Refuse, P!Reject, P!Fail
  <2>2. CASE P!Remount \/ P!SignOut \/ (\E a \in Account : P!SignIn(a))
             \/ (\E cmd \in PageCommand : P!Run(cmd)) \/ UNCHANGED P!vars
    BY <2>0, <2>2 DEF P!Remount, P!SignOut, P!SignIn, P!Run, P!vars
  <2> QED
    BY <2>1, <2>2 DEF P!Next
<1> QED
  BY <1>1, HookSteps, HookType

LEMMA InitHookType == P!Init => P!TypeOK
<1> SUFFICES ASSUME P!Init PROVE P!TypeOK
  OBVIOUS
<1>1. 0 \in 0..MaxMounts
  BY EndsAssumption
<1> QED
  BY <1>1 DEF P!Init, P!TypeOK

-----------------------------------------------------------------------------
(* A command of unknown outcome. The owner has what its account has saved; *)
(* a request belongs to the current owner or to an earlier one, and while  *)
(* one of the current owner is open, it is the only one, the owner is busy *)
(* with it and has its command.                                            *)
Current(i) == sent[i].gen = owner.gen

Mine(i) ==
  /\ sent[i].account = view
  /\ sent[i].open => owner.busy /\ owner.pending = KeptOf(i)

DoubtInv ==
  /\ storage /\ view # None => owner.pending = saved[view]
  /\ \A i \in DOMAIN sent : sent[i].gen <= owner.gen
  /\ \A i \in DOMAIN sent : Current(i) => Mine(i)
  /\ \A i, j \in DOMAIN sent :
       Current(i) /\ sent[i].open /\ Current(j) /\ sent[j].open => i = j
  /\ P!DoubtKept

(* DoubtKept of one request.                                               *)
InDoubt(i) ==
  sent[i].key \notin answered \cup givenUp =>
    IF storage THEN saved[sent[i].account] = KeptOf(i)
               ELSE Current(i) => owner.pending = KeptOf(i)

LEMMA DoubtEach == P!DoubtKept <=> \A i \in DOMAIN sent : InDoubt(i)
BY DEF P!DoubtKept, P!Undecided, InDoubt, Current, KeptOf

LEMMA StandingSame ==
  ASSUME NEW i, Standing(i)
  PROVE  KeptOf(i)' = KeptOf(i)
BY DEF Standing, KeptOf

LEMMA KeptNotNone ==
  ASSUME P!TypeOK, NEW i \in DOMAIN sent
  PROVE  /\ KeptOf(i) # None /\ sent[i].account \in Account
         /\ sent[i].gen \in 0..MaxMounts /\ owner.gen \in 0..MaxMounts
<1>1. sent[i] \in Sendings
  BY SentType
<1>2. KeptOf(i) \in [cmd : PageCommand, key : 1..MaxSends]
  BY <1>1 DEF KeptOf, Sendings
<1> QED
  BY <1>1, <1>2, EndsAssumption DEF Sendings, P!TypeOK

LEMMA RenewsDoubt ==
  ASSUME P!TypeOK, P!TypeOK', DoubtInv, Renews
  PROVE  DoubtInv'
<1>0. DOMAIN sent' = DOMAIN sent /\ \A i \in DOMAIN sent : Standing(i)
  BY DEF Renews, Noted, Standing
<1>1. owner'.gen = owner.gen + 1 /\ (view' # None => owner'.pending = saved'[view'])
  BY DEF Renews
<1>2. \A i \in DOMAIN sent : sent'[i].gen = sent[i].gen /\ sent[i].gen < owner'.gen
  BY <1>0, <1>1, KeptNotNone DEF Standing, DoubtInv
<1>3. \A i \in DOMAIN sent : ~Current(i)' /\ sent'[i].gen <= owner'.gen
  <2>1. ASSUME NEW i \in DOMAIN sent PROVE ~Current(i)' /\ sent'[i].gen <= owner'.gen
    BY <1>1, <1>2, KeptNotNone DEF Current
  <2> QED
    BY <2>1
<1>4. ASSUME NEW i \in DOMAIN sent PROVE InDoubt(i)'
  BY <1>0, <1>3, DoubtEach, StandingSame DEF DoubtInv, InDoubt, Standing, Renews, Books
<1>5. P!DoubtKept'
  BY <1>0, <1>4 DEF P!DoubtKept, P!Undecided, InDoubt, Current, KeptOf
<1> QED
  BY <1>0, <1>1, <1>3, <1>5 DEF DoubtInv

LEMMA NotesDoubt ==
  ASSUME P!TypeOK, P!TypeOK', DoubtInv, NEW n \in DOMAIN sent, Notes(n)
  PROVE  DoubtInv'
<1>0. DOMAIN sent' = DOMAIN sent /\ \A i \in DOMAIN sent : Standing(i) /\ KeptOf(i)' = KeptOf(i)
  BY StandingSame DEF Notes, Noted
<1>1. owner'.gen = owner.gen /\ owner'.pending = owner.pending
  BY DEF Notes, P!TypeOK
<1>2. ASSUME NEW i \in DOMAIN sent
      PROVE  Current(i)' = Current(i) /\ (sent'[i].open => sent[i].open) /\ InDoubt(i)'
  BY <1>0, <1>1, DoubtEach DEF Standing, Current, DoubtInv, InDoubt, Notes, Books
<1>3. ASSUME NEW i \in DOMAIN sent, Current(i)' PROVE Mine(i)'
  <2>1. Mine(i) /\ Current(i)
    BY <1>2, <1>3 DEF DoubtInv
  <2>2. ASSUME sent'[i].open PROVE owner'.busy
    <3>1. sent[i].open /\ owner.busy
      BY <1>2, <2>1, <2>2 DEF Mine
    <3>2. CASE owner' = owner
      BY <3>1, <3>2
    <3>3. CASE owner.gen = sent[n].gen /\ sent[n].open /\ ~sent'[n].open
      <4>1. i = n
        BY <2>1, <3>1, <3>3 DEF DoubtInv, Current
      <4> QED
        BY <2>2, <3>3, <4>1
    <3> QED
      BY <3>2, <3>3 DEF Notes
  <2> QED
    BY <1>0, <1>1, <1>2, <2>1, <2>2 DEF Mine, Standing, Notes
<1>4. \A i \in DOMAIN sent : sent'[i].gen <= owner'.gen
  BY <1>0, <1>1 DEF DoubtInv, Standing
<1>5. storage' /\ view' # None => owner'.pending = saved'[view']
  BY <1>1 DEF DoubtInv, Notes
<1>6. P!DoubtKept'
  BY <1>0, <1>2 DEF P!DoubtKept, P!Undecided, InDoubt, Current, KeptOf
<1> QED
  BY <1>0, <1>2, <1>3, <1>4, <1>5, <1>6 DEF DoubtInv

(* The outcome of one request decides every request with the same key, and *)
(* no other of that owner was in doubt.                                    *)
LEMMA DecidesDoubt ==
  ASSUME P!TypeOK, P!TypeOK', DoubtInv, NEW n \in DOMAIN sent, Decides(n)
  PROVE  DoubtInv'
<1>0. DOMAIN sent' = DOMAIN sent /\ \A i \in DOMAIN sent : Standing(i) /\ KeptOf(i)' = KeptOf(i)
  BY StandingSame DEF Decides, Noted
<1>1. owner'.gen = owner.gen /\ owner'.pending = None
  BY DEF Decides, P!Drop, P!TypeOK
<1>2. Current(n) /\ view = sent[n].account /\ view \in Account /\ owner.pending = KeptOf(n)
  BY KeptNotNone DEF Decides, P!IsCurrent, Current, DoubtInv, Mine
<1>3. /\ storage => saved'[view] = None /\ \A b \in Account \ {view} : saved'[b] = saved[b]
      /\ ~storage => saved' = saved
  BY <1>2, SaveType DEF Decides
<1>4. ASSUME NEW i \in DOMAIN sent, Current(i)' PROVE Mine(i)'
  <2>1. Mine(i) /\ Current(i)
    BY <1>0, <1>1, <1>4 DEF DoubtInv, Standing, Current
  <2>2. ~sent'[i].open
    BY <1>0, <1>2, <2>1 DEF Decides, DoubtInv, Standing
  <2> QED
    BY <1>0, <2>1, <2>2 DEF Mine, Standing, Decides
<1>5. \A i \in DOMAIN sent : sent'[i].gen <= owner'.gen
  BY <1>0, <1>1 DEF DoubtInv, Standing
<1>6. storage' /\ view' # None => owner'.pending = saved'[view']
  BY <1>1, <1>2, <1>3 DEF Decides
<1>7. ASSUME NEW i \in DOMAIN sent, NEW j \in DOMAIN sent,
             Current(i)', sent'[i].open, Current(j)', sent'[j].open
      PROVE  i = j
  BY <1>0, <1>1, <1>7 DEF DoubtInv, Standing, Current
<1>8. ASSUME NEW i \in DOMAIN sent PROVE InDoubt(i)'
  <2> SUFFICES ASSUME sent'[i].key \notin answered' \cup givenUp'
               PROVE  IF storage' THEN saved'[sent'[i].account] = KeptOf(i)'
                                  ELSE Current(i)' => owner'.pending = KeptOf(i)'
    BY DEF InDoubt
  <2>1. InDoubt(i) /\ sent[i].key \notin answered \cup givenUp /\ sent[i].key # sent[n].key
    BY <1>0, DoubtEach DEF DoubtInv, Decides, Standing
  <2>2. KeptOf(i) # KeptOf(n)
    BY <2>1 DEF KeptOf
  <2>3. CASE storage
    <3>1. saved[sent[i].account] = KeptOf(i) /\ sent[i].account \in Account
      BY <2>1, <2>3, KeptNotNone DEF InDoubt
    <3>2. saved[view] = KeptOf(n)
      BY <1>2, <2>3, KeptNotNone, EndsAssumption DEF DoubtInv
    <3>3. sent[i].account # view
      BY <2>2, <3>1, <3>2
    <3> QED
      BY <1>0, <1>3, <2>3, <3>1, <3>3 DEF Standing, Decides
  <2>4. CASE ~storage
    <3>1. ~Current(i)
      BY <1>2, <2>1, <2>2, <2>4 DEF InDoubt
    <3> QED
      BY <1>0, <1>1, <2>4, <3>1 DEF Standing, Current, Decides
  <2> QED
    BY <2>3, <2>4, KeptNotNone DEF P!TypeOK
<1>9. P!DoubtKept'
  BY <1>0, <1>8 DEF P!DoubtKept, P!Undecided, InDoubt, Current, KeptOf
<1> QED
  BY <1>0, <1>4, <1>5, <1>6, <1>7, <1>9 DEF DoubtInv

(* A run sends what is in doubt, if anything of that account is.           *)
LEMMA RunDoubt ==
  ASSUME P!TypeOK, P!TypeOK', DoubtInv, NEW cmd \in PageCommand, NEW command,
         RunsWith(cmd, command)
  PROVE  DoubtInv'
<1>n. PICK new : new = Len(sent) + 1
  OBVIOUS
<1>0. /\ Len(sent) \in Nat /\ DOMAIN sent = 1..Len(sent)
      /\ DOMAIN sent' = DOMAIN sent \cup {new} /\ new \notin DOMAIN sent
      /\ \A i \in DOMAIN sent : sent'[i] = sent[i]
      /\ sent'[new] = [gen |-> owner.gen, token |-> token, account |-> view, cmd |-> cmd,
                       key |-> command.key, reply |-> "wire", open |-> TRUE]
  BY <1>n, SentType DEF RunsWith
<1>1. owner'.gen = owner.gen /\ owner'.pending = command /\ owner'.busy
  BY DEF RunsWith
<1>2. \A i \in DOMAIN sent : KeptOf(i)' = KeptOf(i) /\ Current(i)' = Current(i)
  BY <1>0, <1>1 DEF KeptOf, Current
<1>3. KeptOf(new)' = command /\ Current(new)'
  <2>1. command = [cmd |-> cmd, key |-> command.key]
    BY DEF RunsWith, P!Pending
  <2> QED
    BY <1>0, <1>1, <2>1 DEF KeptOf, Current
<1>4. /\ storage => saved'[view] = command /\ \A b \in Account \ {view} : saved'[b] = saved[b]
      /\ ~storage => saved' = saved
  BY SaveType DEF RunsWith
<1>5. \A i \in DOMAIN sent : Current(i) => ~sent[i].open
  BY DEF DoubtInv, Mine, RunsWith
<1>6. ASSUME NEW i \in DOMAIN sent', Current(i)' PROVE Mine(i)'
  <2>1. CASE i = new
    BY <1>0, <1>1, <1>3, <2>1 DEF Mine, RunsWith
  <2>2. CASE i \in DOMAIN sent
    <3>1. Mine(i) /\ ~sent'[i].open
      BY <1>0, <1>2, <1>5, <1>6, <2>2 DEF DoubtInv
    <3> QED
      BY <1>0, <2>2, <3>1 DEF Mine, RunsWith
  <2> QED
    BY <1>0, <2>1, <2>2
<1>7. \A i \in DOMAIN sent' : sent'[i].gen <= owner'.gen
  <2>1. owner.gen <= owner.gen
    BY DEF P!TypeOK
  <2> QED
    BY <1>0, <1>1, <2>1 DEF DoubtInv
<1>8. storage' /\ view' # None => owner'.pending = saved'[view']
  BY <1>1, <1>4 DEF RunsWith
<1>9. ASSUME NEW i \in DOMAIN sent', NEW j \in DOMAIN sent',
             Current(i)', sent'[i].open, Current(j)', sent'[j].open
      PROVE  i = j
  BY <1>0, <1>2, <1>5, <1>9
<1>10. ASSUME NEW i \in DOMAIN sent' PROVE InDoubt(i)'
  <2>1. CASE i = new
    <3>1. sent'[new].account = view
      BY <1>0
    <3> QED
      BY <1>1, <1>3, <1>4, <2>1, <3>1 DEF InDoubt, RunsWith
  <2>2. CASE i \in DOMAIN sent
    <3>0. InDoubt(i) /\ KeptOf(i) # None /\ sent[i].account \in Account
      BY <2>2, DoubtEach, KeptNotNone DEF DoubtInv
    <3> SUFFICES ASSUME sent[i].key \notin answered \cup givenUp
                 PROVE  IF storage THEN saved'[sent[i].account] = KeptOf(i)
                                   ELSE Current(i) => command = KeptOf(i)
      BY <1>0, <1>1, <1>2, <2>2 DEF InDoubt, RunsWith, Books
    <3>1. CASE storage
      <4>1. saved[sent[i].account] = KeptOf(i)
        BY <3>0, <3>1 DEF InDoubt
      <4>2. CASE sent[i].account = view
        <5>1. owner.pending = KeptOf(i)
          BY <3>1, <4>1, <4>2, EndsAssumption DEF DoubtInv, RunsWith
        <5> QED
          BY <1>4, <3>0, <3>1, <4>2, <5>1 DEF RunsWith
      <4>3. CASE sent[i].account # view
        BY <1>4, <3>0, <3>1, <4>1, <4>3
      <4> QED
        BY <4>2, <4>3
    <3>2. CASE ~storage
      BY <3>0, <3>2 DEF InDoubt, RunsWith
    <3> QED
      BY <3>1, <3>2
  <2> QED
    BY <1>0, <2>1, <2>2
<1>11. P!DoubtKept'
  BY <1>10 DEF P!DoubtKept, P!Undecided, InDoubt, Current, KeptOf
<1> QED
  BY <1>6, <1>7, <1>8, <1>9, <1>11 DEF DoubtInv

LEMMA InitDoubt == P!Init => DoubtInv
<1> SUFFICES ASSUME P!Init PROVE DoubtInv
  OBVIOUS
<1>1. DOMAIN sent = {}
  BY DEF P!Init
<1> QED
  BY <1>1 DEF P!Init, DoubtInv, P!DoubtKept

LEMMA NextDoubt == P!TypeOK /\ DoubtInv /\ [P!Next]_(P!vars) => DoubtInv'
<1> SUFFICES ASSUME P!TypeOK, DoubtInv, [P!Next]_(P!vars) PROVE DoubtInv'
  OBVIOUS
<1>1. P!TypeOK' /\ HookSorted
  BY NextHookType, HookSteps
<1>2. CASE UNCHANGED <<view, token, owner, saved, storage, sent, Books>>
  BY <1>2 DEF DoubtInv, P!DoubtKept, P!Undecided, Current, Mine, KeptOf, Books
<1>3. ASSUME NEW cmd \in PageCommand, P!Run(cmd) PROVE DoubtInv'
  BY <1>1, <1>3, RunRuns, RunDoubt
<1> QED
  BY <1>1, <1>2, <1>3, RenewsDoubt, NotesDoubt, DecidesDoubt DEF HookSorted

-----------------------------------------------------------------------------
(***************************************************************************)
(* The pages over the hook. A check is of the page that was opened with    *)
(* its mount, and a purchase that is still wanted finds its dialog open    *)
(* and its owner idle.                                                     *)
(***************************************************************************)
PageType ==
  /\ checks \subseteq P!Check
  /\ page \in {"cart", "listing", "order"}
  /\ mount \in Nat /\ mount <= owner.gen
  /\ dialog \in [open : BOOLEAN, gen : 0..MaxDialog]

OfPage(c) ==
  /\ c.mount <= owner.gen /\ c.gen <= dialog.gen
  /\ c.mount = mount =>
       \/ page = "cart" /\ c.kind = "cart"
       \/ page = "listing" /\ c.kind = "buy"

Wanted(c) == c.kind = "buy" /\ c.mount = mount /\ c.gen = dialog.gen

Same(c, d) == c.kind = d.kind /\ c.mount = d.mount /\ c.gen = d.gen

ChecksInv ==
  /\ \A c \in checks : OfPage(c)
  /\ \A c, d \in checks : Same(c, d) => c = d
  /\ \A c \in checks :
       Wanted(c) => dialog.open /\ ~owner.busy /\ owner.pending = None

(* Every key that is pending or saved was sent before.                     *)
KeysSent ==
  /\ owner.pending # None => owner.pending.key <= Len(sent)
  /\ \A a \in Account : saved[a] # None => saved[a].key <= Len(sent)

LEMMA PagesStep ==
  ASSUME P!TypeOK, PageType, [P!PagesNext]_(P!allVars)
  PROVE  [P!Next]_(P!vars)
<1>1. \A c \in checks : c.cmd \in PageCommand
  BY DEF PageType, P!Check
<1>2. owner.pending # None => owner.pending.cmd \in PageCommand
  BY DEF P!TypeOK, P!Pending
<1>3. CASE UNCHANGED P!allVars
  BY <1>3 DEF P!allVars
<1>4. ASSUME NEW p \in {"cart", "listing", "order"}, P!Visit(p) PROVE [P!Next]_(P!vars)
  BY <1>4 DEF P!Visit, P!Next
<1>5. ASSUME NEW l \in Line, P!Add(l) \/ P!Remove(l) PROVE [P!Next]_(P!vars)
  BY <1>5 DEF P!Add, P!Remove
<1>6. ASSUME NEW a \in Account, P!Account_(a) PROVE [P!Next]_(P!vars)
  BY <1>6 DEF P!Account_, P!Next
<1>7. CASE P!Toggle
  BY <1>7 DEF P!Toggle
<1>8. ASSUME NEW cmd \in PageCommand, P!Checkout(cmd) \/ P!Buy(cmd) PROVE [P!Next]_(P!vars)
  BY <1>8 DEF P!Checkout, P!Buy, P!Confirm
<1>9. ASSUME NEW cmd \in PageCommand, P!Act(cmd) PROVE [P!Next]_(P!vars)
  BY <1>9 DEF P!Act, P!Next
<1>10. ASSUME NEW c \in checks, P!Abandon(c) \/ P!Proceed(c) PROVE [P!Next]_(P!vars)
  BY <1>1, <1>10 DEF P!Abandon, P!Proceed, P!Next
<1>11. CASE P!RetryPending
  BY <1>2, <1>11 DEF P!RetryPending, P!Next
<1>12. ASSUME NEW i \in DOMAIN sent, P!Done(i) \/ P!Unseen(i) \/ P!Expelled(i)
       PROVE  [P!Next]_(P!vars)
  BY <1>12 DEF P!Done, P!Unseen, P!Expelled, P!Next, P!Browser
<1> QED
  BY <1>3, <1>4, <1>5, <1>6, <1>7, <1>8, <1>9, <1>10, <1>11, <1>12 DEF P!PagesNext

LEMMA NextKeys ==
  ASSUME P!TypeOK, KeysSent, HookSorted
  PROVE  KeysSent'
<1>0. /\ owner \in Owners /\ saved \in [Account -> P!Pending \cup {None}]
      /\ Len(sent) \in Nat
  BY SentType DEF P!TypeOK, Owners
<1>1. CASE Renews
  <2>1. Len(sent') = Len(sent)
    BY <1>1 DEF Renews, Noted
  <2>2. view' \in Account => (saved[view'] # None => saved[view'].key <= Len(sent))
    BY DEF KeysSent
  <2> QED
    BY <1>1, <2>1, <2>2 DEF Renews, KeysSent
<1>2. ASSUME NEW i \in DOMAIN sent, Notes(i) PROVE KeysSent'
  <2>1. owner'.pending = owner.pending
    BY <1>0, <1>2 DEF Notes, Owners
  <2> QED
    BY <1>2, <2>1 DEF Notes, Noted, KeysSent
<1>3. ASSUME NEW i \in DOMAIN sent, Decides(i) PROVE KeysSent'
  <2>1. owner'.pending = None
    BY <1>0, <1>3 DEF Decides, P!Drop, Owners
  <2>2. view \in Account
    BY <1>3, KeptNotNone DEF Decides, P!IsCurrent
  <2>3. \A a \in Account : saved'[a] \in {None, saved[a]}
    BY <1>3, <2>2, SaveType DEF Decides
  <2> QED
    BY <1>3, <2>1, <2>3 DEF Decides, Noted, KeysSent
<1>4. ASSUME NEW cmd \in PageCommand, NEW command, RunsWith(cmd, command) PROVE KeysSent'
  <2>1. Len(sent') = Len(sent) + 1
    BY <1>4, SentType DEF RunsWith
  <2>2. command.key <= Len(sent) + 1
    BY <1>0, <1>4 DEF RunsWith, KeysSent, Owners, P!Pending, P!Key
  <2>3. \A a \in Account : saved'[a] \in {command, saved[a]}
    BY <1>4, SaveType DEF RunsWith, P!TypeOK
  <2>4. \A a \in Account : saved[a] # None => saved[a].key <= Len(sent) + 1
    BY <1>0 DEF KeysSent, P!Pending, P!Key
  <2> QED
    BY <1>4, <2>1, <2>2, <2>3, <2>4 DEF RunsWith, KeysSent
<1>5. CASE UNCHANGED <<view, token, owner, saved, storage, sent, Books>>
  BY <1>5 DEF KeysSent
<1> QED
  BY <1>1, <1>2, <1>3, <1>4, <1>5, RunRuns DEF HookSorted

-----------------------------------------------------------------------------
(* Every step of the pages keeps the checks in order. *)

PagesInv == P!TypeOK /\ DoubtInv /\ KeysSent /\ PageType /\ ChecksInv

LEMMA GenGrows ==
  ASSUME P!TypeOK, HookSorted
  PROVE  owner'.gen \in Nat /\ owner.gen \in Nat /\ owner.gen <= owner'.gen
<1>0. owner \in Owners
  BY DEF P!TypeOK, Owners
<1>1. owner'.gen \in {owner.gen, owner.gen + 1}
  <2>1. CASE Renews
    BY <2>1 DEF Renews
  <2>2. ASSUME NEW i \in DOMAIN sent, Notes(i) PROVE owner'.gen = owner.gen
    BY <1>0, <2>2 DEF Notes, Owners
  <2>3. ASSUME NEW i \in DOMAIN sent, Decides(i) PROVE owner'.gen = owner.gen
    BY <1>0, <2>3 DEF Decides, P!Drop, Owners
  <2>4. ASSUME NEW cmd \in PageCommand, P!Run(cmd) PROVE owner'.gen = owner.gen
    <3>1. PICK command : RunsWith(cmd, command)
      BY <2>4, RunRuns
    <3> QED
      BY <3>1 DEF RunsWith
  <2> QED
    BY <2>1, <2>2, <2>3, <2>4 DEF HookSorted
<1> QED
  BY <1>0, <1>1 DEF Owners

LEMMA ChecksNumbers ==
  ASSUME PageType
  PROVE  /\ dialog.gen \in Nat /\ mount \in Nat
         /\ \A c \in checks : c.mount \in Nat /\ c.gen \in Nat
BY EndsAssumption DEF PageType, P!Check

(* A step that opens no page and confirms nothing.                         *)
LEMMA ChecksKept ==
  ASSUME PagesInv, P!TypeOK', HookSorted,
         checks' \subseteq checks, UNCHANGED <<page, mount>>,
         dialog' \in [open : BOOLEAN, gen : 0..MaxDialog], dialog.gen <= dialog'.gen,
         \A c \in checks' :
           Wanted(c)' => dialog'.open /\ ~owner'.busy /\ owner'.pending = None
  PROVE  PageType' /\ ChecksInv'
<1>0. owner'.gen \in Nat /\ owner.gen \in Nat /\ owner.gen <= owner'.gen
  BY GenGrows DEF PagesInv
<1>1. /\ dialog.gen \in Nat /\ mount \in Nat
      /\ \A c \in checks : c.mount \in Nat /\ c.gen \in Nat
  BY ChecksNumbers DEF PagesInv
<1>2. PageType'
  BY <1>0, <1>1 DEF PagesInv, PageType
<1>3. dialog'.gen \in Nat
  BY EndsAssumption
<1>4. ASSUME NEW c \in checks' PROVE OfPage(c)'
  BY <1>0, <1>1, <1>3, <1>4 DEF PagesInv, ChecksInv, OfPage
<1>5. \A c, d \in checks' : Same(c, d) => c = d
  BY DEF PagesInv, ChecksInv
<1> QED
  BY <1>2, <1>4, <1>5 DEF ChecksInv, Same

(* A page is opened: no check is of it yet.                                *)
LEMMA VisitChecks ==
  ASSUME PagesInv, P!TypeOK', HookSorted, NEW p \in {"cart", "listing", "order"}, P!Visit(p)
  PROVE  PageType' /\ ChecksInv'
<1>0. /\ dialog.gen \in Nat /\ mount \in Nat /\ owner.gen \in Nat
      /\ \A c \in checks : c.mount \in Nat /\ c.gen \in Nat
  BY ChecksNumbers, GenGrows DEF PagesInv
<1>1. /\ page' = p /\ mount' = owner.gen + 1 /\ owner'.gen = owner.gen + 1
      /\ checks' = checks
  BY DEF P!Visit, P!Remount, P!ResetOwner
<1>2. dialog' \in [open : BOOLEAN, gen : 0..MaxDialog] /\ dialog'.gen = dialog.gen
  BY DEF P!Visit, PagesInv, PageType
<1>3. PageType'
  BY <1>0, <1>1, <1>2 DEF PagesInv, PageType
<1>4. ASSUME NEW c \in checks PROVE OfPage(c)' /\ ~Wanted(c)'
  BY <1>0, <1>1, <1>2 DEF PagesInv, ChecksInv, OfPage, Wanted
<1> QED
  BY <1>1, <1>3, <1>4 DEF PagesInv, ChecksInv, Same

(* A purchase is confirmed, on its own page, once for each session of it.  *)
LEMMA ConfirmChecks ==
  ASSUME PagesInv, NEW kind \in {"cart", "buy"}, NEW cmd \in PageCommand,
         P!Confirm(kind, cmd),
         \/ kind = "cart" /\ page = "cart"
         \/ kind = "buy" /\ page = "listing" /\ dialog.open
  PROVE  PageType' /\ ChecksInv'
<1>0. /\ dialog.gen \in Nat /\ mount \in Nat
      /\ \A c \in checks : c.mount \in Nat /\ c.gen \in Nat
  BY ChecksNumbers DEF PagesInv
<1>1. PICK new : new = [kind |-> kind, mount |-> mount, gen |-> dialog.gen,
                        account |-> view, cmd |-> cmd]
  OBVIOUS
<1>2. /\ checks' = checks \cup {new}
      /\ UNCHANGED <<owner, page, mount, dialog, view>>
      /\ view # None /\ ~owner.busy /\ owner.pending = None
      /\ \A c \in checks : ~Same(c, new)
  BY <1>1 DEF P!Confirm, P!Ready, P!vars, Same
<1>3. new \in P!Check
  BY <1>0, <1>1, <1>2 DEF P!Check, PagesInv, P!TypeOK
<1>4. PageType'
  BY <1>2, <1>3 DEF PagesInv, PageType
<1>5. OfPage(new)
  BY <1>0, <1>1 DEF OfPage, PagesInv, PageType
<1>6. \A c \in checks' : OfPage(c)'
  BY <1>2, <1>5 DEF PagesInv, ChecksInv, OfPage
<1>7. \A c, d \in checks' : Same(c, d) => c = d
  BY <1>2 DEF PagesInv, ChecksInv, Same
<1>8. ASSUME NEW c \in checks', Wanted(c)'
      PROVE  dialog'.open /\ ~owner'.busy /\ owner'.pending = None
  <2>1. CASE c = new
    BY <1>1, <1>2, <1>8, <2>1 DEF Wanted
  <2>2. CASE c \in checks
    BY <1>2, <1>8, <2>2 DEF PagesInv, ChecksInv, Wanted
  <2> QED
    BY <1>2, <2>1, <2>2
<1> QED
  BY <1>4, <1>6, <1>7, <1>8 DEF ChecksInv, Same

(* Another account, or another session of the dialog: nothing is wanted.   *)
LEMMA RekeyChecks ==
  ASSUME PagesInv, P!TypeOK', HookSorted, UNCHANGED <<page, mount, checks>>,
         P!Rekey \/ P!Toggle
  PROVE  PageType' /\ ChecksInv'
<1>0. /\ dialog.gen \in Nat /\ \A c \in checks : c.gen \in Nat
  BY ChecksNumbers DEF PagesInv
<1>t. dialog \in [open : BOOLEAN, gen : 0..MaxDialog]
  BY DEF PagesInv, PageType
<1>1. /\ dialog' \in [open : BOOLEAN, gen : 0..MaxDialog] /\ dialog.gen <= dialog'.gen
      /\ dialog'.gen = dialog.gen + 1 \/ (~dialog.open /\ dialog' = dialog)
  <2>1. CASE P!Rekey
    BY <1>0, <1>t, <2>1, EndsAssumption DEF P!Rekey
  <2>2. CASE P!Toggle
    BY <1>0, <1>t, <2>2, EndsAssumption DEF P!Toggle
  <2> QED
    BY <2>1, <2>2
<1>2. ASSUME NEW c \in checks PROVE ~Wanted(c)'
  BY <1>0, <1>1 DEF PagesInv, ChecksInv, OfPage, Wanted
<1> QED
  BY <1>1, <1>2, ChecksKept

(* The outcome of a request: the owner was busy with it, so no purchase    *)
(* was wanted; the dialog may close.                                       *)
LEMMA DoneChecks ==
  ASSUME PagesInv, P!TypeOK', HookSorted, NEW i \in DOMAIN sent, P!Done(i)
  PROVE  PageType' /\ ChecksInv'
<1>0. /\ dialog.gen \in Nat
  BY ChecksNumbers DEF PagesInv
<1>1. /\ dialog' \in [open : BOOLEAN, gen : 0..MaxDialog] /\ dialog'.gen = dialog.gen
      /\ UNCHANGED <<page, mount, checks>>
  BY DEF P!Done, PagesInv, PageType
<1>2. owner.busy
  BY DEF P!Done, P!Succeed, P!IsCurrent, PagesInv, DoubtInv, Current, Mine
<1>3. \A c \in checks : ~Wanted(c)'
  BY <1>1, <1>2 DEF PagesInv, ChecksInv, Wanted
<1> QED
  BY <1>0, <1>1, <1>3, ChecksKept

(* A request is answered or closed, and nobody of the page notices: an     *)
(* owner that was idle with nothing pending is so afterwards.              *)
LEMMA UnseenChecks ==
  ASSUME PagesInv, P!TypeOK', HookSorted, NEW i \in DOMAIN sent, P!Unseen(i)
  PROVE  PageType' /\ ChecksInv'
<1>0. dialog.gen \in Nat /\ owner \in Owners
  BY ChecksNumbers DEF PagesInv, P!TypeOK, Owners
<1>1. UNCHANGED <<page, mount, checks, dialog>>
  BY DEF P!Unseen, P!pageVars
<1>2. ~owner.busy /\ owner.pending = None => ~owner'.busy /\ owner'.pending = None
  BY <1>0 DEF P!Unseen, P!GiveUp, P!Ignore, P!Doubt, P!Idle, P!Drop, P!Server, Owners
<1>3. \A c \in checks :
        Wanted(c)' => dialog'.open /\ ~owner'.busy /\ owner'.pending = None
  BY <1>1, <1>2 DEF PagesInv, ChecksInv, Wanted
<1>4. dialog' \in [open : BOOLEAN, gen : 0..MaxDialog] /\ dialog.gen <= dialog'.gen
  BY <1>0, <1>1 DEF PagesInv, PageType
<1> QED
  BY <1>1, <1>3, <1>4, ChecksKept

(* A command is run: nothing else is wanted of that page.                  *)
LEMMA RunChecks ==
  ASSUME PagesInv, P!TypeOK', HookSorted, UNCHANGED <<page, mount, dialog>>,
         checks' \subseteq checks,
         \A c \in checks' : ~Wanted(c)
  PROVE  PageType' /\ ChecksInv'
<1>0. dialog.gen \in Nat
  BY ChecksNumbers DEF PagesInv
<1>1. \A c \in checks' : ~Wanted(c)'
  BY DEF Wanted
<1>2. dialog' \in [open : BOOLEAN, gen : 0..MaxDialog] /\ dialog.gen <= dialog'.gen
  BY <1>0 DEF PagesInv, PageType
<1> QED
  BY <1>1, <1>2, ChecksKept

(* The check that is carried out is the only one of its page.              *)
LEMMA ProceedAlone ==
  ASSUME PagesInv, NEW c \in checks, P!Proceed(c), NEW d \in checks \ {c}
  PROVE  ~Wanted(d)
<1> SUFFICES ASSUME Wanted(d) PROVE FALSE
  OBVIOUS
<1>1. c.mount = mount /\ d.mount = mount
  BY DEF P!Proceed, Wanted
<1>2. page = "listing" /\ c.kind = "buy"
  BY <1>1 DEF PagesInv, ChecksInv, OfPage, Wanted
<1>3. c.gen = dialog.gen
  BY <1>2 DEF P!Proceed, P!StillWanted
<1>4. Same(c, d)
  BY <1>1, <1>2, <1>3 DEF Same, Wanted
<1> QED
  BY <1>4 DEF PagesInv, ChecksInv

LEMMA NextPages ==
  ASSUME PagesInv, [P!PagesNext]_(P!allVars)
  PROVE  PagesInv'
<1>0. [P!Next]_(P!vars)
  BY PagesStep DEF PagesInv
<1>1. P!TypeOK' /\ HookSorted /\ DoubtInv' /\ KeysSent'
  BY <1>0, NextHookType, HookSteps, NextDoubt, NextKeys DEF PagesInv
<1>d. dialog.gen \in Nat /\ dialog \in [open : BOOLEAN, gen : 0..MaxDialog]
  BY ChecksNumbers DEF PagesInv, PageType
<1>2. PageType' /\ ChecksInv'
  <2>1. CASE UNCHANGED P!allVars
    BY <2>1 DEF P!allVars, P!vars, P!pageVars, PagesInv, PageType, ChecksInv, OfPage, Wanted, Same
  <2>2. ASSUME NEW p \in {"cart", "listing", "order"}, P!Visit(p) PROVE PageType' /\ ChecksInv'
    BY <1>1, <2>2, VisitChecks
  <2>3. ASSUME NEW l \in Line, P!Add(l) \/ P!Remove(l) PROVE PageType' /\ ChecksInv'
    BY <2>3 DEF P!Add, P!Remove, P!vars, PagesInv, PageType, ChecksInv, OfPage, Wanted, Same
  <2>4. ASSUME NEW a \in Account, P!Account_(a) PROVE PageType' /\ ChecksInv'
    BY <1>1, <2>4, RekeyChecks DEF P!Account_
  <2>5. CASE P!Toggle
    BY <1>1, <2>5, RekeyChecks DEF P!Toggle
  <2>6. ASSUME NEW cmd \in PageCommand, P!Checkout(cmd) PROVE PageType' /\ ChecksInv'
    BY <2>6, ConfirmChecks DEF P!Checkout
  <2>7. ASSUME NEW cmd \in PageCommand, P!Buy(cmd) PROVE PageType' /\ ChecksInv'
    BY <2>7, ConfirmChecks DEF P!Buy
  <2>8. ASSUME NEW cmd \in PageCommand, P!Act(cmd) PROVE PageType' /\ ChecksInv'
    <3>1. \A c \in checks : ~Wanted(c)
      BY <2>8 DEF P!Act, PagesInv, ChecksInv, OfPage, Wanted
    <3> QED
      BY <1>1, <2>8, <3>1, RunChecks DEF P!Act, P!pageVars
  <2>9. ASSUME NEW c \in checks, P!Abandon(c) PROVE PageType' /\ ChecksInv'
    BY <2>9 DEF P!Abandon, P!vars, PagesInv, PageType, ChecksInv, OfPage, Wanted, Same
  <2>10. ASSUME NEW c \in checks, P!Proceed(c) PROVE PageType' /\ ChecksInv'
    <3>1. checks' = checks \ {c} /\ UNCHANGED <<page, mount, dialog>>
      BY <2>10 DEF P!Proceed
    <3> QED
      BY <1>1, <2>10, <3>1, ProceedAlone, RunChecks
  <2>11. CASE P!RetryPending
    <3>1. \A c \in checks : ~Wanted(c)
      BY <2>11 DEF P!RetryPending, PagesInv, ChecksInv
    <3> QED
      BY <1>1, <2>11, <3>1, RunChecks DEF P!RetryPending, P!pageVars
  <2>12. ASSUME NEW i \in DOMAIN sent, P!Done(i) \/ P!Unseen(i) PROVE PageType' /\ ChecksInv'
    BY <1>1, <2>12, DoneChecks, UnseenChecks
  <2>13. ASSUME NEW i \in DOMAIN sent, P!Expelled(i) PROVE PageType' /\ ChecksInv'
    BY <1>1, <2>13, RekeyChecks DEF P!Expelled
  <2> QED
    BY <2>1, <2>2, <2>3, <2>4, <2>5, <2>6, <2>7, <2>8, <2>9, <2>10, <2>11, <2>12, <2>13
       DEF P!PagesNext
<1> QED
  BY <1>1, <1>2 DEF PagesInv

LEMMA InitPages == P!PagesInit => PagesInv
<1> SUFFICES ASSUME P!PagesInit PROVE PagesInv
  OBVIOUS
<1>1. P!TypeOK /\ DoubtInv
  BY InitHookType, InitDoubt DEF P!PagesInit
<1>2. KeysSent
  BY DEF P!PagesInit, P!Init, KeysSent
<1>3. 0 \in 0..MaxDialog
  BY EndsAssumption
<1>4. PageType
  BY <1>3 DEF P!PagesInit, P!Init, PageType
<1>5. ChecksInv
  BY DEF P!PagesInit, ChecksInv
<1> QED
  BY <1>1, <1>2, <1>4, <1>5 DEF PagesInv

(* A command that was sent and whose outcome the hook has not been told    *)
(* can still be found with its key, in sessionStorage or in the owner that *)
(* sent it: no late answer, change of account or return to a page makes it *)
(* be forgotten (use-order-command.ts), for any number of requests.        *)
THEOREM DoubtHolds == P!PagesSpec => []P!DoubtKept /\ []DoubtKept
<1>1. PagesInv /\ [P!PagesNext]_(P!allVars) => PagesInv'
  BY NextPages
<1>2. PagesInv => P!DoubtKept /\ DoubtKept
  BY DEF PagesInv, DoubtInv, DoubtKept
<1> QED
  BY <1>1, <1>2, InitPages, PTL DEF P!PagesSpec

-----------------------------------------------------------------------------
(* What is ordered is what was confirmed. *)

(* Only a run sends a request, and it has a key of its own only if nothing *)
(* was pending.                                                            *)
LEMMA OnlyRunsOrder ==
  ASSUME PagesInv, HookSorted, P!Ordered
  PROVE  \E cmd \in PageCommand : P!Run(cmd)
<1>0. Len(sent) \in Nat
  BY SentType DEF PagesInv
<1> QED
  BY <1>0 DEF HookSorted, Renews, Notes, Decides, Noted, P!Ordered

LEMMA FreshRun ==
  ASSUME PagesInv, NEW cmd \in PageCommand, P!Run(cmd), P!Ordered
  PROVE  owner.pending = None /\ P!Request.account = view /\ P!Request.cmd = cmd
<1>0. sent \in Seq(Sendings) /\ Len(sent) \in Nat /\ P!TypeOK
  BY SentType DEF PagesInv
<1>1. PICK command : RunsWith(cmd, command)
  BY <1>0, RunRuns
<1>2. PICK r : r = [gen |-> owner.gen, token |-> token, account |-> view, cmd |-> cmd,
                    key |-> command.key, reply |-> "wire", open |-> TRUE]
  OBVIOUS
<1>3. Len(sent') = Len(sent) + 1 /\ sent'[Len(sent) + 1] = r
  BY <1>0, <1>1, <1>2 DEF RunsWith
<1>4. command.key = Len(sent) + 1
  BY <1>2, <1>3 DEF P!Ordered
<1>5. owner.pending = None
  <2> SUFFICES ASSUME owner.pending # None PROVE FALSE
    OBVIOUS
  <2>1. command.key <= Len(sent)
    BY <1>1 DEF RunsWith, PagesInv, KeysSent
  <2> QED
    BY <1>0, <1>4, <2>1
<1> QED
  BY <1>2, <1>3, <1>5 DEF P!Request

(* A new checkout orders what is in its account's cart at the moment it is *)
(* sent; a new purchase is sent by the session of the dialog in which it   *)
(* was confirmed (cart page and buy-modal.tsx), whatever carts, dialogs    *)
(* and accounts have done since.                                           *)
THEOREM ConfirmedOrdersHold == P!PagesSpec => OrderedAsConfirmed
<1> DEFINE Kept == P!Ordered => /\ page = "cart" => P!AsShown
                                /\ page = "listing" => P!AsConfirmed
<1>1. PagesInv /\ [P!PagesNext]_(P!allVars) => PagesInv'
  BY NextPages
<1>2. PagesInv /\ [P!PagesNext]_(P!allVars) => Kept
  <2> SUFFICES ASSUME PagesInv, [P!PagesNext]_(P!allVars), P!Ordered
               PROVE  /\ page = "cart" => P!AsShown
                      /\ page = "listing" => P!AsConfirmed
    OBVIOUS
  <2>1. PICK cmd \in PageCommand : P!Run(cmd)
    <3>1. [P!Next]_(P!vars)
      BY PagesStep DEF PagesInv
    <3> QED
      BY <3>1, HookSteps, OnlyRunsOrder DEF PagesInv
  <2>2. Len(sent') # Len(sent)
    BY SentType DEF P!Ordered, PagesInv
  <2>3. owner.pending = None
    BY <2>1, FreshRun
  <2>4. ASSUME NEW c \in checks, P!Proceed(c)
        PROVE  /\ page = "cart" => P!AsShown
               /\ page = "listing" => P!AsConfirmed
    <3>0. P!Run(c.cmd) /\ c.cmd \in PageCommand
      BY <2>4 DEF P!Proceed, PagesInv, PageType, P!Check
    <3>1. P!Request.account = view /\ P!Request.cmd = c.cmd
      BY <3>0, FreshRun
    <3>2. view = c.account /\ mount = c.mount /\ c \notin checks'
      BY <2>4 DEF P!Proceed, P!StillWanted
    <3>3. CASE page = "cart"
      <4>1. c.kind = "cart"
        BY <3>2, <3>3 DEF PagesInv, ChecksInv, OfPage
      <4> QED
        BY <2>4, <3>1, <3>2, <3>3, <4>1 DEF P!Proceed, P!StillWanted, P!AsShown
    <3>4. CASE page = "listing"
      <4>1. c.kind = "buy"
        BY <3>2, <3>4 DEF PagesInv, ChecksInv, OfPage
      <4>2. c.gen = dialog.gen
        BY <2>4, <4>1 DEF P!Proceed, P!StillWanted
      <4>3. dialog.open
        BY <3>2, <4>1, <4>2 DEF PagesInv, ChecksInv, Wanted
      <4> QED
        BY <3>1, <3>2, <3>4, <4>2, <4>3 DEF P!AsConfirmed
    <3> QED
      BY <3>3, <3>4
  <2>5. ASSUME NEW command \in PageCommand, P!Act(command) PROVE page = "order"
    BY <2>5 DEF P!Act
  <2>6. ~P!RetryPending
    BY <2>3 DEF P!RetryPending
  <2>7. ASSUME UNCHANGED sent PROVE FALSE
    BY <2>2, <2>7
  <2>8. \A i \in DOMAIN sent : ~P!Done(i) /\ ~P!Unseen(i) /\ ~P!Expelled(i)
    <3>1. ASSUME NEW i \in DOMAIN sent, P!Done(i) \/ P!Unseen(i) \/ P!Expelled(i)
          PROVE  FALSE
      <4>1. Noted(i) \/ UNCHANGED sent
        <5>1. CASE P!Server(i)
          <6>1. PICK reply \in P!Replies : P!Reply(i, reply)
            BY <5>1 DEF P!Server, P!Carry, P!Refuse, P!Reject, P!Fail, P!Replies
          <6> QED
            BY <6>1, ReplyNoted DEF PagesInv
        <5>2. CASE P!Close(i)
          BY <5>2, CloseNoted DEF PagesInv
        <5> QED
          BY <3>1, <5>1, <5>2 DEF P!Done, P!Unseen, P!Expelled, P!Succeed, P!GiveUp, P!Ignore,
                                 P!Doubt, P!Invalidate
      <4> QED
        BY <2>2, <4>1 DEF Noted
    <3> QED
      BY <3>1
  <2> QED
    BY <2>4, <2>5, <2>6, <2>7, <2>8
       DEF P!PagesNext, P!Visit, P!Remount, P!Add, P!Remove, P!Account_, P!SignIn, P!SignOut,
           P!Toggle, P!Checkout, P!Buy, P!Confirm, P!Abandon, P!allVars, P!vars
<1> QED
  BY <1>1, <1>2, InitPages, PTL DEF P!PagesSpec, OrderedAsConfirmed, P!OrderedAsConfirmed
=============================================================================
