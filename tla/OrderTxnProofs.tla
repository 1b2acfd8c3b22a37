--------------------------- MODULE OrderTxnProofs ---------------------------
(***************************************************************************)
(* OneRun, AckedDurable and the refinement of CommandLog, for every set of *)
(* deliveries, keys and bodies and every bound on attempts. The inductive  *)
(* invariant says who may hold a key (Holders), what every commit of the   *)
(* log goes back to (Origins) and what a waiting delivery waits for        *)
(* (Waiters).                                                              *)
(***************************************************************************)
EXTENDS OrderTxn, TLAPS

(* One transaction at a time holds a key, the one that will carry it out   *)
(* finds no record, and one that replays found it.                         *)
Holders ==
  /\ \A c, d \in Call : Holds(c, KeyOf[d]) /\ Holds(d, KeyOf[d]) => c = d
  /\ \A c \in Call : phase[c] = "holding" => Runs(KeyOf[c]) = {}
  /\ \A c \in Call : phase[c] = "replaying" => Runs(KeyOf[c]) # {}

(* Every commit repeats the order of the run of its key, at or before it.  *)
Origin(w, i) ==
  /\ \E j \in 1..i : w[j].run /\ w[j].key = w[i].key /\ w[j].order = w[i].order
  /\ KeyOf[w[i].order] = w[i].key
Origins == \A i \in 1..Len(wal) : Origin(wal, i)

Waits(c) ==
  /\ lsn[c] \in 1..Len(wal)
  /\ wal[lsn[c]].key = KeyOf[c]
  /\ wal[lsn[c]].order = told[c]
  /\ BodyOf[told[c]] = BodyOf[c]
Waiters == \A c \in Call : phase[c] = "waiting" => Waits(c)

IInv == TypeOK /\ OneRun /\ Origins /\ Holders /\ Waiters /\ AckedDurable

-----------------------------------------------------------------------------
(* The names of the phases are told apart once.                            *)
Phases == {"out"} \cup Open \cup Closed

LEMMA KeyType == \A c \in Call : KeyOf[c] \in Keys
BY DEF Keys

(* Init has the type.                                                      *)
LEMMA TypeInit == Init => TypeOK
BY TxnAssumption DEF Init, TypeOK, Commit

(* Losing deliveries moves them to an answer or leaves them.               *)
LEMMA LoseType ==
  ASSUME TypeOK, NEW lost \in SUBSET Call, Lose(lost)
  PROVE  /\ phase' \in [Call -> {"out"} \cup Open \cup Closed]
         /\ told' \in [Call -> Call \cup {NoCall}]
BY DEF TypeOK, Lose, Open, Closed

LEMMA RecordType ==
  ASSUME TypeOK, NEW k, Runs(k) # {}
  PROVE  /\ Record(k) \in Call
         /\ \E j \in Runs(k) : wal[j].order = Record(k)
<1> DEFINE j == CHOOSE i \in Runs(k) : TRUE
<1>1. j \in Runs(k)
  OBVIOUS
<1>2. j \in 1..Len(wal)
  BY <1>1 DEF Runs, TypeOK
<1>3. wal[j] \in Commit
  BY <1>2 DEF TypeOK
<1> QED
  BY <1>1, <1>3 DEF Record, Commit

(* Every step keeps the type; a replay needs the record it goes back to.   *)
LEMMA TypeNext == TypeOK /\ Holders /\ [Next]_vars => TypeOK'
<1> SUFFICES ASSUME TypeOK, Holders, [Next]_vars PROVE TypeOK'
  OBVIOUS
<1> USE DEF TypeOK, Open, Closed, Goto
<1>1. ASSUME NEW c \in Call, Receive(c) PROVE TypeOK'
  BY <1>1 DEF Receive
<1>2. ASSUME NEW c \in Call, Insert(c) PROVE TypeOK'
  BY <1>2 DEF Insert
<1>3. ASSUME NEW c \in Call, Refuse(c) PROVE TypeOK'
  BY <1>3 DEF Refuse
<1>4. ASSUME NEW c \in Call, CommitRun(c) PROVE TypeOK'
  <2>1. [key |-> KeyOf[c], order |-> c, run |-> TRUE] \in Commit
    BY KeyType DEF Commit
  <2>2. wal' \in Seq(Commit) /\ Len(wal') = Len(wal) + 1
    BY <1>4, <2>1 DEF CommitRun
  <2>3. phase' \in [Call -> {"out"} \cup Open \cup Closed]
    BY <1>4 DEF CommitRun
  <2>4. lsn' \in [Call -> Nat] /\ told' \in [Call -> Call \cup {NoCall}]
    BY <1>4 DEF CommitRun
  <2> QED
    BY <1>4, <2>2, <2>3, <2>4 DEF CommitRun
<1>5. ASSUME NEW c \in Call, Conflict(c) PROVE TypeOK'
  BY <1>5 DEF Conflict
<1>6. ASSUME NEW c \in Call, Replay(c) PROVE TypeOK'
  <2>1. Record(KeyOf[c]) \in Call
    BY <1>6, RecordType DEF Replay, Holders
  <2>2. [key |-> KeyOf[c], order |-> Record(KeyOf[c]), run |-> FALSE] \in Commit
    BY KeyType, <2>1 DEF Commit
  <2>3. wal' \in Seq(Commit) /\ Len(wal') = Len(wal) + 1
    BY <1>6, <2>2 DEF Replay
  <2>4. phase' \in [Call -> {"out"} \cup Open \cup Closed]
    BY <1>6 DEF Replay
  <2>5. lsn' \in [Call -> Nat] /\ told' \in [Call -> Call \cup {NoCall}]
    BY <1>6, <2>1 DEF Replay
  <2> QED
    BY <1>6, <2>3, <2>4, <2>5 DEF Replay
<1>7. ASSUME NEW c \in Call, Retry(c) PROVE TypeOK'
  <2>1. attempt' \in [Call -> 1..MaxAttempts]
    <3>1. CASE attempt[c] < MaxAttempts
      <4>1. attempt[c] + 1 \in 1..MaxAttempts
        BY <3>1, TxnAssumption
      <4> QED
        BY <1>7, <3>1, <4>1 DEF Retry
    <3>2. CASE ~(attempt[c] < MaxAttempts)
      BY <1>7, <3>2 DEF Retry
    <3> QED
      BY <3>1, <3>2
  <2>2. phase' \in [Call -> {"out"} \cup Open \cup Closed]
    BY <1>7 DEF Retry
  <2> QED
    BY <1>7, <2>1, <2>2 DEF Retry
<1>8. ASSUME NEW c \in Call, Acknowledge(c) PROVE TypeOK'
  BY <1>8 DEF Acknowledge
<1>9. ASSUME NEW c \in Call, Disconnect(c) PROVE TypeOK'
  BY <1>9, LoseType DEF Disconnect
<1>10. ASSUME Apply PROVE TypeOK'
  BY <1>10 DEF Apply
<1>11. ASSUME Restart PROVE TypeOK'
  BY <1>11, LoseType DEF Restart, InFlight
<1>12. ASSUME Failover PROVE TypeOK'
  <2>1. wal' \in Seq(Commit) /\ Len(wal') = applied
    BY <1>12 DEF Failover
  <2> QED
    BY <1>12, <2>1, LoseType DEF Failover, InFlight
<1>13. CASE UNCHANGED vars
  BY <1>13 DEF vars
<1> QED
  BY <1>1, <1>2, <1>3, <1>4, <1>5, <1>6, <1>7, <1>8, <1>9, <1>10, <1>11, <1>12, <1>13
  DEF Next, Serve

-----------------------------------------------------------------------------
(* The commits of the log. *)

(* An origin is kept by every log that agrees up to the commit.            *)
LEMMA OriginKept ==
  ASSUME NEW v, NEW w, NEW n \in Nat, NEW i \in 1..n, Origin(v, i),
         \A j \in 1..n : w[j] = v[j]
  PROVE  Origin(w, i)
<1>1. PICK j \in 1..i : v[j].run /\ v[j].key = v[i].key /\ v[j].order = v[i].order
  BY DEF Origin
<1>2. j \in 1..n
  OBVIOUS
<1>3. w[j] = v[j] /\ w[i] = v[i]
  BY <1>2
<1> QED
  BY <1>1, <1>3 DEF Origin

(* A run of a key without one keeps OneRun.                                *)
LEMMA AppendRun ==
  ASSUME TypeOK, OneRun, Origins, NEW c \in Call, Runs(KeyOf[c]) = {},
         wal' = Append(wal, [key |-> KeyOf[c], order |-> c, run |-> TRUE])
  PROVE  OneRun' /\ Origins'
<1>1. /\ Len(wal') = Len(wal) + 1
      /\ wal'[Len(wal) + 1] = [key |-> KeyOf[c], order |-> c, run |-> TRUE]
      /\ \A i \in 1..Len(wal) : wal'[i] = wal[i]
      /\ DOMAIN wal = 1..Len(wal) /\ DOMAIN wal' = 1..Len(wal')
      /\ Len(wal) \in Nat
  BY DEF TypeOK
<1>2. \A i \in 1..Len(wal) : ~(wal[i].run /\ wal[i].key = KeyOf[c])
  BY <1>1 DEF Runs
<1>3. OneRun'
  BY <1>1, <1>2 DEF OneRun, TypeOK
<1>4. ASSUME NEW i \in 1..Len(wal') PROVE Origin(wal', i)
  <2>1. CASE i \in 1..Len(wal)
    <3>1. Origin(wal, i)
      BY <2>1 DEF Origins
    <3>2. Len(wal) \in Nat /\ \A j \in 1..Len(wal) : wal'[j] = wal[j]
      BY <1>1 DEF TypeOK
    <3> QED
      BY <2>1, <3>1, <3>2, OriginKept
  <2>2. CASE i = Len(wal) + 1
    <3>1. wal'[i].run /\ wal'[i].key = KeyOf[c] /\ wal'[i].order = c /\ i \in 1..i
      BY <2>2, <1>1
    <3> QED
      BY <3>1 DEF Origin
  <2> QED
    BY <2>1, <2>2, <1>1
<1> QED
  BY <1>3, <1>4 DEF Origins

(* A rewrite of a record keeps OneRun and goes back to its run.            *)
LEMMA AppendTouch ==
  ASSUME TypeOK, OneRun, Origins, NEW c \in Call, Runs(KeyOf[c]) # {},
         wal' = Append(wal, [key |-> KeyOf[c], order |-> Record(KeyOf[c]), run |-> FALSE])
  PROVE  OneRun' /\ Origins'
<1> DEFINE o == Record(KeyOf[c])
<1>1. /\ Len(wal') = Len(wal) + 1
      /\ wal'[Len(wal) + 1] = [key |-> KeyOf[c], order |-> o, run |-> FALSE]
      /\ \A i \in 1..Len(wal) : wal'[i] = wal[i]
      /\ DOMAIN wal = 1..Len(wal) /\ DOMAIN wal' = 1..Len(wal')
      /\ Len(wal) \in Nat
  BY DEF TypeOK
<1>2. PICK j \in 1..Len(wal) : wal[j].run /\ wal[j].key = KeyOf[c] /\ wal[j].order = o
  BY RecordType, <1>1 DEF Runs
<1> HIDE DEF o
<1>3. OneRun'
  <2>1. \A i \in 1..Len(wal') : wal'[i].run => i \in 1..Len(wal)
    <3> SUFFICES ASSUME NEW i \in 1..Len(wal'), i \notin 1..Len(wal) PROVE ~wal'[i].run
      OBVIOUS
    <3>1. i = Len(wal) + 1
      BY <1>1
    <3> QED
      BY <1>1, <3>1
  <2> QED
    BY <1>1, <2>1 DEF OneRun
<1>4. ASSUME NEW i \in 1..Len(wal') PROVE Origin(wal', i)
  <2>1. CASE i \in 1..Len(wal)
    <3>1. Origin(wal, i)
      BY <2>1 DEF Origins
    <3>2. Len(wal) \in Nat /\ \A n \in 1..Len(wal) : wal'[n] = wal[n]
      BY <1>1 DEF TypeOK
    <3> QED
      BY <2>1, <3>1, <3>2, OriginKept
  <2>2. CASE i = Len(wal) + 1
    <3>1. KeyOf[o] = KeyOf[c]
      BY <1>2 DEF Origins, Origin
    <3>2. wal'[j] = wal[j] /\ wal'[i].key = KeyOf[c] /\ wal'[i].order = o
      BY <2>2, <1>1
    <3>3. j \in 1..i
      BY <2>2, <1>1 DEF TypeOK
    <3> QED
      BY <1>2, <3>1, <3>2, <3>3 DEF Origin
  <2> QED
    BY <2>1, <2>2, <1>1
<1> QED
  BY <1>3, <1>4 DEF Origins

(* A promotion keeps what the standby had applied.                         *)
LEMMA Truncate ==
  ASSUME TypeOK, OneRun, Origins, wal' = SubSeq(wal, 1, applied)
  PROVE  OneRun' /\ Origins'
<1>1. /\ Len(wal') = applied
      /\ \A i \in 1..applied : wal'[i] = wal[i]
      /\ DOMAIN wal = 1..Len(wal) /\ DOMAIN wal' = 1..applied
      /\ applied \in Nat /\ applied <= Len(wal)
  BY DEF TypeOK
<1>2. OneRun'
  BY <1>1 DEF OneRun, TypeOK
<1>3. ASSUME NEW i \in 1..applied PROVE Origin(wal', i)
  <2>1. Origin(wal, i)
    BY <1>1 DEF Origins
  <2> QED
    BY <1>1, <2>1, OriginKept
<1> QED
  BY <1>1, <1>2, <1>3 DEF Origins

LEMMA LogNext == IInv /\ [Next]_vars => OneRun' /\ Origins'
<1> SUFFICES ASSUME IInv, [Next]_vars PROVE OneRun' /\ Origins'
  OBVIOUS
<1>1. CASE UNCHANGED wal
  BY <1>1 DEF IInv, OneRun, Origins, Origin
<1>2. ASSUME NEW c \in Call, CommitRun(c) PROVE OneRun' /\ Origins'
  BY <1>2, AppendRun DEF IInv, Holders, CommitRun
<1>3. ASSUME NEW c \in Call, Replay(c) PROVE OneRun' /\ Origins'
  BY <1>3, AppendTouch DEF IInv, Holders, Replay
<1>4. CASE Failover
  BY <1>4, Truncate DEF IInv, Failover
<1> QED
  BY <1>1, <1>2, <1>3, <1>4
  DEF Next, Serve, vars, Receive, Insert, Refuse, Conflict, Retry, Acknowledge, Disconnect,
      Apply, Restart
-----------------------------------------------------------------------------
(* Who holds a key. *)

(* A commit by c adds to the runs of its own key only, a rewrite to none.  *)
LEMMA RunsAppend ==
  ASSUME TypeOK, NEW k, NEW r, r.run => r.key # k, wal' = Append(wal, r)
  PROVE  Runs(k)' = Runs(k)
<1>1. /\ DOMAIN wal = 1..Len(wal) /\ DOMAIN wal' = 1..(Len(wal) + 1)
      /\ wal'[Len(wal) + 1] = r
      /\ \A i \in 1..Len(wal) : wal'[i] = wal[i]
      /\ Len(wal) \in Nat
  BY DEF TypeOK
<1> QED
  BY <1>1 DEF Runs

LEMMA RunsStay ==
  ASSUME NEW k, UNCHANGED wal
  PROVE  Runs(k)' = Runs(k)
BY DEF Runs

LEMMA HoldersNext == IInv /\ [Next]_vars => Holders'
<1> SUFFICES ASSUME IInv, [Next]_vars PROVE Holders'
  OBVIOUS
<1>0. TypeOK /\ Holders /\ phase \in [Call -> {"out"} \cup Open \cup Closed]
  BY DEF IInv, TypeOK
<1> USE DEF Goto
<1>1. ASSUME NEW c \in Call, Receive(c) PROVE Holders'
  BY <1>0, <1>1, RunsStay DEF Receive, Holders, Holds
<1>2. ASSUME NEW c \in Call, Insert(c) PROVE Holders'
  <2>1. \A d \in Call : ~Holds(d, KeyOf[c])
    BY <1>2 DEF Insert, Locked
  <2>2. \A d \in Call : phase'[d] = IF d # c THEN phase[d]
                          ELSE IF Runs(KeyOf[c]) # {} THEN "replaying" ELSE "holding"
    BY <1>0, <1>2 DEF Insert, Recorded
  <2>3. \A k : Runs(k)' = Runs(k)
    BY <1>2, RunsStay DEF Insert
  <2> QED
    BY <1>0, <2>1, <2>2, <2>3 DEF Holders, Holds
<1>3. ASSUME NEW c \in Call, Refuse(c) PROVE Holders'
  BY <1>0, <1>3, RunsStay DEF Refuse, Holders, Holds
<1>4. ASSUME NEW c \in Call, CommitRun(c) PROVE Holders'
  <2>1. \A d \in Call : phase'[d] = IF d = c THEN "waiting" ELSE phase[d]
    BY <1>0, <1>4 DEF CommitRun
  <2>2. \A d \in Call : Holds(d, KeyOf[c]) => d = c
    BY <1>0, <1>4 DEF CommitRun, Holders, Holds
  <2>3. \A k : k # KeyOf[c] => Runs(k)' = Runs(k)
    BY <1>0, <1>4, RunsAppend DEF CommitRun
  <2>4. Runs(KeyOf[c])' # {}
    <3>1. DOMAIN wal' = 1..Len(wal) + 1 /\ Len(wal) \in Nat
      BY <1>0, <1>4 DEF CommitRun, TypeOK
    <3>2. wal'[Len(wal) + 1] = [key |-> KeyOf[c], order |-> c, run |-> TRUE]
      BY <1>0, <1>4 DEF CommitRun, TypeOK
    <3> QED
      BY <3>1, <3>2 DEF Runs
  <2> QED
    BY <1>0, <1>4, <2>1, <2>2, <2>3, <2>4 DEF Holders, Holds
<1>5. ASSUME NEW c \in Call, Conflict(c) PROVE Holders'
  BY <1>0, <1>5, RunsStay DEF Conflict, Holders, Holds
<1>6. ASSUME NEW c \in Call, Replay(c) PROVE Holders'
  <2>1. \A d \in Call : phase'[d] = IF d = c THEN "waiting" ELSE phase[d]
    BY <1>0, <1>6 DEF Replay
  <2>2. \A d \in Call : ~Holds(d, KeyOf[c])
    BY <1>6 DEF Replay, Locked
  <2>3. \A k : Runs(k)' = Runs(k)
    BY <1>0, <1>6, RunsAppend DEF Replay
  <2> QED
    BY <1>0, <2>1, <2>2, <2>3 DEF Holders, Holds
<1>7. ASSUME NEW c \in Call, Retry(c) PROVE Holders'
  <2>1. \A d \in Call : phase'[d] = phase[d] \/ phase'[d] \in {"begun", "failed"}
    BY <1>0, <1>7 DEF Retry
  <2>2. \A k : Runs(k)' = Runs(k)
    BY <1>7, RunsStay DEF Retry
  <2> QED
    BY <1>0, <2>1, <2>2 DEF Holders, Holds
<1>8. ASSUME NEW c \in Call, Acknowledge(c) PROVE Holders'
  BY <1>0, <1>8, RunsStay DEF Acknowledge, Holders, Holds
<1>9. ASSUME NEW c \in Call, Disconnect(c) PROVE Holders'
  BY <1>0, <1>9, RunsStay DEF Disconnect, Lose, Holders, Holds
<1>10. CASE Restart \/ Failover
  <2>1. \A d \in Call : phase'[d] \notin Open
    BY <1>0, <1>10 DEF Restart, Failover, Lose, InFlight, Open
  <2> QED
    BY <2>1 DEF Holders, Holds, Open
<1>11. CASE Apply \/ UNCHANGED vars
  BY <1>0, <1>11, RunsStay DEF Apply, vars, Holders, Holds
<1> QED
  BY <1>1, <1>2, <1>3, <1>4, <1>5, <1>6, <1>7, <1>8, <1>9, <1>10, <1>11 DEF Next, Serve

-----------------------------------------------------------------------------
(* What a delivery waits for, and what it has been told. *)

LEMMA WaitersNext == IInv /\ [Next]_vars => Waiters'
<1> SUFFICES ASSUME IInv, [Next]_vars PROVE Waiters'
  OBVIOUS
<1>0. /\ TypeOK /\ Waiters /\ phase \in [Call -> {"out"} \cup Open \cup Closed]
      /\ lsn \in [Call -> Nat] /\ told \in [Call -> Call \cup {NoCall}]
      /\ Len(wal) \in Nat
  BY DEF IInv, TypeOK
<1> USE DEF Goto
(* A step that appends keeps what the others wait for.                     *)
<1>1. ASSUME NEW c \in Call, NEW r, wal' = Append(wal, r),
             phase' = [phase EXCEPT ![c] = "waiting"],
             lsn' = [lsn EXCEPT ![c] = Len(wal) + 1], told' = [told EXCEPT ![c] = r.order],
             r.key = KeyOf[c], BodyOf[r.order] = BodyOf[c]
      PROVE  Waiters'
  <2>1. /\ Len(wal') = Len(wal) + 1
        /\ wal'[Len(wal) + 1] = r
        /\ \A i \in 1..Len(wal) : wal'[i] = wal[i]
    BY <1>0, <1>1 DEF TypeOK
  <2>2. ASSUME NEW d \in Call, phase'[d] = "waiting" PROVE Waits(d)'
    <3>1. CASE d = c
      BY <1>0, <1>1, <2>1, <3>1 DEF Waits
    <3>2. CASE d # c
      <4>1. Waits(d) /\ lsn'[d] = lsn[d] /\ told'[d] = told[d]
        BY <1>0, <1>1, <2>2, <3>2 DEF Waiters
      <4> QED
        BY <1>0, <2>1, <4>1 DEF Waits
    <3> QED
      BY <3>1, <3>2
  <2> QED
    BY <2>2 DEF Waiters
<1>2. ASSUME NEW c \in Call, CommitRun(c) PROVE Waiters'
  BY <1>1, <1>2 DEF CommitRun
<1>3. ASSUME NEW c \in Call, Replay(c) PROVE Waiters'
  BY <1>1, <1>3 DEF Replay
(* The others leave the log alone and let nobody wait.                     *)
<1>4. ASSUME UNCHANGED <<wal, lsn>>,
             \A d \in Call : phase'[d] = "waiting" => phase[d] = "waiting" /\ told'[d] = told[d]
      PROVE  Waiters'
  BY <1>0, <1>4 DEF Waiters, Waits
<1>5. ASSUME NEW c \in Call,
             Receive(c) \/ Insert(c) \/ Refuse(c) \/ Conflict(c) \/ Retry(c) \/ Acknowledge(c)
      PROVE  Waiters'
  <2>1. UNCHANGED <<wal, lsn, told>>
    BY <1>5 DEF Receive, Insert, Refuse, Conflict, Retry, Acknowledge
  <2>2. \A d \in Call : phase'[d] = "waiting" => phase[d] = "waiting"
    BY <1>0, <1>5 DEF Receive, Insert, Refuse, Conflict, Retry, Acknowledge
  <2> QED
    BY <1>4, <2>1, <2>2
<1>6. ASSUME NEW c \in Call, Disconnect(c) PROVE Waiters'
  BY <1>4, <1>6 DEF Disconnect, Lose
<1>7. CASE Restart \/ Failover
  BY <1>0, <1>7 DEF Restart, Failover, Lose, InFlight, Open, Waiters
<1>8. CASE Apply \/ UNCHANGED vars
  BY <1>4, <1>8 DEF Apply, vars
<1> QED
  BY <1>2, <1>3, <1>5, <1>6, <1>7, <1>8 DEF Next, Serve

(* An answer survives every step that keeps the applied commits.           *)
LEMMA AckedKept ==
  ASSUME TypeOK, AckedDurable, NEW c \in Call, phase[c] = "ok", told'[c] = told[c],
         applied' \in Nat, applied <= applied', \A i \in 1..applied : wal'[i] = wal[i]
  PROVE  /\ BodyOf[told'[c]] = BodyOf[c]
         /\ \E i \in 1..applied' : /\ wal'[i].run
                                   /\ wal'[i].key = KeyOf[c]
                                   /\ wal'[i].order = told'[c]
<1>1. BodyOf[told[c]] = BodyOf[c]
  BY DEF AckedDurable
<1>2. PICK i \in 1..applied : /\ wal[i].run
                              /\ wal[i].key = KeyOf[c]
                              /\ wal[i].order = told[c]
  BY DEF AckedDurable
<1>3. i \in 1..applied' /\ wal'[i] = wal[i]
  BY DEF TypeOK
<1> QED
  BY <1>1, <1>2, <1>3

LEMMA AckedNext == IInv /\ [Next]_vars => AckedDurable'
<1> SUFFICES ASSUME IInv, [Next]_vars PROVE AckedDurable'
  OBVIOUS
<1>0. /\ TypeOK /\ AckedDurable /\ phase \in [Call -> {"out"} \cup Open \cup Closed]
      /\ applied \in Nat /\ applied <= Len(wal) /\ Len(wal) \in Nat
      /\ told \in [Call -> Call \cup {NoCall}]
  BY DEF IInv, TypeOK
<1> USE DEF Goto
<1>1. ASSUME NEW c \in Call, Acknowledge(c) PROVE AckedDurable'
  <2>1. Waits(c) /\ lsn[c] <= applied
    BY <1>1 DEF Acknowledge, IInv, Waiters
  <2>2. Origin(wal, lsn[c])
    BY <2>1 DEF IInv, Origins, Waits
  <2>3. PICK j \in 1..lsn[c] : wal[j].run /\ wal[j].key = KeyOf[c] /\ wal[j].order = told[c]
    BY <2>1, <2>2 DEF Origin, Waits
  <2>4. j \in 1..applied
    BY <1>0, <2>1 DEF Waits
  <2>5. UNCHANGED <<wal, applied, told>> /\ \A d \in Call \ {c} : phase'[d] = phase[d]
    BY <1>0, <1>1 DEF Acknowledge
  <2> QED
    BY <1>0, <2>1, <2>3, <2>4, <2>5 DEF AckedDurable, Waits
<1>2. ASSUME \A d \in Call : phase'[d] = "ok" => phase[d] = "ok" /\ told'[d] = told[d],
             applied' \in Nat, applied <= applied', \A i \in 1..applied : wal'[i] = wal[i]
      PROVE  AckedDurable'
  BY <1>0, <1>2, AckedKept DEF AckedDurable
<1>3. ASSUME NEW c \in Call, CommitRun(c) \/ Replay(c) PROVE AckedDurable'
  <2>1. \A i \in 1..applied : wal'[i] = wal[i]
    <3>1. PICK r : wal' = Append(wal, r)
      BY <1>3 DEF CommitRun, Replay
    <3> QED
      BY <1>0, <3>1 DEF TypeOK
  <2>2. \A d \in Call : phase'[d] = "ok" => phase[d] = "ok" /\ told'[d] = told[d]
    BY <1>0, <1>3 DEF CommitRun, Replay
  <2>3. applied' = applied
    BY <1>3 DEF CommitRun, Replay
  <2> QED
    BY <1>0, <1>2, <2>1, <2>2, <2>3
<1>4. ASSUME NEW c \in Call,
             Receive(c) \/ Insert(c) \/ Refuse(c) \/ Conflict(c) \/ Retry(c)
      PROVE  AckedDurable'
  <2>1. UNCHANGED <<wal, applied, told>>
    BY <1>4 DEF Receive, Insert, Refuse, Conflict, Retry
  <2>2. \A d \in Call : phase'[d] = "ok" => phase[d] = "ok"
    BY <1>0, <1>4 DEF Receive, Insert, Refuse, Conflict, Retry
  <2> QED
    BY <1>0, <1>2, <2>1, <2>2
<1>5. ASSUME NEW c \in Call, Disconnect(c) PROVE AckedDurable'
  BY <1>0, <1>2, <1>5 DEF Disconnect, Lose
<1>6. CASE Restart
  BY <1>0, <1>2, <1>6 DEF Restart, Lose
<1>7. CASE Failover
  <2>1. \A i \in 1..applied : wal'[i] = wal[i]
    BY <1>0, <1>7 DEF Failover, TypeOK
  <2>2. \A d \in Call : phase'[d] = "ok" => phase[d] = "ok" /\ told'[d] = told[d]
    BY <1>0, <1>7 DEF Failover, Lose
  <2> QED
    BY <1>0, <1>2, <1>7, <2>1, <2>2 DEF Failover
<1>8. CASE Apply \/ UNCHANGED vars
  BY <1>0, <1>2, <1>8 DEF Apply, vars
<1> QED
  BY <1>1, <1>3, <1>4, <1>5, <1>6, <1>7, <1>8 DEF Next, Serve

-----------------------------------------------------------------------------
LEMMA Inductive == Spec => []IInv
<1>1. Init => IInv
  <2> SUFFICES ASSUME Init PROVE IInv
    OBVIOUS
  <2>1. TypeOK
    BY TypeInit
  <2>2. wal = <<>> /\ Len(wal) = 0 /\ DOMAIN wal = {}
    BY DEF Init
  <2>3. \A c \in Call : phase[c] = "out"
    BY DEF Init
  <2> QED
    BY <2>1, <2>2, <2>3 DEF IInv, OneRun, Origins, Holders, Holds, Waiters, AckedDurable
<1>2. IInv /\ [Next]_vars => IInv'
  BY TypeNext, LogNext, HoldersNext, WaitersNext, AckedNext DEF IInv
<1> QED
  BY <1>1, <1>2, PTL DEF Spec

(* Every reachable state has the declared types (OrderTxn.TypeOK).         *)
THEOREM TypeCorrect == Spec => []TypeOK
<1>1. IInv => TypeOK
  BY DEF IInv
<1> QED
  BY Inductive, <1>1, PTL

(* A key carries out at most one transaction, for any number of deliveries *)
(* and any order of retries, disconnections, restarts and promotions.      *)
THEOREM OneRunHolds == Spec => []OneRun
<1>1. IInv => OneRun
  BY DEF IInv
<1> QED
  BY Inductive, <1>1, PTL

(* Every answer, replays included, names an order that is applied on the   *)
(* standby, so that a promotion cannot take it back.                       *)
THEOREM AckedDurableHolds == Spec => []AckedDurable
<1>1. IInv => AckedDurable
  BY DEF IInv
<1> QED
  BY Inductive, <1>1, PTL

-----------------------------------------------------------------------------
(* The refinement of CommandLog. *)

effectBar == [k \in Keys |-> IF Durable(k) = {} THEN NoCall
                             ELSE wal[CHOOSE i \in Durable(k) : TRUE].order]
toldBar == [c \in Call |-> IF phase[c] = "ok" THEN told[c] ELSE NoCall]

(* The order of a set of runs in a log.                                    *)
EffectOf(w, D) == IF D = {} THEN NoCall ELSE w[CHOOSE i \in D : TRUE].order

LEMMA EffectBar ==
  /\ effectBar = [k \in Keys |-> EffectOf(wal, Durable(k))]
  /\ effectBar' = [k \in Keys |-> EffectOf(wal', Durable(k)')]
BY DEF effectBar, EffectOf

LEMMA EffectOfOne ==
  ASSUME NEW w, NEW j
  PROVE  EffectOf(w, {j}) = w[j].order
BY DEF EffectOf

LEMMA KeysSame == Log!Keys = Keys
BY DEF Log!Keys, Keys

(* Durable commits stay while the applied commits do.                      *)
LEMMA EffectStays ==
  ASSUME TypeOK, applied' = applied, TypeOK', \A i \in 1..applied : wal'[i] = wal[i]
  PROVE  effectBar' = effectBar
<1>1. /\ DOMAIN wal = 1..Len(wal) /\ DOMAIN wal' = 1..Len(wal')
      /\ applied \in Nat /\ Len(wal) \in Nat /\ Len(wal') \in Nat
      /\ applied <= Len(wal) /\ applied <= Len(wal')
  BY DEF TypeOK
<1>2. ASSUME NEW k \in Keys PROVE Durable(k)' = Durable(k)
  BY <1>1 DEF Durable, Runs
<1>3. ASSUME NEW k \in Keys PROVE EffectOf(wal', Durable(k)) = EffectOf(wal, Durable(k))
  <2>1. \A i \in Durable(k) : wal'[i] = wal[i]
    BY <1>1 DEF Durable, Runs
  <2> QED
    BY <2>1 DEF EffectOf
<1> QED
  BY <1>2, <1>3, EffectBar

LEMMA ToldStays ==
  ASSUME \A c \in Call : (phase'[c] = "ok") <=> (phase[c] = "ok"),
         \A c \in Call : phase[c] = "ok" => told'[c] = told[c]
  PROVE  toldBar' = toldBar
BY DEF toldBar

(* With one run per key, the effect of a key is that of its durable run.   *)
LEMMA EffectIs ==
  ASSUME OneRun, NEW k \in Keys, NEW j \in Durable(k)
  PROVE  Durable(k) = {j} /\ effectBar[k] = wal[j].order
<1>1. \A i \in Durable(k) : i = j
  BY DEF OneRun, Durable, Runs
<1>2. Durable(k) = {j}
  BY <1>1
<1>3. (CHOOSE i \in Durable(k) : TRUE) = j
  BY <1>2
<1> QED
  BY <1>2, <1>3 DEF effectBar

LEMMA RefineStep ==
  IInv /\ IInv' /\ [Next]_vars => [Log!Next]_<<effectBar, toldBar>>
<1> SUFFICES ASSUME IInv, IInv', [Next]_vars
             PROVE  (\E c \in Call : Log!Execute(c) \/ Log!Tell(c))
                    \/ (effectBar' = effectBar /\ toldBar' = toldBar)
  BY DEF Log!Next, effectBar, toldBar
<1>0. /\ TypeOK /\ TypeOK' /\ phase \in [Call -> {"out"} \cup Open \cup Closed]
      /\ applied \in Nat /\ applied <= Len(wal) /\ Len(wal) \in Nat
      /\ told \in [Call -> Call \cup {NoCall}]
      /\ DOMAIN wal = 1..Len(wal)
  BY DEF IInv, TypeOK
<1> USE DEF Goto
(* The steps that callers do not see.                                      *)
<1>1. ASSUME NEW c \in Call,
             Receive(c) \/ Insert(c) \/ Refuse(c) \/ Conflict(c) \/ Retry(c)
      PROVE  effectBar' = effectBar /\ toldBar' = toldBar
  <2>1. UNCHANGED <<wal, applied, told>>
    BY <1>1 DEF Receive, Insert, Refuse, Conflict, Retry
  <2>2. \A d \in Call : (phase'[d] = "ok") <=> (phase[d] = "ok")
    BY <1>0, <1>1 DEF Receive, Insert, Refuse, Conflict, Retry
  <2> QED
    BY <1>0, <2>1, <2>2, EffectStays, ToldStays
<1>2. ASSUME NEW c \in Call, CommitRun(c) \/ Replay(c)
      PROVE  effectBar' = effectBar /\ toldBar' = toldBar
  <2>1. \A i \in 1..applied : wal'[i] = wal[i]
    <3>1. PICK r : wal' = Append(wal, r)
      BY <1>2 DEF CommitRun, Replay
    <3> QED
      BY <1>0, <3>1 DEF TypeOK
  <2>2. \A d \in Call : /\ (phase'[d] = "ok") <=> (phase[d] = "ok")
                        /\ phase[d] = "ok" => told'[d] = told[d]
    BY <1>0, <1>2 DEF CommitRun, Replay
  <2>3. applied' = applied
    BY <1>2 DEF CommitRun, Replay
  <2> QED
    BY <1>0, <2>1, <2>2, <2>3, EffectStays, ToldStays
<1>3. ASSUME NEW lost \in SUBSET Call, Lose(lost), \A c \in lost : phase[c] # "ok",
             applied' = applied, \A i \in 1..applied : wal'[i] = wal[i]
      PROVE  effectBar' = effectBar /\ toldBar' = toldBar
  <2>1. \A d \in Call : /\ (phase'[d] = "ok") <=> (phase[d] = "ok")
                        /\ phase[d] = "ok" => told'[d] = told[d]
    BY <1>0, <1>3 DEF Lose
  <2> QED
    BY <1>0, <1>3, <2>1, EffectStays, ToldStays
<1>4. ASSUME NEW c \in Call, Disconnect(c)
      PROVE  effectBar' = effectBar /\ toldBar' = toldBar
  BY <1>3, <1>4 DEF Disconnect, Open
<1>5. CASE Restart
  BY <1>3, <1>5 DEF Restart, InFlight, Open
<1>6. CASE Failover
  <2>1. \A i \in 1..applied : wal'[i] = wal[i]
    BY <1>0, <1>6 DEF Failover, TypeOK
  <2> QED
    BY <1>3, <1>6, <2>1 DEF Failover, InFlight, Open
(* An answer names the effect of its key.                                  *)
<1>7. ASSUME NEW c \in Call, Acknowledge(c) PROVE Log!Tell(c)
  <2>1. phase[c] = "waiting" /\ phase'[c] = "ok" /\ told'[c] = told[c]
    BY <1>0, <1>7 DEF Acknowledge
  <2>2. /\ BodyOf[told[c]] = BodyOf[c]
        /\ \E i \in 1..applied : wal[i].run /\ wal[i].key = KeyOf[c] /\ wal[i].order = told[c]
    <3>1. UNCHANGED <<wal, applied, told>>
      BY <1>7 DEF Acknowledge
    <3> QED
      BY <2>1, <3>1 DEF IInv, AckedDurable
  <2>3. PICK j \in 1..applied : wal[j].run /\ wal[j].key = KeyOf[c] /\ wal[j].order = told[c]
    BY <2>2
  <2>4. j \in Durable(KeyOf[c])
    BY <1>0, <2>3 DEF Durable, Runs
  <2>5. effectBar[KeyOf[c]] = told[c]
    BY <2>3, <2>4, EffectIs, KeyType DEF IInv
  <2>6. told[c] \in Call
    <3>1. wal[j] \in Commit
      BY <1>0 DEF TypeOK
    <3> QED
      BY <2>3, <3>1 DEF Commit
  <2>7. effectBar' = effectBar
    BY <1>0, <1>7, EffectStays DEF Acknowledge
  <2>8. toldBar' = [toldBar EXCEPT ![c] = effectBar[KeyOf[c]]]
    BY <1>0, <1>7, <2>1, <2>5 DEF toldBar, Acknowledge
  <2>9. toldBar[c] = NoCall
    BY <2>1 DEF toldBar
  <2> QED
    BY <2>2, <2>5, <2>6, <2>7, <2>8, <2>9, TxnAssumption DEF Log!Tell, effectBar, toldBar
(* A commit takes effect when the standby has applied it.                  *)
<1>8. ASSUME Apply
      PROVE  (\E c \in Call : Log!Execute(c)) \/ (effectBar' = effectBar /\ toldBar' = toldBar)
  <2> DEFINE n == applied + 1
  <2>1. /\ n \in 1..Len(wal) /\ applied' = n /\ wal' = wal
        /\ UNCHANGED <<phase, told>>
    BY <1>0, <1>8 DEF Apply
  <2>2. toldBar' = toldBar
    BY <2>1 DEF toldBar
  <2>3. \A k \in Keys : Durable(k)' = Durable(k) \cup {i \in {n} : wal[n].run /\ wal[n].key = k}
    BY <1>0, <2>1 DEF Durable, Runs
  <2>4. CASE ~wal[n].run
    <3>1. \A k \in Keys : Durable(k)' = Durable(k)
      BY <2>3, <2>4
    <3>2. effectBar' = effectBar
      BY <2>1, <3>1, EffectBar
    <3> QED
      BY <2>2, <3>2
  <2>5. CASE wal[n].run
    <3>1. wal[n] \in Commit
      BY <1>0, <2>1 DEF TypeOK
    <3>2. wal[n].order \in Call
      BY <3>1 DEF Commit
    <3>11. PICK k0 \in Keys : wal[n].key = k0
      BY <3>1 DEF Commit
    <3>3. KeyOf[wal[n].order] = k0
      BY <2>1, <3>11 DEF IInv, Origins, Origin
    <3>4. Durable(k0) = {}
      <4>1. ASSUME NEW i \in Durable(k0) PROVE FALSE
        <5>1. i \in DOMAIN wal /\ wal[i].run /\ wal[i].key = k0 /\ i <= applied
          BY DEF Durable, Runs
        <5>2. i = n
          BY <1>0, <2>1, <2>5, <3>11, <5>1 DEF IInv, OneRun
        <5> QED
          BY <1>0, <5>1, <5>2
      <4> QED
        BY <4>1
    <3>5. effectBar[k0] = NoCall
      BY <3>4 DEF effectBar
    <3>6. Durable(k0)' = {n}
      <4>1. Durable(k0)' = Durable(k0) \cup {i \in {n} : wal[n].run /\ wal[n].key = k0}
        BY <2>3
      <4> QED
        BY <2>5, <3>4, <3>11, <4>1
    <3>7. effectBar'[k0] = wal[n].order
      BY <2>1, <3>6, EffectBar, EffectOfOne
    <3>8. \A k \in Keys : k # k0 => effectBar'[k] = effectBar[k]
      <4>1. \A k \in Keys : k # k0 => Durable(k)' = Durable(k)
        BY <2>3, <3>11
      <4> QED
        BY <2>1, <4>1, EffectBar
    <3>9. effectBar' = [effectBar EXCEPT ![k0] = wal[n].order]
      BY <3>7, <3>8 DEF effectBar
    <3> HIDE DEF n
    <3>10. Log!Execute(wal[n].order)
      BY <2>2, <3>2, <3>3, <3>5, <3>9 DEF Log!Execute, effectBar, toldBar
    <3> QED
      BY <3>2, <3>10
  <2> QED
    BY <2>4, <2>5
<1>9. CASE UNCHANGED vars
  BY <1>0, <1>9, EffectStays, ToldStays DEF vars
<1> QED
  BY <1>1, <1>2, <1>4, <1>5, <1>6, <1>7, <1>8, <1>9 DEF Next, Serve

(* Every behaviour of transactions, retries and failovers is one of        *)
(* CommandLog: at most one effect per key, effects stay, answers name them.*)
THEOREM TxnImplementsLog == Spec => ImplementsLog
<1>1. Init => Log!Init
  <2> SUFFICES ASSUME Init PROVE Log!Init
    OBVIOUS
  <2>1. \A k \in Keys : Durable(k) = {}
    BY DEF Init, Durable, Runs
  <2>2. \A c \in Call : phase[c] # "ok"
    BY DEF Init
  <2> QED
    BY <2>1, <2>2, KeysSame DEF Log!Init
<1>2. IInv /\ IInv' /\ [Next]_vars => [Log!Next]_<<effectBar, toldBar>>
  BY RefineStep
<1> QED
  BY <1>1, <1>2, Inductive, PTL DEF Spec, ImplementsLog, Log!Spec, effectBar, toldBar
=============================================================================
