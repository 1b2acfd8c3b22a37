------------------------------ MODULE OrderTxn ------------------------------
(***************************************************************************)
(* How an order command is carried out once: transact (transaction.ts)     *)
(* runs idempotent (order-idempotency.ts) in a transaction, on a primary   *)
(* database with one synchronous standby and remote_apply (infra/HA.md).   *)
(* Deliveries of one command arrive together, transactions are retried,    *)
(* connections break, and the primary restarts or is replaced.             *)
(***************************************************************************)
EXTENDS Naturals, Sequences

CONSTANTS
  Call,         \* deliveries of order commands to the API
  KeyOf,        \* KeyOf[c]: actor, operation and idempotency key of c
  BodyOf,       \* BodyOf[c]: hash of the payload of c
  NoCall,
  MaxAttempts   \* transactionPolicy.defaultAttempts

ASSUME TxnAssumption ==
  /\ DOMAIN KeyOf = Call /\ DOMAIN BodyOf = Call
  /\ NoCall \notin Call
  /\ MaxAttempts \in Nat \ {0}

VARIABLES
  wal,      \* the commits of the primary, in order
  applied,  \* how many of them the standby has applied
  phase,    \* phase[c]: how far delivery c has come
  attempt,  \* attempt[c]: the number of its transaction
  lsn,      \* lsn[c]: the commit whose application it waits for
  told      \* told[c]: the order named by its answer

vars == <<wal, applied, phase, attempt, lsn, told>>

Keys == {KeyOf[c] : c \in Call}
Open == {"begun", "holding", "replaying", "waiting"}
Closed == {"ok", "refused", "failed"}

(* A commit that carried out a command, or one that rewrote its record.    *)
Commit == [key : Keys, order : Call, run : BOOLEAN]

TypeOK ==
  /\ wal \in Seq(Commit)
  /\ applied \in 0..Len(wal)
  /\ phase \in [Call -> {"out"} \cup Open \cup Closed]
  /\ attempt \in [Call -> 1..MaxAttempts]
  /\ lsn \in [Call -> Nat]
  /\ told \in [Call -> Call \cup {NoCall}]

Init ==
  /\ wal = <<>> /\ applied = 0
  /\ phase = [c \in Call |-> "out"]
  /\ attempt = [c \in Call |-> 1]
  /\ lsn = [c \in Call |-> 0]
  /\ told = [c \in Call |-> NoCall]

-----------------------------------------------------------------------------
(* The row of the key is locked by a transaction that inserted or rewrote  *)
(* it, until its commit is applied on the standby or its session ends.     *)
Holds(c, k) == KeyOf[c] = k /\ phase[c] \in {"holding", "waiting"}
Locked(k) == \E c \in Call : Holds(c, k)

Runs(k) == {i \in DOMAIN wal : wal[i].run /\ wal[i].key = k}
Recorded(k) == Runs(k) # {}
Record(k) == wal[CHOOSE i \in Runs(k) : TRUE].order

Goto(c, p) == phase' = [phase EXCEPT ![c] = p]

-----------------------------------------------------------------------------
Receive(c) ==
  /\ phase[c] = "out"
  /\ Goto(c, "begun")
  /\ UNCHANGED <<wal, applied, attempt, lsn, told>>

(* Fault: an insert that does not wait for the transaction that holds the  *)
(* key, as a look at the committed rows would not.                         *)
InsertAtOnce(c) ==
  /\ phase[c] = "begun"
  /\ Goto(c, IF Recorded(KeyOf[c]) THEN "replaying" ELSE "holding")
  /\ UNCHANGED <<wal, applied, attempt, lsn, told>>

(* INSERT ... ON CONFLICT DO NOTHING waits for a transaction that holds    *)
(* the key, and then finds the record or is alone with the key.            *)
Insert(c) ==
  /\ phase[c] = "begun"
  /\ ~Locked(KeyOf[c])
  /\ Goto(c, IF Recorded(KeyOf[c]) THEN "replaying" ELSE "holding")
  /\ UNCHANGED <<wal, applied, attempt, lsn, told>>

(* The account is not active, or work() throws a DomainError: the          *)
(* transaction and its key are rolled back.                                *)
Refuse(c) ==
  /\ phase[c] \in {"begun", "holding"}
  /\ Goto(c, "refused")
  /\ UNCHANGED <<wal, applied, attempt, lsn, told>>

(* work() and the result are committed together.                           *)
CommitRun(c) ==
  /\ phase[c] = "holding"
  /\ wal' = Append(wal, [key |-> KeyOf[c], order |-> c, run |-> TRUE])
  /\ lsn' = [lsn EXCEPT ![c] = Len(wal) + 1]
  /\ told' = [told EXCEPT ![c] = c]
  /\ Goto(c, "waiting")
  /\ UNCHANGED <<applied, attempt>>

(* The recorded hash is another one: IDEMPOTENCY_CONFLICT.                 *)
Conflict(c) ==
  /\ phase[c] = "replaying"
  /\ BodyOf[Record(KeyOf[c])] # BodyOf[c]
  /\ Goto(c, "refused")
  /\ UNCHANGED <<wal, applied, attempt, lsn, told>>

(* Fault: a replay that only reads.                                        *)
ReplayReadOnly(c) ==
  /\ phase[c] = "replaying"
  /\ BodyOf[Record(KeyOf[c])] = BodyOf[c]
  /\ told' = [told EXCEPT ![c] = Record(KeyOf[c])]
  /\ Goto(c, "ok")
  /\ UNCHANGED <<wal, applied, attempt, lsn>>

(* A replay rewrites the record it read, so that its own commit has to     *)
(* pass the standby.                                                       *)
Replay(c) ==
  /\ phase[c] = "replaying"
  /\ BodyOf[Record(KeyOf[c])] = BodyOf[c]
  /\ ~Locked(KeyOf[c])
  /\ wal' = Append(wal, [key |-> KeyOf[c], order |-> Record(KeyOf[c]), run |-> FALSE])
  /\ lsn' = [lsn EXCEPT ![c] = Len(wal) + 1]
  /\ told' = [told EXCEPT ![c] = Record(KeyOf[c])]
  /\ Goto(c, "waiting")
  /\ UNCHANGED <<applied, attempt>>

(* Fault: a transaction is tried again without counting.                   *)
RetryForever(c) ==
  /\ phase[c] \in {"begun", "holding", "replaying"}
  /\ Goto(c, "begun")
  /\ UNCHANGED <<wal, applied, attempt, lsn, told>>

(* A lock timeout, a deadlock or a serialization failure rolls back; the   *)
(* work is tried again from the start, RETRY_EXHAUSTED after the last one. *)
Retry(c) ==
  /\ phase[c] \in {"begun", "holding", "replaying"}
  /\ IF attempt[c] < MaxAttempts
     THEN attempt' = [attempt EXCEPT ![c] = @ + 1] /\ Goto(c, "begun")
     ELSE Goto(c, "failed") /\ UNCHANGED attempt
  /\ UNCHANGED <<wal, applied, lsn, told>>

(* COMMIT returns once the standby has applied it.                         *)
Acknowledge(c) ==
  /\ phase[c] = "waiting"
  /\ lsn[c] <= applied
  /\ Goto(c, "ok")
  /\ UNCHANGED <<wal, applied, attempt, lsn, told>>

(* The connection or the API process is lost: what was not committed is    *)
(* rolled back, what was committed stays, and the caller knows neither.    *)
Lose(lost) ==
  /\ phase' = [c \in Call |-> IF c \in lost THEN "failed" ELSE phase[c]]
  /\ told' = [c \in Call |-> IF c \in lost THEN NoCall ELSE told[c]]

Disconnect(c) ==
  /\ phase[c] \in Open
  /\ Lose({c})
  /\ UNCHANGED <<wal, applied, attempt, lsn>>

InFlight == {c \in Call : phase[c] \in Open}

-----------------------------------------------------------------------------
(* The databases. *)

Apply ==
  /\ applied < Len(wal)
  /\ applied' = applied + 1
  /\ UNCHANGED <<wal, phase, attempt, lsn, told>>

(* The primary crashes and comes back with all it had committed.           *)
Restart ==
  /\ Lose(InFlight)
  /\ UNCHANGED <<wal, applied, attempt, lsn>>

(* The standby is promoted; a new standby is published once it has caught  *)
(* up (synchronous_mode_strict).                                           *)
Failover ==
  /\ wal' = SubSeq(wal, 1, applied)
  /\ Lose(InFlight)
  /\ UNCHANGED <<applied, attempt, lsn>>

-----------------------------------------------------------------------------
Serve(c) ==
  \/ Insert(c)
  \/ CommitRun(c)
  \/ Conflict(c)
  \/ Replay(c)
  \/ Retry(c)
  \/ Acknowledge(c)

Next ==
  \/ \E c \in Call : Receive(c) \/ Serve(c) \/ Refuse(c) \/ Disconnect(c)
  \/ Apply \/ Restart \/ Failover

Spec == Init /\ [][Next]_vars

(* The API goes on with what it has begun and the standby with what it     *)
(* receives; nothing is assumed of callers and failures.                   *)
LiveSpec == Spec /\ WF_vars(Apply) /\ \A c \in Call : WF_vars(Serve(c))

-----------------------------------------------------------------------------
(* A key carries out at most one transaction on the primary, whatever      *)
(* duplicates, retries and lost connections do (order-idempotency.ts 20).  *)
OneRun ==
  \A i, j \in DOMAIN wal :
    wal[i].run /\ wal[j].run /\ wal[i].key = wal[j].key => i = j

(* An answer names an order that was created for the same key and payload, *)
(* and that no restart or promotion can lose: replays included             *)
(* (order-idempotency.ts 35-41).                                           *)
AckedDurable ==
  \A c \in Call :
    phase[c] = "ok" =>
      /\ BodyOf[told[c]] = BodyOf[c]
      /\ \E i \in 1..applied : /\ wal[i].run
                               /\ wal[i].key = KeyOf[c]
                               /\ wal[i].order = told[c]

(* Every delivery that begins is answered: attempts are limited and no two *)
(* deliveries wait for each other (transaction.ts 50-66).                  *)
Answered == \A c \in Call : (phase[c] = "begun") ~> (phase[c] \in Closed)

(* What is applied is what the outside may rely on.                        *)
Durable(k) == {i \in Runs(k) : i <= applied}

Log == INSTANCE CommandLog WITH
  effect <- [k \in Keys |-> IF Durable(k) = {} THEN NoCall
                            ELSE wal[CHOOSE i \in Durable(k) : TRUE].order],
  told   <- [c \in Call |-> IF phase[c] = "ok" THEN told[c] ELSE NoCall]

(* Every step is one of CommandLog, or invisible to callers.               *)
ImplementsLog == Log!Spec
=============================================================================
