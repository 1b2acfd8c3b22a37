------------------------------- MODULE SignIn -------------------------------
(***************************************************************************)
(* Signing in with a password: windows that count attempts, a gate on the  *)
(* hashes of one instance, a check of the password without a lock, and a   *)
(* second look under the account's lock before the session is issued.      *)
(***************************************************************************)
EXTENDS Naturals, FiniteSets

CONSTANTS
  Account, Browser, Request, None,
  Limit,      \* attempts in a window: of an address, and of a name
  MaxHashes,  \* maxConcurrentHashesPerInstance
  MaxResets,  \* bound: passwords an account has had, less one
  MaxSessions \* bound: sessions ever issued

VARIABLES
  password, \* AccountCredential: which of its passwords an account has
  session,  \* Session
  cookie,   \* the session each browser holds
  bucket,   \* AuthRateBucket, by address ("ip") or by name
  hashes,   \* activeHashes
  request,
  passed    \* history: attempts let through since the window began

vars == <<password, session, cookie, bucket, hashes, request, passed>>

Bucket == {"ip"} \cup Account
Cap(k) == IF k = "ip" THEN Limit.ip ELSE Limit.name
Version == 0..MaxResets
Id == 1..MaxSessions
NoRequest == [step |-> "idle", account |-> None, browser |-> None, old |-> None,
              guess |-> 0, got |-> None]
NoBucket == [count |-> 0, open |-> FALSE]

TypeOK ==
  /\ password \in [Account -> Version]
  /\ DOMAIN session \subseteq Id
  /\ \A s \in DOMAIN session :
       session[s] \in [account : Account, by : Version, live : BOOLEAN]
  /\ cookie \in [Browser -> Id \cup {None}]
  /\ bucket \in [Bucket -> [count : 0..(Limit.ip + Limit.name), open : BOOLEAN]]
  /\ hashes \in 0..MaxHashes
  /\ request \in [Request ->
       [step : {"idle", "name", "gate", "hash", "issue", "answer"},
        account : Account \cup {None}, browser : Browser \cup {None},
        old : Id \cup {None}, guess : Version, got : Id \cup {None}]]
  /\ passed \in [Bucket -> Nat]

Init ==
  /\ password = [a \in Account |-> 0]
  /\ session = [s \in {} |-> None]
  /\ cookie = [b \in Browser |-> None]
  /\ bucket = [k \in Bucket |-> NoBucket]
  /\ hashes = 0
  /\ request = [r \in Request |-> NoRequest]
  /\ passed = [k \in Bucket |-> 0]

-----------------------------------------------------------------------------
(* consume: one statement that counts an attempt or starts a new window.   *)
Free(k) == ~bucket[k].open \/ bucket[k].count < Cap(k)
Consume(k) ==
  /\ bucket' = [bucket EXCEPT ![k] =
       [count |-> IF bucket[k].open THEN bucket[k].count + 1 ELSE 1, open |-> TRUE]]
  /\ passed' = [passed EXCEPT ![k] = @ + 1]

WindowEnds(k) ==
  /\ bucket[k].open
  /\ bucket' = [bucket EXCEPT ![k].open = FALSE]
  /\ passed' = [passed EXCEPT ![k] = 0]
  /\ UNCHANGED <<password, session, cookie, hashes, request>>

Prune(k) ==
  /\ bucket[k] # NoBucket /\ ~bucket[k].open
  /\ bucket' = [bucket EXCEPT ![k] = NoBucket]
  /\ UNCHANGED <<password, session, cookie, hashes, request, passed>>

-----------------------------------------------------------------------------
Goto(r, s) == request' = [request EXCEPT ![r].step = s]
End(r) == request' = [request EXCEPT ![r] = NoRequest]

Login(r, b, a, v) ==
  /\ request[r].step = "idle" /\ Free("ip")
  /\ Consume("ip")
  /\ request' = [request EXCEPT ![r] =
       [step |-> "name", account |-> a, browser |-> b, old |-> cookie[b],
        guess |-> v, got |-> None]]
  /\ UNCHANGED <<password, session, cookie, hashes>>

Count(r) ==
  LET a == request[r].account IN
  /\ request[r].step = "name"
  /\ \/ Free(a) /\ Consume(a) /\ Goto(r, "gate")
     \/ ~Free(a) /\ End(r) /\ UNCHANGED <<bucket, passed>>
  /\ UNCHANGED <<password, session, cookie, hashes>>

Enter(r) ==
  /\ request[r].step = "gate"
  /\ \/ hashes < MaxHashes /\ hashes' = hashes + 1 /\ Goto(r, "hash")
     \/ hashes >= MaxHashes /\ End(r) /\ UNCHANGED hashes
  /\ UNCHANGED <<password, session, cookie, bucket, passed>>

Leave(r) == hashes' = hashes - 1 /\ End(r)

Hash(r) ==
  /\ request[r].step = "hash"
  /\ IF password[request[r].account] = request[r].guess
       THEN Goto(r, "issue") /\ UNCHANGED hashes ELSE Leave(r)
  /\ UNCHANGED <<password, session, cookie, bucket, passed>>

Revoked(ids) ==
  [s \in DOMAIN session |-> IF s \in ids THEN [session[s] EXCEPT !.live = FALSE]
                                         ELSE session[s]]

NextId == Cardinality(DOMAIN session) + 1

IssueSession(r) ==
  LET a == request[r].account
      rest == Revoked({request[r].old})
  IN
  /\ NextId \in Id
  /\ session' = [s \in DOMAIN session \cup {NextId} |->
       IF s = NextId THEN [account |-> a, by |-> request[r].guess, live |-> TRUE]
                     ELSE rest[s]]
  /\ request' = [request EXCEPT ![r].step = "answer", ![r].got = NextId]
  /\ hashes' = hashes - 1

(* Fault: the session is issued on the first look alone.                   *)
IssueUnchecked(r) ==
  /\ request[r].step = "issue"
  /\ IssueSession(r)
  /\ UNCHANGED <<password, cookie, bucket, passed>>

Issue(r) ==
  /\ request[r].step = "issue"
  /\ \/ password[request[r].account] = request[r].guess /\ IssueSession(r)
     \/ password[request[r].account] # request[r].guess /\ Leave(r) /\ UNCHANGED session
  /\ UNCHANGED <<password, cookie, bucket, passed>>

(* The database fails in the middle: the gate is left all the same.        *)
Break(r) ==
  /\ request[r].step \in {"hash", "issue"}
  /\ Leave(r)
  /\ UNCHANGED <<password, session, cookie, bucket, passed>>

(* The answer sets the cookie, or is lost on the way.                      *)
Answer(r) ==
  /\ request[r].step = "answer"
  /\ \/ cookie' = [cookie EXCEPT ![request[r].browser] = request[r].got]
     \/ UNCHANGED cookie
  /\ End(r)
  /\ UNCHANGED <<password, session, bucket, hashes, passed>>

-----------------------------------------------------------------------------
LiveOf(b) == cookie[b] \in DOMAIN session /\ session[cookie[b]].live

Logout(b) ==
  /\ LiveOf(b)
  /\ session' = Revoked({cookie[b]})
  /\ cookie' = [cookie EXCEPT ![b] = None]
  /\ UNCHANGED <<password, bucket, hashes, request, passed>>

Expire(s) ==
  /\ s \in DOMAIN session /\ session[s].live
  /\ session' = Revoked({s})
  /\ UNCHANGED <<password, cookie, bucket, hashes, request, passed>>

(* resetPassword: a new password, and every session of the account ends.   *)
Reset(a) ==
  /\ password[a] < MaxResets
  /\ password' = [password EXCEPT ![a] = @ + 1]
  /\ session' = Revoked({s \in DOMAIN session : session[s].account = a})
  /\ UNCHANGED <<cookie, bucket, hashes, request, passed>>

Next ==
  \/ \E k \in Bucket : WindowEnds(k) \/ Prune(k)
  \/ \E r \in Request, b \in Browser, a \in Account, v \in Version : Login(r, b, a, v)
  \/ \E r \in Request : \/ Count(r) \/ Enter(r) \/ Hash(r)
                        \/ Issue(r) \/ Break(r) \/ Answer(r)
  \/ \E b \in Browser : Logout(b)
  \/ \E s \in Id : Expire(s)
  \/ \E a \in Account : Reset(a)

Spec == Init /\ [][Next]_vars

-----------------------------------------------------------------------------
(* No session outlives its password: one that is live was issued on the    *)
(* password the account has now, however a reset falls between the check   *)
(* of the password and the insert of the session.                          *)
SessionsCurrent ==
  \A s \in DOMAIN session :
    session[s].live => session[s].by = password[session[s].account]

(* In one window no more attempts pass than the limit, though expired      *)
(* buckets are deleted while attempts arrive.                              *)
RateHeld == \A k \in Bucket : passed[k] <= Cap(k)

=============================================================================
