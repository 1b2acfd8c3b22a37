------------------------------- MODULE Codes -------------------------------
(***************************************************************************)
(* Proofs that can be used once: the code mailed to an address, one live   *)
(* challenge per address and purpose, and the attempt behind a Google      *)
(* redirect, bound to the browser that began it. Codes are mailed while    *)
(* newer ones are asked for, and answers come twice, late and wrong.       *)
(***************************************************************************)
EXTENDS Naturals, FiniteSets

CONSTANTS
  Mailbox,  \* an address and a purpose: one challenge each
  Account,  \* accounts that bind an address
  Sender,   \* requests for a code in progress
  Attempt,  \* Google attempts
  Browser,
  Callback, \* Google callbacks in progress
  None,
  MaxTries, \* wrong codes a challenge takes
  MaxSends  \* bound: codes ever made for a mailbox

VARIABLES
  challenge, \* EmailCodeChallenge
  sender,    \* the code each request is mailing
  mailed,    \* the codes that reached their mailbox
  failed,    \* the codes whose mail failed
  attempt,   \* GoogleOAuthAttempt
  callback,
  wrong,     \* history: wrong codes compared with each challenge
  accepted   \* history: times each proof was accepted

vars == <<challenge, sender, mailed, failed, attempt, callback, wrong, accepted>>

Code == Mailbox \X (1..MaxSends)
Proof == Code \cup Attempt
NoChallenge == [id |-> 0, by |-> None, tries |-> 0, used |-> FALSE,
                fresh |-> FALSE, live |-> FALSE]

TypeOK ==
  /\ challenge \in [Mailbox -> [id : 0..MaxSends, by : Account \cup {None},
                                tries : 0..MaxTries, used : BOOLEAN,
                                fresh : BOOLEAN, live : BOOLEAN]]
  /\ sender \in [Sender -> Code \cup {None}]
  /\ mailed \subseteq Code /\ failed \subseteq Code
  /\ attempt \in [Attempt -> [browser : Browser \cup {None},
                              state : {"none", "open", "used", "expired"}]]
  /\ callback \in [Callback -> Attempt \cup {None}]
  /\ wrong \in [Code -> Nat] /\ accepted \in [Proof -> Nat]

Init ==
  /\ challenge = [m \in Mailbox |-> NoChallenge]
  /\ sender = [s \in Sender |-> None]
  /\ mailed = {} /\ failed = {}
  /\ attempt = [g \in Attempt |-> [browser |-> None, state |-> "none"]]
  /\ callback = [c \in Callback |-> None]
  /\ wrong = [p \in Code |-> 0] /\ accepted = [p \in Proof |-> 0]

google == <<attempt, callback>>
history == <<wrong, accepted>>
Current(m) == <<m, challenge[m].id>>
Made(m) == {p \in Code : p[1] = m /\ p \in mailed \cup failed \cup
              {sender[s] : s \in Sender} \cup {Current(m)}}

-----------------------------------------------------------------------------
(* request: a new code replaces one that is spent or a minute old, and is  *)
(* mailed after the row is written.                                        *)

Request(s, m, a) ==
  LET id == Cardinality(Made(m)) + 1 IN
  /\ sender[s] = None /\ id <= MaxSends
  /\ challenge[m].used \/ ~challenge[m].fresh
  /\ challenge' = [challenge EXCEPT ![m] =
       [id |-> id, by |-> a, tries |-> 0, used |-> FALSE, fresh |-> TRUE,
        live |-> TRUE]]
  /\ sender' = [sender EXCEPT ![s] = <<m, id>>]
  /\ UNCHANGED <<mailed, failed, google, history>>

Mail(s) ==
  /\ sender[s] # None
  /\ mailed' = mailed \cup {sender[s]}
  /\ sender' = [sender EXCEPT ![s] = None]
  /\ UNCHANGED <<challenge, failed, google, history>>

(* Fault: whatever challenge the mailbox has is withdrawn.                 *)
WithdrawAny(s) ==
  /\ sender[s] # None
  /\ failed' = failed \cup {sender[s]}
  /\ sender' = [sender EXCEPT ![s] = None]
  /\ challenge' = [challenge EXCEPT ![sender[s][1]].used = TRUE]
  /\ UNCHANGED <<mailed, google, history>>

(* The mail failed, or arrived and seemed to fail: the challenge is        *)
(* withdrawn if it is still this one.                                      *)
Withdraw(s) ==
  LET m == sender[s][1] IN
  /\ sender[s] # None
  /\ failed' = failed \cup {sender[s]}
  /\ mailed' \in {mailed, mailed \cup {sender[s]}}
  /\ sender' = [sender EXCEPT ![s] = None]
  /\ challenge' = IF Current(m) = sender[s]
                   THEN [challenge EXCEPT ![m].used = TRUE] ELSE challenge
  /\ UNCHANGED <<google, history>>

Open(m, a) ==
  /\ challenge[m].id > 0 /\ challenge[m].by = a /\ challenge[m].live /\ ~challenge[m].used
  /\ challenge[m].tries < MaxTries

Accept(m, a, p) ==
  /\ p \in mailed /\ Open(m, a) /\ p = Current(m)
  /\ challenge' = [challenge EXCEPT ![m].used = TRUE]
  /\ accepted' = [accepted EXCEPT ![p] = @ + 1]
  /\ UNCHANGED <<sender, mailed, failed, google, wrong>>

(* Fault: the error thrown rolls the count of tries back.                  *)
RefuseRolledBack(m, a) ==
  /\ Open(m, a)
  /\ wrong' = [wrong EXCEPT ![Current(m)] = @ + 1]
  /\ UNCHANGED <<challenge, sender, mailed, failed, google, accepted>>

(* A wrong code, or an older one.                                          *)
Refuse(m, a) ==
  /\ Open(m, a)
  /\ challenge' = [challenge EXCEPT ![m].tries = @ + 1]
  /\ wrong' = [wrong EXCEPT ![Current(m)] = @ + 1]
  /\ UNCHANGED <<sender, mailed, failed, google, accepted>>

(* A minute, then five, then a day.                                        *)
Cool(m) ==
  /\ challenge[m].fresh
  /\ challenge' = [challenge EXCEPT ![m].fresh = FALSE]
  /\ UNCHANGED <<sender, mailed, failed, google, history>>

Expire(m) ==
  /\ challenge[m].live /\ ~challenge[m].fresh
  /\ challenge' = [challenge EXCEPT ![m].live = FALSE]
  /\ UNCHANGED <<sender, mailed, failed, google, history>>

(* pruneExpiredAuthChallenges                                              *)
Prune(m) ==
  /\ challenge[m].id > 0 /\ ~challenge[m].live
  /\ challenge' = [challenge EXCEPT ![m] = NoChallenge]
  /\ UNCHANGED <<sender, mailed, failed, google, history>>

-----------------------------------------------------------------------------
(* Google: the redirect begins an attempt, its answer spends it before the *)
(* provider is asked for the profile.                                      *)

mail == <<challenge, sender, mailed, failed, wrong>>

Start(g, b) ==
  /\ attempt[g].state = "none"
  /\ attempt' = [attempt EXCEPT ![g] = [browser |-> b, state |-> "open"]]
  /\ UNCHANGED <<mail, callback, accepted>>

(* Fault: the attempt is read here and spent at the end.                   *)
PeekAttempt(c, g, b) ==
  /\ callback[c] = None
  /\ attempt[g] = [browser |-> b, state |-> "open"]
  /\ callback' = [callback EXCEPT ![c] = g]
  /\ UNCHANGED <<mail, attempt, accepted>>

Spend(c, g, b) ==
  /\ callback[c] = None
  /\ attempt[g] = [browser |-> b, state |-> "open"]
  /\ attempt' = [attempt EXCEPT ![g].state = "used"]
  /\ callback' = [callback EXCEPT ![c] = g]
  /\ UNCHANGED <<mail, accepted>>

(* The profile is fetched and the session issued, or something fails.      *)
Exchange(c) ==
  /\ callback[c] # None
  /\ accepted' \in {accepted, [accepted EXCEPT ![callback[c]] = @ + 1]}
  /\ callback' = [callback EXCEPT ![c] = None]
  /\ UNCHANGED <<mail, attempt>>

AttemptEnds(g) ==
  /\ attempt[g].state = "open"
  /\ attempt' = [attempt EXCEPT ![g].state = "expired"]
  /\ UNCHANGED <<mail, callback, accepted>>

PruneAttempt(g) ==
  /\ attempt[g].state \in {"used", "expired"}
  /\ ~\E c \in Callback : callback[c] = g
  /\ attempt' = [attempt EXCEPT ![g].browser = None, ![g].state = "expired"]
  /\ UNCHANGED <<mail, callback, accepted>>

Next ==
  \/ \E s \in Sender : Mail(s) \/ Withdraw(s)
  \/ \E m \in Mailbox, a \in Account \cup {None} :
       \/ \E s \in Sender : Request(s, m, a)
       \/ Refuse(m, a)
       \/ \E p \in Code : Accept(m, a, p)
  \/ \E m \in Mailbox : Cool(m) \/ Expire(m) \/ Prune(m)
  \/ \E g \in Attempt, b \in Browser : Start(g, b) \/ \E c \in Callback : Spend(c, g, b)
  \/ \E c \in Callback : Exchange(c)
  \/ \E g \in Attempt : AttemptEnds(g) \/ PruneAttempt(g)

Spec == Init /\ [][Next]_vars

-----------------------------------------------------------------------------
(* A proof is spent in one way only. A code or an attempt answered twice,  *)
(* at the same time or after a refusal, signs in once; a code takes        *)
(* MaxTries wrong guesses, counting what was refused with an error; and a  *)
(* code that reached its mailbox stays good until it is accepted, dies of  *)
(* such guesses, expires or is replaced: the failure of another mail does  *)
(* not take it away.                                                       *)
ProofsSpent ==
  /\ \A p \in Proof : accepted[p] <= 1
  /\ \A p \in Code : wrong[p] <= MaxTries
  /\ \A m \in Mailbox :
       challenge[m].used /\ Current(m) \in mailed \ failed => accepted[Current(m)] > 0
=============================================================================
