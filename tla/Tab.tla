-------------------------------- MODULE Tab --------------------------------
(***************************************************************************)
(* One tab of the browser: the session it shows, the calls that change it, *)
(* and a page that reads private data and polls it. The cookie belongs to  *)
(* the browser: other tabs, and answers that arrive late, change it under  *)
(* the tab. A request carries the cookie and, from the view, a CSRF token  *)
(* which is derived from one session and accepted with no other.           *)
(***************************************************************************)
EXTENDS Naturals, SequencesExt

CONSTANTS
  Account,
  Sessions, \* bound: the sessions that can be issued, in their order
  MaxCalls, \* bound: calls of the auth store
  None

VARIABLES
  owner,      \* the account of each session issued
  live,       \* sessions not revoked
  jar,        \* the session of the browser's cookie
  view,       \* useAuthStore.view, by the session of its CSRF token
  call,       \* restore, signIn, signOut and e-mail sign-in under way
  latest,     \* history: the last sign-in or sign-out the user began
  read,       \* useApiResource.requestRef and its request
  result,     \* useApiResource.result
  asked       \* history: a reload that no request has begun after

server == <<owner, live>>
store == <<view, call, latest>>
page == <<read, result, asked>>
vars == <<server, jar, store, page>>

Session == ToSet(Sessions)
Call == 1..MaxCalls

(* current: no change of generation since the call was begun.              *)
Unsent == [kind |-> "none", current |-> TRUE, cookie |-> None, csrf |-> None,
           who |-> None, answer |-> "none"]
Over == [Unsent EXCEPT !.kind = "over"]
Answers == {"none", "unauthenticated", "failed", "passed"} \cup Session

TypeOK ==
  /\ owner \in [Session -> Account \cup {None}]
  /\ live \subseteq Session
  /\ jar \in Session \cup {None}
  /\ view \in Session \cup {None}
  /\ call \in [Call -> [kind : {"none", "restore", "login", "verify", "logout", "over"},
                        current : BOOLEAN, cookie : Session \cup {None},
                        csrf : Session \cup {None},
                        who : Account \cup {None}, answer : Answers]]
  /\ latest \in Call \cup {None}
  /\ read # None =>
       read \in [token : Session, cookie : Session \cup {None},
                 answer : {"none", "unauthenticated", "rejected", "failed"} \cup Account,
                 inFlight : BOOLEAN, queued : BOOLEAN, scheduled : BOOLEAN]
  /\ result # None => result \in [token : Session, data : Account \cup {"error"}]
  /\ asked \in BOOLEAN

Init ==
  /\ owner = [s \in Session |-> None]
  /\ live = {} /\ jar = None
  /\ view = None
  /\ call = [c \in Call |-> Unsent]
  /\ latest = None
  /\ read = None /\ result = None /\ asked = FALSE

-----------------------------------------------------------------------------
(* The server: the guard, and the sessions.                                *)

Unissued(i) == owner[Sessions[i]] = None

Issue(s, a, cookie) ==
  /\ \E i \in DOMAIN Sessions :
       s = Sessions[i] /\ Unissued(i) /\ \A j \in 1..i - 1 : ~Unissued(j)
  /\ owner' = [owner EXCEPT ![s] = a]
  /\ live' = (live \ {cookie}) \cup {s}

(* Fault: the token is any token, not that of the cookie's session.        *)
GuardUnbound(cookie, csrf) ==
  IF cookie \in live THEN "passed" ELSE "unauthenticated"

Guard(cookie, csrf) ==
  CASE cookie \notin live -> "unauthenticated"
    [] cookie \in live /\ csrf # cookie -> "rejected"
    [] OTHER -> "passed"

(* Another tab of the browser signs in or out.                             *)
OtherTab ==
  /\ \/ \E s \in Session, a \in Account : Issue(s, a, jar) /\ jar' = s
     \/ /\ jar # None
        /\ jar' = None
        /\ live' = live \ {jar} /\ UNCHANGED owner
  /\ UNCHANGED <<store, page>>

-----------------------------------------------------------------------------
(* The auth store. *)

Sent(kind, csrf, who) == [kind |-> kind, current |-> TRUE, cookie |-> jar,
                          csrf |-> csrf, who |-> who, answer |-> "none"]

Unused(c) == call[c].kind = "none" /\ \A d \in Call : d < c => call[d].kind # "none"

(* ++generation: no answer is current but that of the call begun with it.  *)
Outdated == [c \in Call |-> IF call[c].kind \in {"none", "over"} THEN call[c]
                             ELSE [call[c] EXCEPT !.current = FALSE]]

(* Mounting the layout, which a change of locale does again.               *)
Restore(c) ==
  /\ Unused(c) /\ ~\E d \in Call : call[d].kind = "restore"
  /\ call' = [call EXCEPT ![c] = Sent("restore", None, None)]
  /\ UNCHANGED <<server, jar, view, latest, page>>

(* Fault: signing in leaves the generation as it is.                       *)
SignInQuietly(c, a) ==
  /\ Unused(c)
  /\ call' = [call EXCEPT ![c] = Sent("login", None, a)]
  /\ latest' = c
  /\ UNCHANGED <<server, jar, view, page>>

SignIn(c, a) ==
  /\ Unused(c)
  /\ call' = [Outdated EXCEPT ![c] = Sent("login", None, a)]
  /\ latest' = c
  /\ UNCHANGED <<server, jar, view, page>>

VerifyCode(c, a) ==
  /\ Unused(c)
  /\ call' = [call EXCEPT ![c] = Sent("verify", None, a)]
  /\ UNCHANGED <<server, jar, view, latest, page>>

SignOut(c) ==
  /\ Unused(c) /\ view # None
  /\ call' = [Outdated EXCEPT ![c] = Sent("logout", view, None)]
  /\ latest' = c
  /\ UNCHANGED <<server, jar, view, page>>

Serve(c) ==
  /\ call[c].kind \notin {"none", "over"} /\ call[c].answer = "none"
  /\ \/ /\ call[c].kind = "restore"
        /\ call' = [call EXCEPT ![c].answer = IF call[c].cookie \in live
                      THEN call[c].cookie ELSE "unauthenticated"]
        /\ UNCHANGED server
     \/ /\ call[c].kind \in {"login", "verify"}
        /\ \E s \in Session : /\ Issue(s, call[c].who, call[c].cookie)
                              /\ call' = [call EXCEPT ![c].answer = s]
     \/ /\ call[c].kind = "logout"
        /\ LET g == Guard(call[c].cookie, call[c].csrf) IN
           /\ live' = IF g = "passed" THEN live \ {call[c].cookie} ELSE live
           /\ call' = [call EXCEPT ![c].answer =
                         IF g = "rejected" THEN "failed" ELSE g]
        /\ UNCHANGED owner
  /\ UNCHANGED <<jar, view, latest, page>>

(* A wrong password, an error, or no answer.                               *)
Fail(c) ==
  /\ call[c].kind \notin {"none", "over"} /\ call[c].answer = "none"
  /\ call' = [call EXCEPT ![c].answer = "failed"]
  /\ UNCHANGED <<server, jar, view, latest, page>>

(* The cookie of an answer is taken whatever the store makes of it.        *)
TakeCookie(c) ==
  LET k == call[c] IN
  CASE k.kind \in {"login", "verify"} /\ k.answer \in Session -> jar' = k.answer
    [] k.kind = "logout" /\ k.answer = "passed" -> jar' = None
    [] OTHER -> jar' = jar

Current(c) == call[c].current

Settle(c) ==
  LET k == call[c] IN
  CASE k.kind = "restore" ->
         view' = IF ~Current(c) THEN view
                 ELSE IF k.answer \in Session THEN k.answer ELSE None
    [] k.kind = "login" ->
         view' = IF ~Current(c) THEN view
                 ELSE IF k.answer \in Session THEN k.answer ELSE None
    [] k.kind = "verify" ->
         view' = IF k.answer \in Session THEN k.answer ELSE view
    [] k.kind = "logout" ->
         view' = IF Current(c) /\ k.answer \in {"passed", "unauthenticated"}
                   THEN None ELSE view

Answer(c) ==
  /\ call[c].answer # "none"
  /\ TakeCookie(c) /\ Settle(c)
  /\ IF call[c].kind = "verify" /\ call[c].answer \in Session
       THEN latest' = None /\ call' = [Outdated EXCEPT ![c] = Over]
       ELSE /\ latest' = IF latest = c THEN None ELSE latest
            /\ call' = [call EXCEPT ![c] = Over]
  /\ UNCHANGED <<server, page>>

-----------------------------------------------------------------------------
(* The page.                                                               *)

(* The effect runs again when the token or the revision has changed; its   *)
(* clean-up aborts the request before.                                     *)
Render ==
  /\ \/ read = None /\ view # None
     \/ read # None /\ (read.token # view \/ read.scheduled)
  /\ read' = IF view = None THEN None
             ELSE [token |-> view, cookie |-> jar, answer |-> "none",
                   inFlight |-> TRUE, queued |-> FALSE, scheduled |-> FALSE]
  /\ asked' = FALSE
  /\ UNCHANGED <<server, jar, store, result>>

ServeRead ==
  /\ read # None /\ read.inFlight /\ read.answer = "none"
  /\ read' = [read EXCEPT !.answer =
       LET g == Guard(read.cookie, read.token) IN
       IF g = "passed" THEN owner[read.cookie] ELSE g]
  /\ UNCHANGED <<server, jar, store, result, asked>>

LoseRead ==
  /\ read # None /\ read.inFlight /\ read.answer = "none"
  /\ read' = [read EXCEPT !.answer = "failed"]
  /\ UNCHANGED <<server, jar, store, result, asked>>

Expelled == read.answer \in {"unauthenticated", "rejected"}

(* Fault: an answer of another session than the view's is just an error.   *)
InvalidateRejected ==
  IF read.answer = "rejected" /\ view = read.token
    THEN view' = None /\ call' = Outdated
    ELSE UNCHANGED <<view, call>>

Invalidate ==
  IF Expelled /\ view = read.token
    THEN view' = None /\ call' = Outdated
    ELSE UNCHANGED <<view, call>>

(* Fault: what was asked for in the meantime is dropped.                   *)
FinishedDropping ==
  read' = [read EXCEPT !.inFlight = FALSE, !.queued = FALSE]

(* A reload that was asked for in the meantime is begun now.               *)
Finished ==
  read' = [read EXCEPT !.inFlight = FALSE, !.queued = FALSE,
                       !.scheduled = read.queued]

TakeRead ==
  /\ read # None /\ read.inFlight /\ read.answer # "none"
  /\ Invalidate
  /\ result' = [token |-> read.token,
                data |-> IF read.answer \in Account THEN read.answer ELSE "error"]
  /\ Finished
  /\ UNCHANGED <<server, jar, latest, asked>>

Reload ==
  /\ read # None /\ ~read.scheduled
  /\ read' = IF read.inFlight THEN [read EXCEPT !.queued = TRUE]
                              ELSE [read EXCEPT !.scheduled = TRUE]
  /\ asked' = TRUE
  /\ UNCHANGED <<server, jar, store, result>>

Poll ==
  /\ read # None /\ ~read.inFlight /\ ~read.scheduled
  /\ read' = [read EXCEPT !.scheduled = TRUE]
  /\ UNCHANGED <<server, jar, store, result, asked>>

-----------------------------------------------------------------------------
User == \E c \in Call : \/ Restore(c) \/ SignOut(c)
                        \/ \E a \in Account : SignIn(c, a) \/ VerifyCode(c, a)

Next ==
  \/ OtherTab \/ User
  \/ \E c \in Call : Serve(c) \/ Fail(c) \/ Answer(c)
  \/ Render \/ ServeRead \/ LoseRead \/ TakeRead \/ Reload \/ Poll

Spec == Init /\ [][Next]_vars

(* The page stays visible and polls; its reads are not all lost.           *)
LiveSpec ==
  /\ Spec
  /\ WF_vars(Render) /\ SF_vars(ServeRead) /\ WF_vars(TakeRead) /\ WF_vars(Poll)

-----------------------------------------------------------------------------
Displayed == IF result # None /\ result.token = view THEN result.data ELSE "loading"

(* Private data is on show only under the account it was read for, though  *)
(* another tab or a late answer has given the browser another session.     *)
ShownIsOwn ==
  view # None /\ Displayed \in Account => Displayed = owner[view]

(* A sign-in that a later sign-in or sign-out has overtaken does not       *)
(* change the session that is shown when it is answered at last.           *)
NoLateSignIn ==
  [][\A c \in Call :
       call[c].kind = "login" /\ call'[c].kind = "over" /\ latest # c
         => view' = view]_vars

(* A reload is never forgotten: until a request begins after it, one is    *)
(* due at once or when the present one is answered.                        *)
ReloadKept == asked /\ read # None =>
  read.scheduled \/ (read.inFlight /\ read.queued)

(* A session that was revoked behind the tab's back does not stay on show. *)
StaleViewEnds == \A s \in Session : view = s /\ s \notin live ~> view # s
=============================================================================
