---------------------------- MODULE IdentityForms ----------------------------
(***************************************************************************)
(* The forms with which somebody registers, signs in or links an identity, *)
(* in the tabs of some browsers, and the endpoints behind them             *)
(* (identity.controller.ts). Linking takes two requests: the first proves  *)
(* the account, the second the mailbox or the Google account; other tabs   *)
(* change the cookie in between. How often a code may be tried is in       *)
(* Codes, which claims an address may run into is in Identities.           *)
(***************************************************************************)
EXTENDS Naturals, FiniteSets, Sequences

CONSTANTS
  Tab,
  Of,           \* the browser each tab is of
  Account,
  WithPassword, \* accounts that have a credential, provisioned beforehand
  Address,
  Attempt,      \* Google attempts
  Purpose,      \* bound: what forms are opened for, of register, login and bind
  MaxForms,     \* bound: forms open at once
  MaxCodes,     \* bound: codes of one challenge
  MaxSessions,  \* bound: sessions issued
  None

VARIABLES
  email, google, \* AccountIdentity of each account: an address, a flag
  challenge,     \* EmailCodeChallenge of each address and purpose
  attempt,       \* GoogleOAuthAttempt; cookie: the session of its callback
  session,       \* Session, in the order of issue
  jar,           \* the cookies bazaar_session and bazaar_google of each browser
  tab,           \* view of the auth store, fields of the form, its request
  proofs,        \* history: who proved what account for which code or attempt
  bound          \* history: what was linked to which account by which

vars == <<email, google, challenge, attempt, session, jar, tab, proofs, bound>>

rows == <<email, google, challenge, attempt, session>>
history == <<proofs, bound>>

Browser == {Of[t] : t \in Tab}
NoCall == [do |-> "nothing", mail |-> None, code |-> 0, cookie |-> 0, csrf |-> 0,
           state |-> "none", who |-> None, session |-> 0, attempt |-> None]
NoForm == [intent |-> None, email |-> None, requested |-> None]

TypeOK ==
  /\ email \in [Account -> Address \cup {None}] /\ google \in [Account -> BOOLEAN]
  /\ challenge \in [Address \X Purpose ->
                      [number : 0..MaxCodes, by : Account \cup {None}, open : BOOLEAN]]
  /\ attempt \in [Attempt -> [state : {"none", "open", "fetching", "known", "over"},
                              by : Account \cup {None}, cookie : 0..MaxSessions,
                              at : Browser \cup {None}]]
  /\ session \in Seq([account : Account, live : BOOLEAN, recent : BOOLEAN])
  /\ jar \in [Browser -> [session : 0..MaxSessions, google : Attempt \cup {None}]]
  /\ DOMAIN tab = Tab

Init ==
  /\ email = [a \in Account |-> None] /\ google = [a \in Account |-> FALSE]
  /\ challenge = [c \in Address \X Purpose |-> [number |-> 0, by |-> None, open |-> FALSE]]
  /\ attempt = [g \in Attempt |-> [state |-> "none", by |-> None, cookie |-> 0, at |-> None]]
  /\ session = <<>>
  /\ jar = [b \in Browser |-> [session |-> 0, google |-> None]]
  /\ tab = [t \in Tab |-> [view |-> 0, form |-> NoForm, call |-> NoCall]]
  /\ proofs = {} /\ bound = {}

-----------------------------------------------------------------------------
(* Sessions. A view is told by the session its CSRF token was derived from. *)

Live(n) == n > 0 /\ session[n].live
Who(n) == session[n].account
Made(a) == a \in WithPassword \/ email[a] # None \/ google[a]

(* issueSession: the session of the cookie that came along is revoked.     *)
Issued(a, cookie) ==
  Append([n \in DOMAIN session |-> IF n = cookie THEN [session[n] EXCEPT !.live = FALSE]
                                                 ELSE session[n]],
         [account |-> a, live |-> TRUE, recent |-> TRUE])
Newest == Len(session) + 1
Issue(a, cookie) == Len(session) < MaxSessions /\ session' = Issued(a, cookie)

(* requireRecentAccountProof: the password, or a session a few minutes old *)
(* where the account has none.                                             *)
MayProve(n) == Who(n) \in WithPassword \/ session[n].recent

Age(n) ==
  /\ n \in DOMAIN session /\ session[n].live /\ session[n].recent
  /\ Who(n) \notin WithPassword
  /\ session' = [session EXCEPT ![n].recent = FALSE]
  /\ UNCHANGED <<email, google, challenge, attempt, jar, tab, history>>

(* Other ways in and out, which unmount the form. A tab has one request    *)
(* under way at a time; answers that overtake each other are in Tab.       *)
Cookie(t) == jar[Of[t]].session

Pending(t) == tab[t].call # NoCall

SignIn(t, a) ==
  /\ a \in WithPassword /\ ~Pending(t)
  /\ Issue(a, Cookie(t))
  /\ jar' = [jar EXCEPT ![Of[t]].session = Newest]
  /\ tab' = [tab EXCEPT ![t] = [view |-> Newest, form |-> NoForm, call |-> NoCall]]
  /\ UNCHANGED <<email, google, challenge, attempt, history>>

SignOut(t) ==
  /\ ~Pending(t)
  /\ Live(Cookie(t)) /\ tab[t].view = Cookie(t)
  /\ session' = [session EXCEPT ![Cookie(t)].live = FALSE]
  /\ jar' = [jar EXCEPT ![Of[t]].session = 0]
  /\ tab' = [tab EXCEPT ![t] = [view |-> 0, form |-> NoForm, call |-> NoCall]]
  /\ UNCHANGED <<email, google, challenge, attempt, history>>

(* A page is loaded and restores what the cookie stands for; an answer     *)
(* under way is lost.                                                      *)
Load(t) ==
  /\ tab' = [tab EXCEPT ![t] = [view |-> IF Live(Cookie(t)) THEN Cookie(t) ELSE 0,
                               form |-> NoForm, call |-> NoCall]]
  /\ UNCHANGED <<rows, jar, history>>

-----------------------------------------------------------------------------
(* The form: an address, a request for a code, and the code. Its fields    *)
(* and buttons are disabled while a request is under way.                  *)

Form(t) == tab[t].form

Open(t, purpose) ==
  /\ Form(t) = NoForm /\ ~Pending(t)
  /\ Cardinality({u \in Tab : Form(u) # NoForm}) < MaxForms
  /\ purpose = "bind" => tab[t].view > 0
  /\ tab' = [tab EXCEPT ![t].form = [NoForm EXCEPT !.intent = purpose]]
  /\ UNCHANGED <<rows, jar, history>>

Type(t, m) ==
  /\ Form(t).intent # None /\ ~Pending(t)
  /\ tab' = [tab EXCEPT ![t].form = [@ EXCEPT !.email = m, !.requested = None]]
  /\ UNCHANGED <<rows, jar, history>>

Send(t, do, mail, code) ==
  /\ Form(t).intent # None /\ ~Pending(t)
  /\ Form(t).intent = "bind" => tab[t].view > 0
  /\ tab' = [tab EXCEPT ![t].call = [NoCall EXCEPT !.do = do, !.mail = mail,
               !.code = code, !.cookie = Cookie(t), !.csrf = tab[t].view, !.state = "sent"]]
  /\ UNCHANGED <<rows, jar, history>>

RequestCode(t) == Form(t).email # None /\ Send(t, "request", Form(t).email, 0)

(* The code is one that was mailed, though perhaps not the last.           *)
Verify(t, code) ==
  /\ Form(t).requested # None
  /\ code <= challenge[<<Form(t).requested, Form(t).intent>>].number
  /\ Send(t, "verify", Form(t).requested, code)

LeaveForGoogle(t) == Send(t, "google", None, 0)

-----------------------------------------------------------------------------
(* The endpoints. canActivate wants the session of the cookie and its CSRF *)
(* token for the private ones, those that link; the handler comes later.   *)

Call(t) == tab[t].call
Linking(t) == Form(t).intent = "bind"
Key(t) == <<Call(t).mail, Form(t).intent>>

Admit(t) ==
  LET n == Call(t).cookie IN
  /\ Call(t).state = "sent"
  /\ Linking(t) => Live(n) /\ Call(t).csrf = n
  /\ tab' = [tab EXCEPT ![t].call =
               [@ EXCEPT !.state = "admitted", !.who = IF Linking(t) THEN Who(n) ELSE None]]
  /\ UNCHANGED <<rows, jar, history>>

Serves(t, do) == Call(t).do = do /\ Call(t).state = "admitted"
Reproved(t) == Linking(t) => MayProve(Call(t).cookie)
Proved(t, p) == IF Linking(t) THEN proofs \cup {<<Call(t).who, p>>} ELSE proofs
Answered(t) == tab' = [tab EXCEPT ![t].call = [@ EXCEPT !.state = "ok"]]

(* emailRequest, emailBindRequest: a code replaces one that is spent or a  *)
(* minute old, and is mailed.                                              *)
ServeRequest(t) ==
  LET number == challenge[Key(t)].number + 1
  IN  /\ Serves(t, "request") /\ Reproved(t)
      /\ number <= MaxCodes
      /\ challenge' = [challenge EXCEPT ![Key(t)] =
                         [number |-> number, by |-> Call(t).who, open |-> TRUE]]
      /\ proofs' = Proved(t, <<Call(t).mail, number>>)
      /\ Answered(t)
      /\ UNCHANGED <<email, google, attempt, session, jar, bound>>

(* googleStart, googleBindStart                                            *)
ServeGoogle(t, g) ==
  /\ Serves(t, "google") /\ Reproved(t)
  /\ attempt[g].state = "none"
  /\ attempt' = [attempt EXCEPT ![g] =
                   [attempt[g] EXCEPT !.state = "open", !.by = Call(t).who]]
  /\ proofs' = Proved(t, g)
  /\ tab' = [tab EXCEPT ![t].call = [@ EXCEPT !.state = "ok", !.attempt = g]]
  /\ UNCHANGED <<email, google, challenge, session, jar, bound>>

(* Fault: the code is right, whoever asked for it.                         *)
RightForAnyone(t) ==
  LET row == challenge[Key(t)]
  IN  row.open /\ row.number = Call(t).code

(* verify: the row is of this address, purpose and account.                *)
Right(t) ==
  LET row == challenge[Key(t)]
  IN  row.open /\ row.number = Call(t).code /\ row.by = Call(t).who

(* Whose account the code leads to; the claims are those of Identities.    *)
Meant(t, a) ==
  LET free == \A b \in Account \ {a} : email[b] # Call(t).mail
  IN  CASE Form(t).intent = "register" -> ~Made(a) /\ free
        [] Form(t).intent = "login"    -> email[a] = Call(t).mail
        [] OTHER                       -> a = Call(t).who /\ free

ServeVerify(t, a) ==
  /\ Serves(t, "verify") /\ Right(t) /\ Meant(t, a)
  /\ challenge' = [challenge EXCEPT ![Key(t)].open = FALSE]
  /\ email' = [email EXCEPT ![a] = Call(t).mail]
  /\ bound' = IF Linking(t) THEN bound \cup {<<a, <<Call(t).mail, Call(t).code>>>>} ELSE bound
  /\ Issue(a, Call(t).cookie)
  /\ tab' = [tab EXCEPT ![t].call = [@ EXCEPT !.state = "ok", !.session = Newest]]
  /\ UNCHANGED <<google, attempt, jar, proofs>>

(* Anything may be refused: a lost session, a limit, a wrong code, a claim;*)
(* a code is spent all the same when its mail or the claim fails.          *)
Refuse(t) ==
  /\ Call(t).state \in {"sent", "admitted"}
  /\ \/ challenge' = challenge
     \/ Call(t).state = "admitted" /\ Call(t).do # "google"
        /\ challenge' = [challenge EXCEPT ![Key(t)].open = FALSE]
  /\ tab' = [tab EXCEPT ![t].call = [@ EXCEPT !.state = "refused"]]
  /\ UNCHANGED <<email, google, attempt, session, jar, history>>

(* The answer: its cookie goes into the jar. A code that was sent is asked *)
(* for, acceptView shows the session of one that was right, and an attempt *)
(* takes the page to the provider.                                         *)
Accepted(t) == Call(t).state = "ok"
Receive(t) ==
  /\ Call(t).state \in {"ok", "refused"}
  /\ tab' = [tab EXCEPT ![t] =
       [view |-> IF Accepted(t) /\ Call(t).do = "verify" THEN Call(t).session ELSE @.view,
        form |-> IF ~Accepted(t) THEN @.form
                 ELSE IF Call(t).do = "request"
                 THEN [@.form EXCEPT !.requested = Call(t).mail] ELSE NoForm,
        call |-> NoCall]]
  /\ jar' = IF ~Accepted(t) \/ Call(t).do = "request" THEN jar
            ELSE IF Call(t).do = "verify" THEN [jar EXCEPT ![Of[t]].session = Call(t).session]
            ELSE [jar EXCEPT ![Of[t]].google = Call(t).attempt]
  /\ UNCHANGED <<rows, history>>

-----------------------------------------------------------------------------
(* The provider sends the browser back to googleCallback, which spends the *)
(* attempt and fetches the profile.                                        *)
Callback(g, b) ==
  /\ jar[b].google = g /\ attempt[g].state = "open"
  /\ attempt' = [attempt EXCEPT ![g] =
                   [@ EXCEPT !.state = "fetching", !.at = b, !.cookie = jar[b].session]]
  /\ UNCHANGED <<email, google, challenge, session, jar, tab, history>>

(* Fault: an attempt to link is carried on by whoever is signed in.        *)
IdentifyAnyone(g) ==
  /\ attempt[g].state = "fetching"
  /\ attempt[g].by # None => Live(attempt[g].cookie)
  /\ attempt' = [attempt EXCEPT ![g].state = "known",
       ![g].by = IF @ = None THEN None ELSE Who(attempt[g].cookie)]
  /\ UNCHANGED <<email, google, challenge, session, jar, tab, history>>

(* An attempt to link is carried on by the account that began it only.     *)
Identify(g) ==
  LET n == attempt[g].cookie IN
  /\ attempt[g].state = "fetching"
  /\ attempt[g].by # None => Live(n) /\ Who(n) = attempt[g].by
  /\ attempt' = [attempt EXCEPT ![g].state = "known"]
  /\ UNCHANGED <<email, google, challenge, session, jar, tab, history>>

(* The identity is linked, its account signed in, or an account made.      *)
Link(g, a) ==
  /\ attempt[g].state = "known"
  /\ IF attempt[g].by = None THEN google[a] \/ ~Made(a) ELSE a = attempt[g].by
  /\ google' = [google EXCEPT ![a] = TRUE]
  /\ bound' = IF attempt[g].by = None THEN bound ELSE bound \cup {<<a, g>>}
  /\ Issue(a, attempt[g].cookie)
  /\ attempt' = [attempt EXCEPT ![g].state = "over"]
  /\ jar' = [jar EXCEPT ![attempt[g].at] = [session |-> Newest, google |-> None]]
  /\ UNCHANGED <<email, challenge, tab, proofs>>

(* The provider, the account or a claim refuses.                           *)
Reject(g) ==
  /\ attempt[g].state \in {"fetching", "known"}
  /\ attempt' = [attempt EXCEPT ![g].state = "over"]
  /\ jar' = [jar EXCEPT ![attempt[g].at].google = None]
  /\ UNCHANGED <<email, google, challenge, session, tab, history>>

-----------------------------------------------------------------------------
Next ==
  \/ \E t \in Tab :
       \/ Load(t) \/ SignOut(t) \/ \E a \in Account : SignIn(t, a) \/ ServeVerify(t, a)
       \/ \E purpose \in Purpose : Open(t, purpose)
       \/ \E m \in Address : Type(t, m)
       \/ RequestCode(t) \/ LeaveForGoogle(t)
       \/ \E code \in 1..MaxCodes : Verify(t, code)
       \/ Admit(t) \/ ServeRequest(t) \/ Refuse(t) \/ Receive(t)
       \/ \E g \in Attempt : ServeGoogle(t, g)
  \/ \E g \in Attempt : Identify(g) \/ Reject(g) \/ \E b \in Browser : Callback(g, b)
  \/ \E g \in Attempt, a \in Account : Link(g, a)
  \/ \E n \in 1..MaxSessions : Age(n)

Spec == Init /\ [][Next]_vars

-----------------------------------------------------------------------------
(* An identity is linked to the account that proved itself for the very    *)
(* code or attempt it was linked by, though other tabs sign in and out     *)
(* between the two requests and others ask for codes of the same mailbox   *)
(* (identity.controller.ts, requireRecentAccountProof, verify, complete).  *)
BoundAsProven == bound \subseteq proofs
=============================================================================
