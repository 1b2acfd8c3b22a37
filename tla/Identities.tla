----------------------------- MODULE Identities -----------------------------
(***************************************************************************)
(* Who owns which Gmail address. An account can be named by an address,    *)
(* bind an e-mail identity and bind a Google identity; a claim on the      *)
(* address's key keeps two accounts from sharing one mailbox. Claims and   *)
(* identities are rows of their own, written by five kinds of transaction  *)
(* that lock the account's row and the key in turn.                        *)
(***************************************************************************)
CONSTANTS
  Account,  \* accounts there may be
  Address,  \* addresses and plain login names
  Gmail,    \* the addresses at gmail.com
  KeyOf,    \* gmailIdentityKey: without dots and tags
  MovedTo,  \* the address a development login name is moved to
  Google,   \* Google subjects
  MailOf,   \* the address of a Google profile
  Txn,      \* transactions in progress
  None

ASSUME AddressAssumption ==
  /\ Gmail \subseteq Address
  /\ KeyOf \in [Gmail -> Gmail] /\ \A k \in Gmail : KeyOf[KeyOf[k]] = KeyOf[k]
  /\ MovedTo \in [Address -> Gmail] /\ \A k \in Gmail : MovedTo[k] = k
  /\ MailOf \in [Google -> Gmail]
  /\ None \notin Account \cup Address \cup Google \cup Txn

VARIABLES
  name,   \* Account.loginName; None for an account not made yet
  email,  \* AccountIdentity of provider email
  google, \* AccountIdentity of provider google
  claim,  \* GmailClaim
  told,   \* the last AccountIdentityEvent of each identity
  txn

vars == <<name, email, google, claim, told, txn>>

Idle == [step |-> "idle", mode |-> "login", by |-> None, mail |-> None,
         sub |-> None, owner |-> None]

TypeOK ==
  /\ name \in [Account -> Address \cup {None}]
  /\ email \in [Account -> Gmail \cup {None}]
  /\ google \in [Account -> Google \cup {None}]
  /\ claim \in [Gmail -> Account \cup {None}]
  /\ told \in [Account -> [email : Gmail \cup {None}, google : Google \cup {None}]]
  /\ txn \in [Txn -> [step : {"idle", "account", "key", "body"},
                      mode : {"login", "register", "bind"},
                      by : Account \cup {None}, mail : Gmail \cup {None},
                      sub : Google \cup {None}, owner : Account \cup {None}]]

Init ==
  /\ name = [a \in Account |-> None]
  /\ email = [a \in Account |-> None] /\ google = [a \in Account |-> None]
  /\ claim = [k \in Gmail |-> None]
  /\ told = [a \in Account |-> [email |-> None, google |-> None]]
  /\ txn = [t \in Txn |-> Idle]

-----------------------------------------------------------------------------
Made(a) == name[a] # None
NameKey(a) == IF name[a] \in Gmail THEN KeyOf[name[a]] ELSE None
EmailKey(a) == IF email[a] = None THEN None ELSE KeyOf[email[a]]
GoogleKey(a) == IF google[a] = None THEN None ELSE KeyOf[MailOf[google[a]]]
Key(t) == KeyOf[txn[t].mail]
Owner(g) == IF \E a \in Account : google[a] = g
              THEN CHOOSE a \in Account : google[a] = g ELSE None
Named(n) == \E a \in Account : name[a] = n

(* provisionAccounts, one account: a name at gmail.com is claimed too.     *)
Provision(a, n) ==
  /\ ~Made(a) /\ ~Named(n)
  /\ n \in Gmail => claim[KeyOf[n]] = None
  /\ name' = [name EXCEPT ![a] = n]
  /\ claim' = IF n \in Gmail THEN [claim EXCEPT ![KeyOf[n]] = a] ELSE claim
  /\ UNCHANGED <<email, google, told, txn>>

-----------------------------------------------------------------------------
(* A transaction begins once a code or a Google profile is accepted: a     *)
(* binding locks the account's row, and then everything locks the key.     *)

Begin(t, next) == txn[t].step = "idle" /\ txn' = [txn EXCEPT ![t] = next]

EmailVerify(t, mode, a, m) ==
  /\ Begin(t, [Idle EXCEPT !.mode = mode, !.by = a, !.mail = m,
                           !.step = IF mode = "bind" THEN "account" ELSE "key"])
  /\ IF mode = "bind" THEN a # None /\ Made(a) ELSE a = None
  /\ UNCHANGED <<name, email, google, claim, told>>

(* A subject already bound is signed in without any lock.                  *)
GoogleComplete(t, mode, a, g) ==
  /\ IF mode = "bind" THEN a # None /\ Made(a) ELSE a = None
  /\ mode = "bind" \/ Owner(g) = None
  /\ Begin(t, [Idle EXCEPT !.mode = mode, !.by = a, !.mail = MailOf[g],
                           !.sub = g, !.owner = Owner(g),
                           !.step = IF mode = "bind" THEN "account" ELSE "key"])
  /\ UNCHANGED <<name, email, google, claim, told>>

(* Refused, rolled back, or a login, which changes none of these rows.     *)
Abort(t) ==
  /\ txn[t].step # "idle"
  /\ txn' = [txn EXCEPT ![t] = Idle]
  /\ UNCHANGED <<name, email, google, claim, told>>

LockAccount(t) ==
  /\ txn[t].step = "account"
  /\ ~\E u \in Txn : txn[u].step \in {"key", "body"} /\ txn[u].by = txn[t].by
  /\ txn[t].owner \in {None, txn[t].by}
  /\ txn' = [txn EXCEPT ![t].step = "key"]
  /\ UNCHANGED <<name, email, google, claim, told>>

LockKey(t) ==
  /\ txn[t].step = "key"
  /\ ~\E u \in Txn : txn[u].step = "body" /\ Key(u) = Key(t)
  /\ txn' = [txn EXCEPT ![t].step = "body"]
  /\ UNCHANGED <<name, email, google, claim, told>>

-----------------------------------------------------------------------------
(* What the transactions do under their locks. A unique index that would   *)
(* be broken rolls the whole transaction back.                             *)

Finish(t) == txn[t].step = "body" /\ txn' = [txn EXCEPT ![t] = Idle]

(* The claim on the address left behind is given up, unless the name or    *)
(* the other identity still is that address.                               *)
Claims(a, k, before, others) ==
  LET made == IF claim[k] = None THEN [claim EXCEPT ![k] = a] ELSE claim
  IN  IF before # None /\ before # k /\ before \notin others /\ made[before] = a
        THEN [made EXCEPT ![before] = None] ELSE made

EmailBind(t) ==
  LET a == txn[t].by
      m == txn[t].mail
  IN
  /\ Finish(t)
  /\ txn[t].mode = "bind" /\ txn[t].sub = None
  /\ claim[Key(t)] \in {None, a}
  /\ ~\E b \in Account \ {a} : email[b] = m
  /\ email' = [email EXCEPT ![a] = m]
  /\ told' = [told EXCEPT ![a].email = m]
  /\ claim' = Claims(a, Key(t), EmailKey(a), {NameKey(a), GoogleKey(a)})
  /\ UNCHANGED <<name, google>>

(* Fault: the e-mail identity is forgotten when Google's address is left.  *)
GoogleBindHasty(t) ==
  LET a == txn[t].by
      g == txn[t].sub
  IN
  /\ Finish(t)
  /\ txn[t].mode = "bind" /\ g # None
  /\ claim[Key(t)] \in {None, a}
  /\ Owner(g) \in {None, a}
  /\ ~\E b \in Account \ {a} : email[b] = MailOf[g] \/ name[b] = MailOf[g]
  /\ google' = [google EXCEPT ![a] = g]
  /\ told' = [told EXCEPT ![a].google = g]
  /\ claim' = Claims(a, Key(t), GoogleKey(a), {NameKey(a)})
  /\ UNCHANGED <<name, email>>

GoogleBind(t) ==
  LET a == txn[t].by
      g == txn[t].sub
  IN
  /\ Finish(t)
  /\ txn[t].mode = "bind" /\ g # None
  /\ claim[Key(t)] \in {None, a}
  /\ Owner(g) \in {None, a}
  /\ ~\E b \in Account \ {a} : email[b] = MailOf[g] \/ name[b] = MailOf[g]
  /\ google' = [google EXCEPT ![a] = g]
  /\ told' = [told EXCEPT ![a].google = g]
  /\ claim' = Claims(a, Key(t), GoogleKey(a), {NameKey(a), EmailKey(a)})
  /\ UNCHANGED <<name, email>>

(* A new account is named by the key.                                      *)
Register(t, a) ==
  /\ ~Made(a)
  /\ claim[Key(t)] = None /\ ~Named(Key(t))
  /\ name' = [name EXCEPT ![a] = Key(t)]
  /\ claim' = [claim EXCEPT ![Key(t)] = a]

EmailRegister(t, a) ==
  /\ Finish(t)
  /\ txn[t].mode = "register" /\ txn[t].sub = None
  /\ Register(t, a)
  /\ email' = [email EXCEPT ![a] = txn[t].mail]
  /\ told' = [told EXCEPT ![a].email = txn[t].mail]
  /\ UNCHANGED google

GoogleRegister(t, a) ==
  /\ Finish(t)
  /\ txn[t].mode = "login" /\ txn[t].sub # None /\ Owner(txn[t].sub) = None
  /\ ~Named(txn[t].mail) /\ ~\E b \in Account : email[b] = txn[t].mail
  /\ Register(t, a)
  /\ google' = [google EXCEPT ![a] = txn[t].sub]
  /\ told' = [told EXCEPT ![a].google = txn[t].sub]
  /\ UNCHANGED email

-----------------------------------------------------------------------------
(* The move of the development accounts to Gmail addresses, made while     *)
(* nothing else runs: plan, check, rename, claim anew.                     *)
People == {a \in Account : Made(a)}

Migrate ==
  /\ \A t \in Txn : txn[t] = Idle
  /\ \A a \in People : google[a] = None /\ email[a] \in {None, name[a]}
  /\ \A a, b \in People : a # b => KeyOf[MovedTo[name[a]]] # KeyOf[MovedTo[name[b]]]
  /\ \A a \in People : claim[KeyOf[MovedTo[name[a]]]] \in {None, a}
  /\ \E a \in People : MovedTo[name[a]] # name[a]
  /\ name' = [a \in Account |-> IF Made(a) THEN MovedTo[name[a]] ELSE None]
  /\ email' = [a \in Account |-> IF email[a] = None THEN None ELSE MovedTo[name[a]]]
  /\ told' = [a \in Account |-> IF email'[a] = email[a] THEN told[a]
                                 ELSE [told[a] EXCEPT !.email = email'[a]]]
  /\ claim' = [k \in Gmail |->
       IF \E a \in People : KeyOf[name'[a]] = k
         THEN CHOOSE a \in People : KeyOf[name'[a]] = k
         ELSE IF claim[k] \in People THEN None ELSE claim[k]]
  /\ UNCHANGED <<google, txn>>

Next ==
  \/ \E a \in Account, n \in Address : Provision(a, n)
  \/ \E t \in Txn, m \in Gmail, a \in Account \cup {None} :
       \E mode \in {"login", "register", "bind"} : EmailVerify(t, mode, a, m)
  \/ \E t \in Txn, g \in Google, a \in Account \cup {None} :
       \E mode \in {"login", "bind"} : GoogleComplete(t, mode, a, g)
  \/ \E t \in Txn : Abort(t) \/ LockAccount(t) \/ LockKey(t)
                      \/ EmailBind(t) \/ GoogleBind(t)
  \/ \E t \in Txn, a \in Account : EmailRegister(t, a) \/ GoogleRegister(t, a)
  \/ Migrate

Spec == Init /\ [][Next]_vars

-----------------------------------------------------------------------------
(* The audit of claims: what each account's name and identities require.   *)
Backs(a) == {NameKey(a), EmailKey(a), GoogleKey(a)} \ {None}

(* findGmailClaimIssues reports nothing: every address an account is named *)
(* or reached by is claimed by that account, so no two accounts share a    *)
(* mailbox, and no claim is left that nothing backs.                       *)
ClaimsAgree ==
  /\ \A a \in Account : \A k \in Backs(a) : claim[k] = a
  /\ \A k \in Gmail : claim[k] # None => k \in Backs(claim[k])

=============================================================================
