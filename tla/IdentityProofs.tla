--------------------------- MODULE IdentityProofs ---------------------------
(***************************************************************************)
(* Theorems about Identities for every set of accounts, addresses and      *)
(* Google subjects and every number of transactions in progress: claims    *)
(* and identities agree, so no mailbox ever has two accounts.              *)
(***************************************************************************)
EXTENDS MCRaces, Sequences, FiniteSetTheorems, TLAPS

-----------------------------------------------------------------------------
(* Types. *)

Steps == {"idle", "account", "key", "body"}
Modes == {"login", "register", "bind"}

TxnRow == [step : Steps, mode : Modes, by : Account \cup {None}, mail : Gmail \cup {None},
           sub : Google \cup {None}, owner : Account \cup {None}]

(* The rows of the tables: a transaction either leaves them alone or is    *)
(* over with its write.                                                    *)
rowVars == <<name, email, google, claim, told>>

LEMMA Nothing == None \notin Account /\ None \notin Address /\ None \notin Gmail /\ None \notin Google
BY AddressAssumption

LEMMA IdleRow == Idle \in TxnRow
BY DEF Idle, TxnRow, Steps, Modes

(* A transaction is bound to the mailbox it has proven, and binds it to    *)
(* an account that exists; an account that does not has no identities.     *)
Proven(t) ==
  /\ txn[t].step # "idle" => txn[t].mail \in Gmail
  /\ txn[t].sub # None => txn[t].mail = MailOf[txn[t].sub]
  /\ txn[t].mode = "bind" => txn[t].by \in Account /\ Made(txn[t].by)

TypeInv ==
  /\ TypeOK
  /\ \A t \in Txn : Proven(t)
  /\ \A a \in Account : ~Made(a) => email[a] = None /\ google[a] = None

LEMMA InitType == Init => TypeInv
<1> SUFFICES ASSUME Init PROVE TypeInv
  OBVIOUS
<1>1. TypeOK
  BY IdleRow DEF Init, TypeOK, TxnRow, Steps, Modes
<1> QED
  BY <1>1 DEF Init, TypeInv, Proven, Idle

(* The transaction row of one transaction changes, and nothing else.       *)
LEMMA TxnType ==
  ASSUME TypeInv, NEW t \in Txn, NEW row \in TxnRow,
         txn' = [txn EXCEPT ![t] = row], UNCHANGED rowVars,
         row.step # "idle" => row.mail \in Gmail,
         row.sub # None => row.mail = MailOf[row.sub],
         row.mode = "bind" => row.by \in Account /\ Made(row.by)
  PROVE  TypeInv'
<1>1. TypeOK'
  BY DEF TypeInv, TypeOK, TxnRow, Steps, Modes, rowVars
<1>2. ASSUME NEW u \in Txn PROVE Proven(u)'
  BY DEF TypeInv, TypeOK, Proven, Made, rowVars
<1> QED
  BY <1>1, <1>2 DEF TypeInv, Made, rowVars

LEMMA OwnerType == \A g \in Google : Owner(g) \in Account \cup {None}
BY DEF Owner

LEMMA StartType ==
  ASSUME TypeInv, NEW t \in Txn, NEW mode \in Modes, NEW a \in Account \cup {None}
  PROVE  /\ \A m \in Gmail : EmailVerify(t, mode, a, m) => TypeInv'
         /\ \A g \in Google : GoogleComplete(t, mode, a, g) => TypeInv'
<1> USE DEF Steps, Modes
<1>1. ASSUME NEW m \in Gmail, EmailVerify(t, mode, a, m) PROVE TypeInv'
  <2> DEFINE row == [Idle EXCEPT !.mode = mode, !.by = a, !.mail = m,
                                 !.step = IF mode = "bind" THEN "account" ELSE "key"]
  <2>1. txn' = [txn EXCEPT ![t] = row] /\ UNCHANGED rowVars
    BY <1>1 DEF EmailVerify, Begin, rowVars
  <2>2. row \in TxnRow /\ row.mail = m /\ row.sub = None /\ row.mode = mode /\ row.by = a
    BY DEF Idle, TxnRow
  <2>3. row.mode = "bind" => row.by \in Account /\ Made(row.by)
    BY <1>1, <2>2 DEF EmailVerify
  <2> HIDE DEF row
  <2> QED
    BY <2>1, <2>2, <2>3, TxnType
<1>2. ASSUME NEW g \in Google, GoogleComplete(t, mode, a, g) PROVE TypeInv'
  <2> DEFINE row == [Idle EXCEPT !.mode = mode, !.by = a, !.mail = MailOf[g],
                                 !.sub = g, !.owner = Owner(g),
                                 !.step = IF mode = "bind" THEN "account" ELSE "key"]
  <2>1. txn' = [txn EXCEPT ![t] = row] /\ UNCHANGED rowVars
    BY <1>2 DEF GoogleComplete, Begin, rowVars
  <2>2. /\ row \in TxnRow /\ row.mail = MailOf[g] /\ row.sub = g
        /\ row.mode = mode /\ row.by = a
    <3>1. MailOf[g] \in Gmail /\ Owner(g) \in Account \cup {None}
      BY AddressAssumption, OwnerType
    <3> QED
      BY <3>1 DEF Idle, TxnRow
  <2>3. row.mode = "bind" => row.by \in Account /\ Made(row.by)
    BY <1>2, <2>2 DEF GoogleComplete
  <2>4. row.mail \in Gmail
    BY <2>2, AddressAssumption
  <2> HIDE DEF row
  <2> QED
    BY <2>1, <2>2, <2>3, <2>4, TxnType
<1> QED
  BY <1>1, <1>2

LEMMA LockType ==
  ASSUME TypeInv, NEW t \in Txn, Abort(t) \/ LockAccount(t) \/ LockKey(t)
  PROVE  TypeInv'
<1> DEFINE r == txn[t]
<1>1. r \in TxnRow
  BY DEF TypeInv, TypeOK, TxnRow, Steps, Modes
<1>2. CASE Abort(t)
  BY <1>2, IdleRow, TxnType DEF Abort, Idle, rowVars
<1>3. ASSUME NEW s \in {"key", "body"}, r.step # "idle",
             txn' = [txn EXCEPT ![t] = [r EXCEPT !.step = s]], UNCHANGED rowVars
      PROVE  TypeInv'
  <2>1. [r EXCEPT !.step = s] \in TxnRow
    BY <1>1 DEF TxnRow, Steps
  <2>2. Proven(t)
    BY DEF TypeInv
  <2> QED
    BY <1>1, <1>3, <2>1, <2>2, TxnType DEF Proven, TxnRow
<1>4. CASE LockAccount(t) \/ LockKey(t)
  <2>1. PICK s \in {"key", "body"} : txn' = [txn EXCEPT ![t].step = s]
    BY <1>4 DEF LockAccount, LockKey
  <2>2. txn' = [txn EXCEPT ![t] = [r EXCEPT !.step = s]]
    BY <2>1
  <2> QED
    BY <1>3, <1>4, <2>2 DEF LockAccount, LockKey, rowVars
<1> QED
  BY <1>2, <1>4

-----------------------------------------------------------------------------
(* Claims. One account's rows change at a time; what it takes to keep the  *)
(* claims in agreement is that nobody else holds the key.                  *)

(* The keys behind an account are keys, and two spellings have one key.    *)
LEMMA KeyTypes ==
  ASSUME TypeInv, NEW a \in Account
  PROVE  Backs(a) \subseteq Gmail
BY Nothing, AddressAssumption
   DEF Backs, NameKey, EmailKey, GoogleKey, TypeInv, TypeOK

(* The keys of the other accounts stand while the row of one changes.      *)
Others(a) ==
  \A b \in Account \ {a} : name'[b] = name[b] /\ email'[b] = email[b] /\ google'[b] = google[b]

LEMMA OthersBack == ASSUME NEW a \in Account, Others(a) PROVE \A b \in Account \ {a} : Backs(b)' = Backs(b)
BY DEF Others, Backs, NameKey, EmailKey, GoogleKey

(* Account a binds the key k in place of the key before, which the others  *)
(* of its keys may still be.                                               *)
LEMMA BindAgrees ==
  ASSUME TypeInv, ClaimsAgree, NEW a \in Account, NEW k \in Gmail, NEW before, NEW others,
         Others(a), claim[k] \in {None, a},
         Backs(a) = ({before} \cup others) \ {None},
         Backs(a)' = ({k} \cup others) \ {None},
         claim' = Claims(a, k, before, others)
  PROVE  ClaimsAgree'
<1> USE Nothing
<1>1. claim \in [Gmail -> Account \cup {None}] /\ Backs(a) \subseteq Gmail
  BY KeyTypes DEF TypeInv, TypeOK
<1>2. claim' \in [Gmail -> Account \cup {None}]
  BY <1>1 DEF Claims
<1>3. \A j \in Gmail : claim'[j] = IF j = k THEN a
                                   ELSE IF j = before /\ before \notin others THEN None
                                   ELSE claim[j]
  BY <1>1 DEF Claims, ClaimsAgree
<1>4. \A b \in Account \ {a} : Backs(b)' = Backs(b) /\ Backs(b) \subseteq Gmail
  BY OthersBack, KeyTypes
<1>5. ASSUME NEW b \in Account, NEW j \in Backs(b)' PROVE claim'[j] = b
  <2>1. CASE b = a
    BY <1>1, <1>3, <1>5, <2>1 DEF ClaimsAgree
  <2>2. CASE b # a
    BY <1>1, <1>3, <1>4, <1>5, <2>2 DEF ClaimsAgree
  <2> QED
    BY <2>1, <2>2
<1>6. ASSUME NEW j \in Gmail, NEW b \in Account, claim'[j] = b PROVE j \in Backs(b)'
  <2>1. CASE b = a
    BY <1>1, <1>3, <1>6, <2>1 DEF ClaimsAgree
  <2>2. CASE b # a
    <3>1. claim[j] = b
      BY <1>1, <1>3, <1>6, <2>2
    <3> QED
      BY <1>4, <2>2, <3>1 DEF ClaimsAgree
  <2> QED
    BY <2>1, <2>2
<1>7. ASSUME NEW j \in Gmail PROVE (claim[j] # None => j \in Backs(claim[j]))'
  BY <1>2, <1>6
<1> QED
  BY <1>5, <1>7 DEF ClaimsAgree

(* An account that did not exist is made with one key, or with none.       *)
LEMMA FreshAgrees ==
  ASSUME TypeInv, ClaimsAgree, NEW a \in Account, ~Made(a), Others(a),
         \/ Backs(a)' = {} /\ claim' = claim
         \/ \E k \in Gmail : /\ Backs(a)' = {k} /\ claim[k] = None
                             /\ claim' = [claim EXCEPT ![k] = a]
  PROVE  ClaimsAgree'
<1> USE Nothing
<1>1. Backs(a) = {} /\ claim \in [Gmail -> Account \cup {None}]
  BY DEF Backs, NameKey, EmailKey, GoogleKey, Made, TypeInv, TypeOK
<1>2. \A j \in Gmail : claim[j] # a
  BY <1>1 DEF ClaimsAgree
<1>3. \A b \in Account \ {a} : Backs(b)' = Backs(b) /\ Backs(b) \subseteq Gmail
  BY OthersBack, KeyTypes
<1>4. CASE Backs(a)' = {} /\ claim' = claim
  BY <1>1, <1>2, <1>3, <1>4 DEF ClaimsAgree
<1>5. ASSUME NEW k \in Gmail, Backs(a)' = {k}, claim[k] = None, claim' = [claim EXCEPT ![k] = a]
      PROVE  ClaimsAgree'
  BY <1>1, <1>2, <1>3, <1>5 DEF ClaimsAgree
<1> QED
  BY <1>4, <1>5

-----------------------------------------------------------------------------
(* The transactions that write. *)

Writes(t) ==
  \/ EmailBind(t) \/ GoogleBind(t)
  \/ \E a \in Account : EmailRegister(t, a) \/ GoogleRegister(t, a)

(* What a transaction in its body is about to write.                       *)
LEMMA Body ==
  ASSUME TypeInv, NEW t \in Txn, Writes(t)
  PROVE  /\ txn[t].step = "body" /\ txn[t].mail \in Gmail /\ Key(t) \in Gmail
         /\ txn[t].mode = "bind" => txn[t].by \in Account /\ Made(txn[t].by)
         /\ txn[t].sub \in Google \cup {None}
         /\ txn[t].sub # None => txn[t].mail = MailOf[txn[t].sub]
         /\ txn' = [txn EXCEPT ![t] = Idle]
<1>1. txn[t].step = "body" /\ txn' = [txn EXCEPT ![t] = Idle]
  BY DEF Writes, EmailBind, GoogleBind, EmailRegister, GoogleRegister, Finish
<1>2. Proven(t) /\ txn[t] \in TxnRow
  BY DEF TypeInv, TypeOK, TxnRow, Steps, Modes
<1> QED
  BY <1>1, <1>2, AddressAssumption DEF Proven, TxnRow, Key

(* The rows of account a are written, at the end of a transaction or not.  *)
LEMMA WriteType ==
  ASSUME TypeInv, NEW a \in Account,
         txn' = txn \/ \E t \in Txn : txn' = [txn EXCEPT ![t] = Idle],
         name' \in [Account -> Address \cup {None}],
         email' \in [Account -> Gmail \cup {None}],
         google' \in [Account -> Google \cup {None}],
         claim' \in [Gmail -> Account \cup {None}],
         told' \in [Account -> [email : Gmail \cup {None}, google : Google \cup {None}]],
         Others(a), Made(a)'
  PROVE  TypeInv'
<1>1. TypeOK'
  BY IdleRow DEF TypeInv, TypeOK, TxnRow, Steps, Modes
<1>2. ASSUME NEW b \in Account, ~Made(b)' PROVE email'[b] = None /\ google'[b] = None
  BY <1>2 DEF TypeInv, Others, Made
<1>3. \A b \in Account : Made(b) => Made(b)'
  BY DEF Others, Made
<1>4. ASSUME NEW u \in Txn PROVE Proven(u)'
  <2>1. Proven(u)
    BY DEF TypeInv
  <2>2. txn'[u] = txn[u] \/ txn'[u] = Idle
    BY DEF TypeInv, TypeOK
  <2>3. CASE txn'[u] = Idle
    BY <2>3 DEF Proven, Idle
  <2>4. CASE txn'[u] = txn[u]
    BY <1>3, <2>1, <2>4 DEF Proven
  <2> QED
    BY <2>2, <2>3, <2>4
<1> QED
  BY <1>1, <1>2, <1>4 DEF TypeInv

LEMMA ClaimsType ==
  ASSUME TypeInv, NEW a \in Account, NEW k \in Gmail, NEW before, NEW others
  PROVE  Claims(a, k, before, others) \in [Gmail -> Account \cup {None}]
BY DEF Claims, TypeInv, TypeOK

LEMMA ToldType ==
  ASSUME TypeInv, NEW a \in Account,
         \/ \E m \in Gmail : told' = [told EXCEPT ![a].email = m]
         \/ \E g \in Google : told' = [told EXCEPT ![a].google = g]
  PROVE  told' \in [Account -> [email : Gmail \cup {None}, google : Google \cup {None}]]
<1> DEFINE Row == [email : Gmail \cup {None}, google : Google \cup {None}]
           r == told[a]
<1>1. r \in Row /\ told \in [Account -> Row]
  BY DEF TypeInv, TypeOK
<1>2. \A m \in Gmail, g \in Google : [r EXCEPT !.email = m] \in Row /\ [r EXCEPT !.google = g] \in Row
  BY <1>1
<1>3. \E row \in Row : told' = [told EXCEPT ![a] = row]
  BY <1>1, <1>2
<1> HIDE DEF Row
<1>4. told' \in [Account -> Row]
  BY <1>1, <1>3
<1> QED
  BY <1>4 DEF Row

LEMMA EmailBindAgrees ==
  ASSUME TypeInv, ClaimsAgree, NEW t \in Txn, EmailBind(t)
  PROVE  TypeInv' /\ ClaimsAgree'
<1>1. PICK a \in Account, m \in Gmail, k \in Gmail :
        a = txn[t].by /\ m = txn[t].mail /\ k = Key(t) /\ k = KeyOf[m] /\ Made(a)
  BY Body DEF Writes, EmailBind, Key
<1>2. /\ claim[k] \in {None, a}
      /\ email' = [email EXCEPT ![a] = m] /\ told' = [told EXCEPT ![a].email = m]
      /\ claim' = Claims(a, k, EmailKey(a), {NameKey(a), GoogleKey(a)})
      /\ name' = name /\ google' = google /\ txn' = [txn EXCEPT ![t] = Idle]
  BY <1>1 DEF EmailBind, Finish
<1>3. Others(a) /\ Made(a)'
  BY <1>1, <1>2 DEF Others, Made, TypeInv, TypeOK
<1>4. TypeInv'
  <2>1. /\ claim' \in [Gmail -> Account \cup {None}]
        /\ told' \in [Account -> [email : Gmail \cup {None}, google : Google \cup {None}]]
    BY <1>1, <1>2, ClaimsType, ToldType
  <2>2. /\ name' \in [Account -> Address \cup {None}]
        /\ email' \in [Account -> Gmail \cup {None}]
        /\ google' \in [Account -> Google \cup {None}]
    BY <1>1, <1>2 DEF TypeInv, TypeOK
  <2> QED
    BY <1>2, <1>3, <2>1, <2>2, WriteType
<1>5. EmailKey(a)' = k /\ NameKey(a)' = NameKey(a) /\ GoogleKey(a)' = GoogleKey(a)
  BY <1>1, <1>2, Nothing DEF EmailKey, NameKey, GoogleKey, TypeInv, TypeOK
<1>6. /\ Backs(a) = ({EmailKey(a)} \cup {NameKey(a), GoogleKey(a)}) \ {None}
      /\ Backs(a)' = ({k} \cup {NameKey(a), GoogleKey(a)}) \ {None}
  BY <1>5 DEF Backs
<1>7. ClaimsAgree'
  BY <1>1, <1>2, <1>3, <1>6, BindAgrees
<1> QED
  BY <1>4, <1>7

LEMMA GoogleBindAgrees ==
  ASSUME TypeInv, ClaimsAgree, NEW t \in Txn, GoogleBind(t)
  PROVE  TypeInv' /\ ClaimsAgree'
<1>1. PICK a \in Account, g \in Google, k \in Gmail :
        a = txn[t].by /\ g = txn[t].sub /\ k = Key(t) /\ k = KeyOf[MailOf[g]] /\ Made(a)
  BY Body DEF Writes, GoogleBind, Key
<1>2. /\ claim[k] \in {None, a}
      /\ google' = [google EXCEPT ![a] = g] /\ told' = [told EXCEPT ![a].google = g]
      /\ claim' = Claims(a, k, GoogleKey(a), {NameKey(a), EmailKey(a)})
      /\ name' = name /\ email' = email /\ txn' = [txn EXCEPT ![t] = Idle]
  BY <1>1 DEF GoogleBind, Finish
<1>3. Others(a) /\ Made(a)'
  BY <1>1, <1>2 DEF Others, Made, TypeInv, TypeOK
<1>4. TypeInv'
  <2>1. /\ claim' \in [Gmail -> Account \cup {None}]
        /\ told' \in [Account -> [email : Gmail \cup {None}, google : Google \cup {None}]]
    BY <1>1, <1>2, ClaimsType, ToldType
  <2>2. /\ name' \in [Account -> Address \cup {None}]
        /\ email' \in [Account -> Gmail \cup {None}]
        /\ google' \in [Account -> Google \cup {None}]
    BY <1>1, <1>2 DEF TypeInv, TypeOK
  <2> QED
    BY <1>2, <1>3, <2>1, <2>2, WriteType
<1>5. GoogleKey(a)' = k /\ NameKey(a)' = NameKey(a) /\ EmailKey(a)' = EmailKey(a)
  BY <1>1, <1>2, Nothing DEF EmailKey, NameKey, GoogleKey, TypeInv, TypeOK
<1>6. /\ Backs(a) = ({GoogleKey(a)} \cup {NameKey(a), EmailKey(a)}) \ {None}
      /\ Backs(a)' = ({k} \cup {NameKey(a), EmailKey(a)}) \ {None}
  BY <1>5 DEF Backs
<1>7. ClaimsAgree'
  BY <1>1, <1>2, <1>3, <1>6, BindAgrees
<1> QED
  BY <1>4, <1>7

LEMMA RegisterAgrees ==
  ASSUME TypeInv, ClaimsAgree, NEW t \in Txn, NEW a \in Account,
         EmailRegister(t, a) \/ GoogleRegister(t, a)
  PROVE  TypeInv' /\ ClaimsAgree'
<1>1. PICK m \in Gmail, k \in Gmail, g \in Google \cup {None} :
        /\ m = txn[t].mail /\ k = Key(t) /\ g = txn[t].sub
        /\ k = KeyOf[m] /\ KeyOf[k] = k /\ (g # None => m = MailOf[g])
        /\ txn' = [txn EXCEPT ![t] = Idle]
  BY Body, AddressAssumption DEF Writes, Key
<1>2. /\ ~Made(a) /\ claim[k] = None
      /\ name' = [name EXCEPT ![a] = k] /\ claim' = [claim EXCEPT ![k] = a]
      /\ \/ /\ email' = [email EXCEPT ![a] = m] /\ google' = google
            /\ told' = [told EXCEPT ![a].email = m]
         \/ /\ google' = [google EXCEPT ![a] = g] /\ email' = email /\ g # None
            /\ told' = [told EXCEPT ![a].google = g]
  BY <1>1 DEF EmailRegister, GoogleRegister, Register
<1> USE Nothing
<1>3. Others(a) /\ Made(a)'
  BY <1>1, <1>2, AddressAssumption DEF Others, Made, TypeInv, TypeOK
<1>4. TypeInv'
  <2>1. told' \in [Account -> [email : Gmail \cup {None}, google : Google \cup {None}]]
    BY <1>1, <1>2, ToldType
  <2>2. /\ name' \in [Account -> Address \cup {None}]
        /\ claim' \in [Gmail -> Account \cup {None}]
    BY <1>1, <1>2, AddressAssumption DEF TypeInv, TypeOK
  <2>3. /\ email' \in [Account -> Gmail \cup {None}]
        /\ google' \in [Account -> Google \cup {None}]
    BY <1>1, <1>2 DEF TypeInv, TypeOK
  <2> QED
    BY <1>1, <1>3, <2>1, <2>2, <2>3, WriteType
<1>5. Backs(a)' = {k}
  <2>1. name'[a] = k /\ email[a] = None /\ google[a] = None
    BY <1>2 DEF TypeInv, TypeOK
  <2>2. NameKey(a)' = k
    BY <1>1, <2>1 DEF NameKey
  <2>3. EmailKey(a)' \in {k, None} /\ GoogleKey(a)' \in {k, None}
    BY <1>1, <1>2, <2>1 DEF EmailKey, GoogleKey, TypeInv, TypeOK
  <2> QED
    BY <1>1, <2>2, <2>3 DEF Backs
<1>6. ClaimsAgree'
  BY <1>1, <1>2, <1>3, <1>5, FreshAgrees
<1> QED
  BY <1>4, <1>6

LEMMA ProvisionAgrees ==
  ASSUME TypeInv, ClaimsAgree, NEW a \in Account, NEW n \in Address, Provision(a, n)
  PROVE  TypeInv' /\ ClaimsAgree'
<1> USE Nothing
<1>1. /\ ~Made(a) /\ name' = [name EXCEPT ![a] = n]
      /\ email' = email /\ google' = google /\ told' = told /\ txn' = txn
  BY DEF Provision
<1>2. IF n \in Gmail THEN claim[KeyOf[n]] = None /\ claim' = [claim EXCEPT ![KeyOf[n]] = a]
                     ELSE claim' = claim
  BY DEF Provision
<1>3. n \in Gmail => KeyOf[n] \in Gmail
  BY AddressAssumption
<1>4. Others(a) /\ Made(a)'
  BY <1>1 DEF Others, Made, TypeInv, TypeOK
<1>5. TypeInv'
  <2>1. name' \in [Account -> Address \cup {None}] /\ claim' \in [Gmail -> Account \cup {None}]
    BY <1>1, <1>2, <1>3 DEF TypeInv, TypeOK
  <2>2. /\ email' \in [Account -> Gmail \cup {None}]
        /\ google' \in [Account -> Google \cup {None}]
        /\ told' \in [Account -> [email : Gmail \cup {None}, google : Google \cup {None}]]
    BY <1>1 DEF TypeInv, TypeOK
  <2> QED
    BY <1>1, <1>4, <2>1, <2>2, WriteType
<1>6. Backs(a)' = IF n \in Gmail THEN {KeyOf[n]} ELSE {}
  <2>1. name'[a] = n /\ email[a] = None /\ google[a] = None
    BY <1>1 DEF TypeInv, TypeOK
  <2> QED
    BY <1>1, <1>3, <2>1 DEF Backs, NameKey, EmailKey, GoogleKey
<1>7. ClaimsAgree'
  BY <1>1, <1>2, <1>3, <1>4, <1>6, FreshAgrees
<1> QED
  BY <1>5, <1>7

(* The move gives each account one key, and no two the same one: an        *)
(* account's other claims are given up, and there are no claims of         *)
(* accounts that do not exist.                                             *)
LEMMA MigrateAgrees ==
  ASSUME TypeInv, ClaimsAgree, Migrate
  PROVE  TypeInv' /\ ClaimsAgree'
<1> USE Nothing, AddressAssumption
<1> DEFINE New(a) == KeyOf[MovedTo[name[a]]]
<1>1. /\ \A a, b \in People : a # b => New(a) # New(b)
      /\ \A a \in People : google[a] = None /\ email[a] \in {None, name[a]}
      /\ name' = [a \in Account |-> IF Made(a) THEN MovedTo[name[a]] ELSE None]
      /\ email' = [a \in Account |-> IF email[a] = None THEN None ELSE MovedTo[name[a]]]
      /\ google' = google /\ txn' = txn /\ \A t \in Txn : txn[t] = Idle
  BY DEF Migrate
<1>2. \A a \in People : a \in Account /\ name[a] \in Address /\ New(a) \in Gmail /\ KeyOf[New(a)] = New(a)
  <2>1. ASSUME NEW a \in People PROVE a \in Account /\ name[a] \in Address
    BY DEF People, Made, TypeInv, TypeOK
  <2>2. ASSUME NEW n \in Address
        PROVE  KeyOf[MovedTo[n]] \in Gmail /\ KeyOf[KeyOf[MovedTo[n]]] = KeyOf[MovedTo[n]]
    <3>1. MovedTo[n] \in Gmail
      OBVIOUS
    <3> QED
      BY <3>1
  <2> QED
    BY <2>1, <2>2
<1>3. \A a \in Account \ People : name[a] = None /\ email[a] = None /\ google[a] = None
  BY DEF People, Made, TypeInv
<1>4. /\ name' \in [Account -> Address \cup {None}]
      /\ email' \in [Account -> Gmail \cup {None}]
      /\ google' \in [Account -> Google \cup {None}]
  BY <1>1, <1>2, <1>3 DEF People, TypeInv, TypeOK
<1>5. /\ \A a \in People : name'[a] = MovedTo[name[a]] /\ email'[a] \in {None, MovedTo[name[a]]}
      /\ \A a \in Account \ People : name'[a] = None /\ email'[a] = None
  BY <1>1, <1>2, <1>3 DEF People
<1>6. \A a \in People : KeyOf[name'[a]] = New(a)
  BY <1>5
<1>7. \A k \in Gmail :
        claim'[k] = IF \E a \in People : New(a) = k
                      THEN CHOOSE a \in People : New(a) = k
                      ELSE IF claim[k] \in People THEN None ELSE claim[k]
  <2>1. claim' = [k \in Gmail |->
                    IF \E a \in People : KeyOf[name'[a]] = k
                      THEN CHOOSE a \in People : KeyOf[name'[a]] = k
                      ELSE IF claim[k] \in People THEN None ELSE claim[k]]
    BY DEF Migrate
  <2>2. ASSUME NEW k \in Gmail
        PROVE  /\ (CHOOSE a \in People : KeyOf[name'[a]] = k) = CHOOSE a \in People : New(a) = k
               /\ (\E a \in People : KeyOf[name'[a]] = k) <=> \E a \in People : New(a) = k
    BY <1>6
  <2>3. ASSUME NEW k \in Gmail
        PROVE  claim'[k] = IF \E a \in People : KeyOf[name'[a]] = k
                             THEN CHOOSE a \in People : KeyOf[name'[a]] = k
                             ELSE IF claim[k] \in People THEN None ELSE claim[k]
    BY <2>1
  <2> HIDE DEF New
  <2> QED
    BY <2>2, <2>3
<1>8. ASSUME NEW a \in Account, NEW k \in Gmail
      PROVE  claim'[k] = a <=> a \in People /\ New(a) = k
  <2>1. claim[k] \in Account => claim[k] \in People
    <3>1. ASSUME NEW b \in Account, claim[k] = b PROVE b \in People
      <4>1. k \in Backs(b)
        BY <3>1 DEF ClaimsAgree
      <4> QED
        BY <1>3, <4>1 DEF Backs, NameKey, EmailKey, GoogleKey
    <3> QED
      BY <3>1
  <2>2. CASE \E b \in People : New(b) = k
    <3>1. PICK b \in People : New(b) = k
      BY <2>2
    <3>2. (CHOOSE c \in People : New(c) = k) = b
      BY <1>1, <3>1
    <3> QED
      BY <1>1, <1>7, <3>1, <3>2
  <2>3. CASE ~\E b \in People : New(b) = k
    BY <1>7, <2>1, <2>3
  <2> QED
    BY <2>2, <2>3
<1>9. ASSUME NEW a \in Account
      PROVE  Backs(a)' = IF a \in People THEN {New(a)} ELSE {}
  <2>1. CASE a \in People
    <3>1. name'[a] \in Gmail /\ KeyOf[name'[a]] = New(a) /\ google'[a] = None
      BY <1>1, <1>2, <1>5, <2>1
    <3>2. EmailKey(a)' \in {None, New(a)}
      BY <1>5, <2>1 DEF EmailKey
    <3> QED
      BY <1>2, <2>1, <3>1, <3>2 DEF Backs, NameKey, GoogleKey
  <2>2. CASE a \notin People
    BY <1>1, <1>3, <1>5, <2>2 DEF Backs, NameKey, EmailKey, GoogleKey
  <2> QED
    BY <2>1, <2>2
<1>10. claim' \in [Gmail -> Account \cup {None}]
  <2>1. claim' = [k \in Gmail |-> claim'[k]]
    BY DEF Migrate
  <2>2. ASSUME NEW k \in Gmail PROVE claim'[k] \in Account \cup {None}
    <3>1. CASE \E a \in People : New(a) = k
      BY <1>2, <1>8, <3>1
    <3>2. CASE ~\E a \in People : New(a) = k
      BY <1>7, <3>2 DEF TypeInv, TypeOK
    <3> QED
      BY <3>1, <3>2
  <2> QED
    BY <2>1, <2>2
<1>11. ClaimsAgree'
  <2>1. \A a \in Account : \A k \in Backs(a)' : claim'[k] = a
    BY <1>2, <1>8, <1>9
  <2>2. ASSUME NEW k \in Gmail, NEW a \in Account, claim'[k] = a PROVE k \in Backs(a)'
    BY <1>8, <1>9, <2>2
  <2>3. ASSUME NEW k \in Gmail PROVE (claim[k] # None => k \in Backs(claim[k]))'
    BY <1>10, <2>2
  <2> QED
    BY <2>1, <2>3 DEF ClaimsAgree
<1>12. told' \in [Account -> [email : Gmail \cup {None}, google : Google \cup {None}]]
  <2> DEFINE Row == [email : Gmail \cup {None}, google : Google \cup {None}]
  <2>1. told' = [a \in Account |-> IF email'[a] = email[a] THEN told[a]
                                    ELSE [told[a] EXCEPT !.email = email'[a]]]
    BY DEF Migrate
  <2>2. ASSUME NEW a \in Account PROVE told'[a] \in Row
    <3> DEFINE r == told[a]
               e == email'[a]
    <3>1. r \in Row /\ e \in Gmail \cup {None}
      BY <1>4 DEF TypeInv, TypeOK
    <3>2. [r EXCEPT !.email = e] \in Row
      BY <3>1
    <3>3. told'[a] = r \/ told'[a] = [r EXCEPT !.email = e]
      BY <2>1
    <3> QED
      BY <3>1, <3>2, <3>3
  <2> HIDE DEF Row
  <2>3. told' \in [Account -> Row]
    BY <2>1, <2>2
  <2> QED
    BY <2>3 DEF Row
<1>13. TypeInv'
  <2>1. TypeOK'
    BY <1>1, <1>4, <1>10, <1>12 DEF TypeInv, TypeOK
  <2>2. \A t \in Txn : Proven(t)'
    BY <1>1 DEF Proven, Idle
  <2>3. \A a \in Account : ~Made(a)' => email'[a] = None /\ google'[a] = None
    BY <1>1, <1>2, <1>3, <1>5 DEF Made
  <2> QED
    BY <2>1, <2>2, <2>3 DEF TypeInv
<1> QED
  BY <1>11, <1>13

-----------------------------------------------------------------------------
(* The inductive invariant: the types, which say what a transaction has    *)
(* proven, and the agreement itself. The locks are not among it: what a    *)
(* transaction reads and writes under them is one step here, so they only  *)
(* decide who waits for whom.                                              *)
LEMMA InitAgrees == Init => ClaimsAgree
BY AddressAssumption DEF Init, ClaimsAgree, Backs, NameKey, EmailKey, GoogleKey

LEMMA NextAgrees == TypeInv /\ ClaimsAgree /\ [Next]_vars => TypeInv' /\ ClaimsAgree'
<1> SUFFICES ASSUME TypeInv, ClaimsAgree, [Next]_vars PROVE TypeInv' /\ ClaimsAgree'
  OBVIOUS
<1>1. ASSUME UNCHANGED rowVars PROVE ClaimsAgree'
  BY <1>1 DEF rowVars, ClaimsAgree, Backs, NameKey, EmailKey, GoogleKey
<1>2. CASE UNCHANGED vars
  <2>1. UNCHANGED rowVars /\ txn' = txn
    BY <1>2 DEF vars, rowVars
  <2> QED
    BY <1>1, <2>1 DEF TypeInv, TypeOK, Proven, Made, rowVars
<1>3. ASSUME NEW t \in Txn, NEW a \in Account \cup {None}, NEW mode \in Modes,
             \/ \E m \in Gmail : EmailVerify(t, mode, a, m)
             \/ \E g \in Google : GoogleComplete(t, mode, a, g)
      PROVE  TypeInv' /\ ClaimsAgree'
  BY <1>1, <1>3, StartType DEF EmailVerify, GoogleComplete, rowVars
<1>4. ASSUME NEW t \in Txn, Abort(t) \/ LockAccount(t) \/ LockKey(t)
      PROVE  TypeInv' /\ ClaimsAgree'
  BY <1>1, <1>4, LockType DEF Abort, LockAccount, LockKey, rowVars
<1> QED
  BY <1>2, <1>3, <1>4, ProvisionAgrees, EmailBindAgrees, GoogleBindAgrees, RegisterAgrees,
     MigrateAgrees DEF Next, Modes

(* In every state each key that an account's name, e-mail or Google        *)
(* identity needs is claimed by that account, and no claim is left that    *)
(* nothing backs (findGmailClaimIssues), whatever bindings, registrations, *)
(* provisioning and the move of the development accounts have run before.  *)
THEOREM ClaimsHold == Spec => []ClaimsAgree
<1>1. Init => TypeInv /\ ClaimsAgree
  BY InitType, InitAgrees
<1> QED
  BY <1>1, NextAgrees, PTL DEF Spec

(* No mailbox, in whatever spelling, belongs to two accounts.              *)
OneMailbox == \A a, b \in Account : Backs(a) \cap Backs(b) # {} => a = b

THEOREM OneMailboxHolds == Spec => []OneMailbox
<1>1. ClaimsAgree => OneMailbox
  BY DEF ClaimsAgree, OneMailbox
<1> QED
  BY <1>1, ClaimsHold, PTL

-----------------------------------------------------------------------------
(***************************************************************************)
(* Signing in. A request that issues a session looks at the password again *)
(* under the lock of its account, and a reset of the password ends every   *)
(* session of the account in the same transaction.                         *)
(***************************************************************************)
LoginRow ==
  [step : {"idle", "name", "gate", "hash", "issue", "answer"}, account : Signer \cup {None},
   browser : Desktop \cup {None}, old : S!Id \cup {None}, guess : S!Version,
   got : S!Id \cup {None}]

SessionRow == [account : Signer, by : S!Version, live : BOOLEAN]

SignInInv ==
  /\ password \in [Signer -> S!Version]
  /\ cookie \in [Desktop -> S!Id \cup {None}]
  /\ login \in [Submission -> LoginRow]
  /\ \A r \in Submission : login[r].step # "idle" => login[r].account \in Signer
  /\ \A s \in DOMAIN session : session[s] \in SessionRow
  /\ SessionsCurrent

LEMMA RevokedCurrent ==
  ASSUME SignInInv, NEW ids, session' = S!Revoked(ids)
  PROVE  /\ DOMAIN session' = DOMAIN session
         /\ \A s \in DOMAIN session :
              /\ session'[s] \in SessionRow
              /\ session'[s].account = session[s].account /\ session'[s].by = session[s].by
              /\ session'[s].live => session[s].live /\ s \notin ids
BY DEF SignInInv, S!Revoked, SessionRow

LEMMA NextSignIn == SignInInv /\ [S!Next]_(S!vars) => SignInInv'
<1> SUFFICES ASSUME SignInInv, [S!Next]_(S!vars) PROVE SignInInv'
  OBVIOUS
<1> USE DEF SessionsCurrent, S!SessionsCurrent
<1>0. S!NoRequest \in LoginRow /\ S!NoRequest.step = "idle"
  BY RacesAssumption DEF S!NoRequest, LoginRow, S!Version
<1>1. CASE UNCHANGED <<password, session, cookie, login>>
  BY <1>1 DEF SignInInv
<1>2. ASSUME NEW r \in Submission, NEW row \in LoginRow, login' = [login EXCEPT ![r] = row],
             row.step # "idle" => row.account \in Signer,
             UNCHANGED <<password, session>>, cookie' \in [Desktop -> S!Id \cup {None}]
      PROVE  SignInInv'
  BY <1>2 DEF SignInInv
<1>3. ASSUME NEW r \in Submission, S!End(r), UNCHANGED <<password, session>>,
             cookie' \in [Desktop -> S!Id \cup {None}]
      PROVE  SignInInv'
  BY <1>0, <1>2, <1>3 DEF S!End
<1>4. ASSUME NEW r \in Submission, NEW s \in {"gate", "hash", "issue"}, S!Goto(r, s),
             login[r].step # "idle", UNCHANGED <<password, session, cookie>>
      PROVE  SignInInv'
  <2>1. PICK row : row = [login[r] EXCEPT !.step = s]
    OBVIOUS
  <2>2. row \in LoginRow /\ row.account \in Signer
    BY <1>4, <2>1 DEF SignInInv, LoginRow
  <2>3. login' = [login EXCEPT ![r] = row]
    BY <1>4, <2>1 DEF S!Goto
  <2> QED
    BY <1>2, <1>4, <2>2, <2>3 DEF SignInInv
<1>5. ASSUME NEW r \in Submission, NEW b \in Desktop, NEW a \in Signer, NEW v \in S!Version,
             S!Login(r, b, a, v)
      PROVE  SignInInv'
  <2>1. PICK row : row = [step |-> "name", account |-> a, browser |-> b, old |-> cookie[b],
                          guess |-> v, got |-> None]
    OBVIOUS
  <2>2. row \in LoginRow /\ row.account \in Signer
    BY <2>1 DEF SignInInv, LoginRow
  <2>3. login' = [login EXCEPT ![r] = row] /\ UNCHANGED <<password, session, cookie>>
    BY <1>5, <2>1 DEF S!Login
  <2> QED
    BY <1>2, <2>2, <2>3 DEF SignInInv
<1>6. ASSUME NEW r \in Submission, S!Count(r) \/ S!Enter(r) \/ S!Hash(r) \/ S!Break(r)
      PROVE  SignInInv'
  BY <1>3, <1>4, <1>6 DEF S!Count, S!Enter, S!Hash, S!Break, S!Leave, SignInInv
<1>7. ASSUME NEW r \in Submission, S!Issue(r) PROVE SignInInv'
  <2>1. CASE S!Leave(r) /\ UNCHANGED session
    BY <1>3, <1>7, <2>1 DEF S!Issue, S!Leave, SignInInv
  <2>2. CASE password[login[r].account] = login[r].guess /\ S!IssueSession(r)
    <3>1. PICK id, rest :
            /\ id \in S!Id /\ rest = S!Revoked({login[r].old})
            /\ session' = [s \in DOMAIN session \cup {id} |->
                 IF s = id THEN [account |-> login[r].account, by |-> login[r].guess,
                                 live |-> TRUE]
                           ELSE rest[s]]
            /\ login' = [login EXCEPT ![r].step = "answer", ![r].got = id]
      BY <2>2 DEF S!IssueSession
    <3>2. \A s \in DOMAIN session :
            /\ rest[s] \in SessionRow
            /\ rest[s].account = session[s].account /\ rest[s].by = session[s].by
            /\ rest[s].live => session[s].live
      BY <3>1 DEF S!Revoked, SignInInv, SessionRow
    <3>3. login[r].account \in Signer /\ login[r].guess \in S!Version /\ login[r] \in LoginRow
      BY <1>7 DEF S!Issue, SignInInv, LoginRow
    <3>4. ASSUME NEW s \in DOMAIN session'
          PROVE  /\ session'[s] \in SessionRow
                 /\ session'[s].live => session'[s].by = password[session'[s].account]
      <4>1. CASE s = id
        <5>1. session'[s] = [account |-> login[r].account, by |-> login[r].guess, live |-> TRUE]
          BY <3>1, <4>1
        <5> QED
          BY <2>2, <3>3, <5>1 DEF SessionRow
      <4>2. CASE s # id
        <5>1. s \in DOMAIN session /\ session'[s] = rest[s]
          BY <3>1, <4>2
        <5> QED
          BY <3>2, <5>1 DEF SignInInv
      <4> QED
        BY <4>1, <4>2
    <3>5. PICK row : row = [login[r] EXCEPT !.step = "answer", !.got = id]
      OBVIOUS
    <3>6. row \in LoginRow /\ row.account \in Signer
      BY <3>1, <3>3, <3>5 DEF LoginRow
    <3>7. login' = [login EXCEPT ![r] = row]
      BY <3>1, <3>5 DEF SignInInv, LoginRow
    <3> QED
      BY <1>7, <3>4, <3>6, <3>7 DEF S!Issue, SignInInv
  <2> QED
    BY <1>7, <2>1, <2>2 DEF S!Issue
<1>8. ASSUME NEW r \in Submission, S!Answer(r) PROVE SignInInv'
  <2>1. cookie' \in [Desktop -> S!Id \cup {None}]
    BY <1>8 DEF S!Answer, SignInInv, LoginRow
  <2> QED
    BY <1>3, <1>8, <2>1 DEF S!Answer
<1>12. ASSUME NEW ids, session' = S!Revoked(ids), UNCHANGED <<password, login>>,
              cookie' \in [Desktop -> S!Id \cup {None}]
       PROVE  SignInInv'
  <2>1. \A s \in DOMAIN session' :
          session'[s] \in SessionRow /\ session'[s].account = session[s].account
          /\ session'[s].by = session[s].by /\ (session'[s].live => session[s].live)
    BY <1>12, RevokedCurrent
  <2>2. DOMAIN session' = DOMAIN session
    BY <1>12, RevokedCurrent
  <2>3. \A s \in DOMAIN session' : session'[s].live =>
          session'[s].by = password[session'[s].account]
    BY <2>1, <2>2 DEF SignInInv
  <2> QED
    BY <1>12, <2>1, <2>3 DEF SignInInv
<1>9. ASSUME NEW b \in Desktop, S!Logout(b) PROVE SignInInv'
  BY <1>9, <1>12 DEF S!Logout, SignInInv
<1>10. ASSUME NEW s \in S!Id, S!Expire(s) PROVE SignInInv'
  BY <1>10, <1>12 DEF S!Expire, SignInInv
<1>11. ASSUME NEW a \in Signer, S!Reset(a) PROVE SignInInv'
  <2>1. PICK ids : ids = {s \in DOMAIN session : session[s].account = a}
    OBVIOUS
  <2>2. /\ DOMAIN session' = DOMAIN session
        /\ \A s \in DOMAIN session :
             /\ session'[s] \in SessionRow
             /\ session'[s].account = session[s].account /\ session'[s].by = session[s].by
             /\ session'[s].live => session[s].live /\ s \notin ids
    BY <1>11, <2>1, RevokedCurrent DEF S!Reset
  <2>3. /\ password' \in [Signer -> S!Version]
        /\ \A b \in Signer : b # a => password'[b] = password[b]
    BY <1>11, RacesAssumption DEF S!Reset, SignInInv, S!Version
  <2>4. \A s \in DOMAIN session' : session'[s].live =>
          session'[s].by = password'[session'[s].account]
    <3> SUFFICES ASSUME NEW s \in DOMAIN session', session'[s].live
                 PROVE  session'[s].by = password'[session'[s].account]
      OBVIOUS
    <3>1. /\ session[s].live /\ s \notin ids /\ s \in DOMAIN session
          /\ session'[s].account = session[s].account /\ session'[s].by = session[s].by
      BY <2>2
    <3>2. session[s].account \in Signer /\ session[s].by = password[session[s].account]
      BY <3>1 DEF SignInInv, SessionRow
    <3>3. session[s].account # a
      BY <2>1, <3>1
    <3> QED
      BY <2>3, <3>1, <3>2, <3>3
  <2> QED
    BY <1>11, <2>2, <2>3, <2>4 DEF S!Reset, SignInInv
<1> QED
  BY <1>1, <1>5, <1>6, <1>7, <1>8, <1>9, <1>10, <1>11
     DEF S!Next, S!vars, S!WindowEnds, S!Prune

(* No live session was issued on a password that has been reset since,     *)
(* however a reset falls between the check of the password and the insert  *)
(* of the session (authentication.service.ts, login).                      *)
THEOREM SessionsHold == S!Spec => []SessionsCurrent
<1>1. S!Init => SignInInv
  BY RacesAssumption
     DEF S!Init, SignInInv, SessionsCurrent, S!SessionsCurrent, S!NoRequest, LoginRow, S!Version
<1>2. SignInInv => SessionsCurrent
  BY DEF SignInInv
<1> QED
  BY <1>1, <1>2, NextSignIn, PTL DEF S!Spec

-----------------------------------------------------------------------------
(***************************************************************************)
(* Proofs. A window that is open counts every attempt that it let pass.    *)
(***************************************************************************)
Window(k) ==
  /\ passed[k] = IF bucket[k].open THEN bucket[k].count ELSE 0
  /\ passed[k] <= S!Cap(k)

RateInv ==
  /\ bucket \in [S!Bucket -> [count : Nat, open : BOOLEAN]]
  /\ passed \in [S!Bucket -> Nat]
  /\ \A k \in S!Bucket : Window(k)

LEMMA NextRate == SignInInv /\ RateInv /\ [S!Next]_(S!vars) => RateInv'
<1> SUFFICES ASSUME SignInInv, RateInv, [S!Next]_(S!vars) PROVE RateInv'
  OBVIOUS
<1>1. CASE UNCHANGED <<bucket, passed>>
  BY <1>1 DEF RateInv, Window
<1>2. ASSUME NEW k \in S!Bucket, NEW row \in [count : Nat, open : BOOLEAN],
             NEW n \in Nat, bucket' = [bucket EXCEPT ![k] = row],
             passed' = [passed EXCEPT ![k] = n], n <= S!Cap(k),
             n = IF row.open THEN row.count ELSE 0
      PROVE  RateInv'
  <2>1. ASSUME NEW j \in S!Bucket PROVE Window(j)'
    BY <1>2 DEF RateInv, Window
  <2>2. /\ bucket' \in [S!Bucket -> [count : Nat, open : BOOLEAN]]
        /\ passed' \in [S!Bucket -> Nat]
    BY <1>2 DEF RateInv
  <2> QED
    BY <2>1, <2>2 DEF RateInv
<1>3. ASSUME NEW k \in S!Bucket, S!Free(k), S!Consume(k) PROVE RateInv'
  <2>1. /\ bucket[k] \in [count : Nat, open : BOOLEAN] /\ passed[k] \in Nat
        /\ Window(k) /\ S!Cap(k) \in Nat \ {0}
    BY RacesAssumption DEF RateInv, S!Cap
  <2>2. PICK row : row =
          [count |-> IF bucket[k].open THEN bucket[k].count + 1 ELSE 1, open |-> TRUE]
    OBVIOUS
  <2>3. row \in [count : Nat, open : BOOLEAN] /\ row.open /\ passed[k] + 1 = row.count
    BY <2>1, <2>2 DEF Window
  <2>4. passed[k] + 1 <= S!Cap(k)
    BY <1>3, <2>1 DEF Window, S!Free
  <2>5. /\ bucket' = [bucket EXCEPT ![k] = row]
        /\ passed' = [passed EXCEPT ![k] = passed[k] + 1]
    BY <1>3, <2>2 DEF S!Consume
  <2> QED
    BY <1>2, <2>1, <2>3, <2>4, <2>5
<1>4. ASSUME NEW k \in S!Bucket, S!WindowEnds(k) PROVE RateInv'
  <2>1. PICK row : row = [bucket[k] EXCEPT !.open = FALSE]
    OBVIOUS
  <2>2. row \in [count : Nat, open : BOOLEAN] /\ ~row.open
    BY <2>1 DEF RateInv
  <2>3. 0 <= S!Cap(k)
    BY RacesAssumption DEF S!Cap
  <2> QED
    BY <1>2, <1>4, <2>1, <2>2, <2>3 DEF S!WindowEnds
<1>5. ASSUME NEW k \in S!Bucket, S!Prune(k) PROVE RateInv'
  <2>1. PICK row : row = S!NoBucket
    OBVIOUS
  <2>3. row \in [count : Nat, open : BOOLEAN] /\ ~row.open
    BY <2>1 DEF S!NoBucket
  <2>4. bucket' = [bucket EXCEPT ![k] = row]
    BY <1>5, <2>1 DEF S!Prune
  <2>2. 0 <= S!Cap(k)
    BY RacesAssumption DEF S!Cap
  <2>5. passed' = [passed EXCEPT ![k] = 0]
    BY <1>5 DEF RateInv, Window, S!Prune
  <2> QED
    BY <1>2, <2>2, <2>3, <2>4, <2>5
<1>6. ASSUME NEW r \in Submission, NEW b \in Desktop, NEW a \in Signer, NEW v \in S!Version,
             S!Login(r, b, a, v)
      PROVE  RateInv'
  BY <1>3, <1>6 DEF S!Login, S!Bucket
<1>7. ASSUME NEW r \in Submission, S!Count(r), login[r].account \in Signer PROVE RateInv'
  BY <1>1, <1>3, <1>7 DEF S!Count, S!Bucket
<1> QED
  BY <1>1, <1>4, <1>5, <1>6, <1>7
     DEF S!Next, S!vars, S!Enter, S!Hash, S!Issue, S!Break, S!Answer, S!Logout, S!Expire, S!Reset,
         SignInInv, S!Count

-----------------------------------------------------------------------------
(***************************************************************************)
(* Codes and Google attempts. The codes ever made for a mailbox are        *)
(* numbered without a gap, so a new one is new; the current one is spent   *)
(* when it was accepted or its own mail failed, and counts its tries. An   *)
(* attempt is spent before its profile is fetched.                         *)
(***************************************************************************)
Row ==
  [id : 0..MaxSends, by : Holder \cup {None}, tries : 0..MaxTries, used : BOOLEAN,
   fresh : BOOLEAN, live : BOOLEAN]

CodesType ==
  /\ challenge \in [Mailbox -> Row]
  /\ sender \in [Sender -> C!Code \cup {None}]
  /\ mailed \subseteq C!Code /\ failed \subseteq C!Code
  /\ attempt \in [Attempt -> [browser : Device \cup {None},
                              state : {"none", "open", "used", "expired"}]]
  /\ callback \in [Redirect -> Attempt \cup {None}]
  /\ wrong \in [C!Code -> Nat] /\ accepted \in [C!Proof -> Nat]

(* The codes on the way or arrived, by number.                             *)
Sent(m, i) ==
  <<m, i>> \in mailed \cup failed \/ \E s \in Sender : sender[s] = <<m, i>>

Numbered(m) ==
  /\ \A i, j \in 1..MaxSends : Sent(m, i) /\ j <= i => Sent(m, j)
  /\ \A i \in 1..MaxSends : challenge[m].id = i => Sent(m, i)

Counted(m) ==
  \A i \in 1..MaxSends :
    /\ accepted[<<m, i>>] <= 1 /\ wrong[<<m, i>>] <= MaxTries
    /\ ~Sent(m, i) => (accepted[<<m, i>>] = 0 /\ wrong[<<m, i>>] = 0)
    /\ challenge[m].id = i =>
         /\ wrong[<<m, i>>] = challenge[m].tries
         /\ accepted[<<m, i>>] > 0 => challenge[m].used
         /\ challenge[m].used => accepted[<<m, i>>] > 0 \/ <<m, i>> \in failed

Spent(g) ==
  /\ accepted[g] <= 1
  /\ accepted[g] > 0 =>
       attempt[g].state \in {"used", "expired"} /\ \A c \in Redirect : callback[c] # g
  /\ \A c \in Redirect : callback[c] = g =>
       /\ attempt[g].state \in {"used", "expired"}
       /\ \A d \in Redirect : callback[d] = g => c = d

CodesInv ==
  /\ CodesType
  /\ \A m \in Mailbox : Numbered(m) /\ Counted(m)
  /\ \A g \in Attempt : Spent(g)

(* The number of a set is the same within the instance.                    *)
LEMMA Counts == \A X : C!Cardinality(X) = Cardinality(X)
BY Zenon DEF C!Cardinality, Cardinality

LEMMA Numbers ==
  ASSUME CodesInv, NEW m \in Mailbox, NEW k, k = C!Cardinality(C!Made(m)) + 1
  PROVE  /\ k \in Nat \ {0}
         /\ k <= MaxSends => ~Sent(m, k) /\ \A j \in 1..MaxSends : j < k => Sent(m, j)
<1> DEFINE D == {i \in 1..MaxSends : Sent(m, i)}
           f == [i \in D |-> <<m, i>>]
<1>1. C!Made(m) = {<<m, i>> : i \in D}
  <2>1. ASSUME NEW x \in C!Made(m) PROVE \E i \in D : x = <<m, i>>
    <3>1. PICK n \in Mailbox, i \in 1..MaxSends : x = <<n, i>>
      BY <2>1 DEF C!Made, C!Code
    <3>2. n = m
      BY <2>1, <3>1 DEF C!Made
    <3>3. \/ x \in mailed \cup failed \/ \E s \in Sender : x = sender[s]
          \/ x = <<m, challenge[m].id>>
      BY <2>1 DEF C!Made, C!Current
    <3>4. Sent(m, i)
      BY <3>1, <3>2, <3>3 DEF Sent, CodesInv, Numbered
    <3> QED
      BY <3>1, <3>2, <3>4
  <2>2. ASSUME NEW i \in D PROVE <<m, i>> \in C!Made(m)
    BY <2>2 DEF C!Made, C!Code, Sent
  <2> QED
    BY <2>1, <2>2
<1>2. IsFiniteSet(D) /\ Cardinality(D) \in Nat
  <2>1. IsFiniteSet(1..MaxSends)
    BY RacesAssumption, FS_Interval
  <2>2. IsFiniteSet(D)
    BY <2>1, FS_Subset, D \in SUBSET (1..MaxSends)
  <2> QED
    BY <2>2, FS_CardinalityType
<1>3. f \in Bijection(D, C!Made(m))
  BY <1>1 DEF Bijection, Injection, IsInjective, Surjection
<1>4. Cardinality(C!Made(m)) = Cardinality(D)
  BY <1>2, <1>3, FS_Bijection DEF ExistsBijection
<1>5. k = Cardinality(D) + 1 /\ k \in Nat \ {0}
  BY <1>2, <1>4, Counts
<1> HIDE DEF D
<1>6. ASSUME k <= MaxSends, Sent(m, k) PROVE FALSE
  <2>1. 1..k \subseteq D
    BY <1>5, <1>6, RacesAssumption DEF D, CodesInv, Numbered
  <2>2. Cardinality(1..k) <= Cardinality(D)
    BY <1>2, <2>1, FS_Subset
  <2> QED
    BY <1>2, <1>5, <2>2, FS_Interval
<1>7. ASSUME k <= MaxSends, NEW j \in 1..MaxSends, j < k, ~Sent(m, j) PROVE FALSE
  <2>1. D \subseteq 1..(j - 1)
    BY <1>7, RacesAssumption DEF D, CodesInv, Numbered
  <2>2. /\ j - 1 \in Int /\ IsFiniteSet(1..(j - 1))
        /\ Cardinality(1..(j - 1)) = j - 1
    <3>1. j - 1 \in Int /\ j \in Nat /\ j >= 1
      BY <1>7, RacesAssumption
    <3>2. IsFiniteSet(1..(j - 1)) /\ Cardinality(1..(j - 1)) = IF 1 > j - 1 THEN 0 ELSE j - 1 - 1 + 1
      BY <3>1, FS_Interval
    <3> QED
      BY <3>1, <3>2
  <2>3. Cardinality(D) <= Cardinality(1..(j - 1))
    BY <2>1, <2>2, FS_Subset
  <2> QED
    BY <1>2, <1>5, <1>7, <2>2, <2>3
<1> QED
  BY <1>5, <1>6, <1>7

(* A code is no Google attempt.                                            *)
LEMMA Apart ==
  /\ \A m \in Mailbox, i \in 1..MaxSends : <<m, i>> \in C!Code /\ <<m, i>> \in C!Proof
  /\ \A x \in C!Code : x \in C!Proof /\ x \notin Attempt /\ x # None
  /\ \A g \in Attempt : g \in C!Proof /\ g # None
BY RacesAssumption DEF C!Code, C!Proof

LEMMA InitCodes == C!Init => CodesInv
<1> SUFFICES ASSUME C!Init PROVE CodesInv
  OBVIOUS
<1>1. CodesType
  BY RacesAssumption DEF C!Init, C!NoChallenge, CodesType, Row
<1>2. ASSUME NEW m \in Mailbox PROVE Numbered(m) /\ Counted(m)
  <2>1. challenge[m].id = 0 /\ \A i \in 1..MaxSends : ~Sent(m, i)
    BY Apart DEF C!Init, C!NoChallenge, Sent
  <2>2. \A i \in 1..MaxSends : accepted[<<m, i>>] = 0 /\ wrong[<<m, i>>] = 0
    BY Apart DEF C!Init
  <2> QED
    BY <2>1, <2>2, RacesAssumption DEF Numbered, Counted
<1>3. ASSUME NEW g \in Attempt PROVE Spent(g)
  BY Apart DEF C!Init, Spent
<1> QED
  BY <1>1, <1>2, <1>3 DEF CodesInv

(* The steps of Google attempts.                                           *)
LEMMA GoogleCodes ==
  ASSUME CodesInv, UNCHANGED <<challenge, sender, mailed, failed, wrong>>,
         attempt' \in [Attempt -> [browser : Device \cup {None},
                                   state : {"none", "open", "used", "expired"}]],
         callback' \in [Redirect -> Attempt \cup {None}],
         accepted' \in [C!Proof -> Nat],
         \A x \in C!Code : accepted'[x] = accepted[x],
         \A g \in Attempt : Spent(g)'
  PROVE  CodesInv'
<1>1. CodesType'
  BY DEF CodesInv, CodesType
<1>2. ASSUME NEW m \in Mailbox PROVE Numbered(m)' /\ Counted(m)'
  <2>1. \A i : Sent(m, i)' = Sent(m, i)
    BY DEF Sent
  <2>2. \A i \in 1..MaxSends : accepted'[<<m, i>>] = accepted[<<m, i>>]
    BY Apart
  <2> QED
    BY <2>1, <2>2 DEF CodesInv, Numbered, Counted
<1> QED
  BY <1>1, <1>2 DEF CodesInv

(* The steps of codes, each about one mailbox.                             *)
LEMMA MailCodes ==
  ASSUME CodesInv, CodesType', UNCHANGED <<attempt, callback>>,
         NEW m \in Mailbox, Numbered(m)', Counted(m)',
         \A n \in Mailbox \ {m} :
           /\ challenge'[n] = challenge[n]
           /\ \A i \in 1..MaxSends :
                /\ Sent(n, i)' <=> Sent(n, i)
                /\ <<n, i>> \in failed' <=> <<n, i>> \in failed
                /\ accepted'[<<n, i>>] = accepted[<<n, i>>] /\ wrong'[<<n, i>>] = wrong[<<n, i>>],
         \A g \in Attempt : accepted'[g] = accepted[g]
  PROVE  CodesInv'
<1>1. ASSUME NEW n \in Mailbox PROVE Numbered(n)' /\ Counted(n)'
  <2>1. CASE n = m
    BY <2>1
  <2>2. CASE n # m
    <3>1. challenge'[n] = challenge[n] /\ challenge[n].id \in 0..MaxSends
      BY <2>2 DEF CodesInv, CodesType, Row
    <3>2. Numbered(n)'
      BY <2>2, <3>1 DEF CodesInv, Numbered
    <3>3. Counted(n)'
      BY <2>2, <3>1 DEF CodesInv, Counted
    <3> QED
      BY <3>2, <3>3
  <2> QED
    BY <2>1, <2>2
<1>2. ASSUME NEW g \in Attempt PROVE Spent(g)'
  BY DEF CodesInv, Spent
<1> QED
  BY <1>1, <1>2 DEF CodesInv

LEMMA EndedAttempts ==
  ASSUME CodesInv, NEW g \in Attempt,
         C!AttemptEnds(g) \/ C!PruneAttempt(g) \/ \E b \in Device : C!Start(g, b)
  PROVE  CodesInv'
<1> USE DEF C!mail
<1>0. CodesType /\ \A x \in Attempt : Spent(x)
  BY DEF CodesInv
<1> DEFINE Rows == [browser : Device \cup {None}, state : {"none", "open", "used", "expired"}]
<1>1. ASSUME NEW row \in Rows, attempt' = [attempt EXCEPT ![g] = row],
             (row.state = "open" /\ attempt[g].state = "none") \/ row.state = "expired",
             UNCHANGED <<challenge, sender, mailed, failed, wrong, callback, accepted>>
      PROVE  CodesInv'
  <2>1. attempt' \in [Attempt -> [browser : Device \cup {None},
                                  state : {"none", "open", "used", "expired"}]]
    BY <1>0, <1>1 DEF CodesType
  <2>2. ASSUME NEW x \in Attempt PROVE Spent(x)'
    BY <1>0, <1>1 DEF Spent, CodesType
  <2> QED
    BY <1>0, <1>1, <2>1, <2>2, GoogleCodes DEF CodesType
<1>2. ASSUME NEW b \in Device, C!Start(g, b) PROVE CodesInv'
  <2>1. PICK row \in Rows : row = [browser |-> b, state |-> "open"]
    OBVIOUS
  <2> QED
    BY <1>1, <1>2, <2>1 DEF C!Start
<1>3. CASE C!AttemptEnds(g)
  <2>1. PICK row : row = [attempt[g] EXCEPT !.state = "expired"]
    OBVIOUS
  <2>2. row \in Rows /\ row.state = "expired"
    BY <1>0, <2>1 DEF CodesType
  <2>3. attempt' = [attempt EXCEPT ![g] = row]
    BY <1>3, <2>1 DEF C!AttemptEnds
  <2> QED
    BY <1>1, <1>3, <2>2, <2>3 DEF C!AttemptEnds
<1>4. CASE C!PruneAttempt(g)
  <2>1. PICK row : row = [attempt[g] EXCEPT !.browser = None, !.state = "expired"]
    OBVIOUS
  <2>2. row \in Rows /\ row.state = "expired"
    BY <1>0, <2>1 DEF CodesType
  <2>3. attempt' = [attempt EXCEPT ![g] = row]
    BY <1>0, <1>4, <2>1 DEF C!PruneAttempt, CodesType
  <2> QED
    BY <1>1, <1>4, <2>2, <2>3 DEF C!PruneAttempt
<1> QED
  BY <1>2, <1>3, <1>4

LEMMA SpentAttempts ==
  ASSUME CodesInv, NEW g \in Attempt, NEW b \in Device, NEW c \in Redirect, C!Spend(c, g, b)
  PROVE  CodesInv'
<1> USE DEF C!mail
<1> DEFINE Rows == [browser : Device \cup {None}, state : {"none", "open", "used", "expired"}]
<1>0. CodesType /\ \A x \in Attempt : Spent(x)
  BY DEF CodesInv
<1>1. PICK row : row = [attempt[g] EXCEPT !.state = "used"]
  OBVIOUS
<1>2. row \in Rows /\ row.state = "used"
  BY <1>0, <1>1 DEF CodesType
<1>3. /\ attempt' = [attempt EXCEPT ![g] = row]
      /\ callback' = [callback EXCEPT ![c] = g] /\ callback[c] = None
      /\ attempt[g].state = "open"
      /\ UNCHANGED <<challenge, sender, mailed, failed, wrong, accepted>>
  BY <1>1 DEF C!Spend
<1>4. attempt' \in [Attempt -> [browser : Device \cup {None},
                                state : {"none", "open", "used", "expired"}]]
  BY <1>0, <1>3, <1>2 DEF CodesType
<1>5. callback' \in [Redirect -> Attempt \cup {None}]
  BY <1>0, <1>3 DEF CodesType
<1>6. accepted[g] = 0 /\ \A d \in Redirect : callback[d] # g
  BY <1>0, <1>3, Apart DEF Spent, CodesType
<1>7. ASSUME NEW x \in Attempt PROVE Spent(x)'
  <2>1. CASE x = g
    BY <1>0, <1>3, <1>6, <1>2, <2>1, Apart DEF Spent, CodesType
  <2>2. CASE x # g
    <3>1. \A d \in Redirect : callback'[d] = x => callback[d] = x
      BY <1>0, <1>3, <2>2 DEF CodesType
    <3>2. attempt'[x] = attempt[x]
      BY <1>0, <1>3, <2>2 DEF CodesType
    <3> QED
      BY <1>0, <1>3, <3>1, <3>2 DEF Spent
  <2> QED
    BY <2>1, <2>2
<1> QED
  BY <1>0, <1>3, <1>4, <1>5, <1>7, GoogleCodes DEF CodesType

LEMMA ExchangedCodes ==
  ASSUME CodesInv, NEW c \in Redirect, C!Exchange(c)
  PROVE  CodesInv'
<1> USE DEF C!mail
<1>0. CodesType /\ \A x \in Attempt : Spent(x)
  BY DEF CodesInv
<1>1. PICK y \in Attempt : y = callback[c]
  BY <1>0 DEF C!Exchange, CodesType
<1>2. /\ accepted' \in {accepted, [accepted EXCEPT ![y] = accepted[y] + 1]}
      /\ callback' = [callback EXCEPT ![c] = None]
      /\ UNCHANGED <<challenge, sender, mailed, failed, wrong, attempt>>
  BY <1>1 DEF C!Exchange
<1>3. callback' \in [Redirect -> Attempt \cup {None}] /\ accepted' \in [C!Proof -> Nat]
  BY <1>0, <1>1, <1>2, Apart DEF CodesType
<1>4. \A x \in C!Code : accepted'[x] = accepted[x]
  BY <1>0, <1>1, <1>2, Apart DEF CodesType
<1>5. accepted[y] = 0 /\ attempt[y].state \in {"used", "expired"}
      /\ \A d \in Redirect : callback[d] = y => d = c
  BY <1>0, <1>1, Apart DEF Spent, CodesType
<1>6. ASSUME NEW x \in Attempt PROVE Spent(x)'
  <2>1. CASE x = y
    <3>1. \A d \in Redirect : callback'[d] # y
      BY <1>0, <1>2, <1>5, Apart DEF CodesType
    <3>2. accepted'[y] <= 1
      BY <1>0, <1>2, <1>5, Apart DEF CodesType
    <3> QED
      BY <1>2, <1>5, <2>1, <3>1, <3>2 DEF Spent
  <2>2. CASE x # y
    <3>1. \A d \in Redirect : callback'[d] = x => callback[d] = x
      BY <1>0, <1>2, Apart DEF CodesType
    <3>2. accepted'[x] = accepted[x]
      BY <1>0, <1>2, <2>2, Apart DEF CodesType
    <3> QED
      BY <1>0, <1>2, <3>1, <3>2 DEF Spent
  <2> QED
    BY <2>1, <2>2
<1> QED
  BY <1>0, <1>2, <1>3, <1>4, <1>6, GoogleCodes DEF CodesType

(* A row that only grows old, or goes.                                     *)
LEMMA AgedCodes ==
  ASSUME CodesInv, NEW m \in Mailbox, C!Cool(m) \/ C!Expire(m) \/ C!Prune(m)
  PROVE  CodesInv'
<1> USE DEF C!google, C!history
<1>0. CodesType /\ Numbered(m) /\ Counted(m) /\ challenge[m] \in Row
  BY DEF CodesInv, CodesType
<1>1. PICK row \in Row :
        /\ challenge' = [challenge EXCEPT ![m] = row]
        /\ \/ row.id = 0
           \/ /\ row.id = challenge[m].id /\ row.tries = challenge[m].tries
              /\ row.used = challenge[m].used
  <2>1. CASE C!Cool(m)
    <3>1. PICK row : row = [challenge[m] EXCEPT !.fresh = FALSE]
      OBVIOUS
    <3>2. row \in Row /\ row.id = challenge[m].id /\ row.tries = challenge[m].tries
          /\ row.used = challenge[m].used
      BY <1>0, <3>1 DEF Row
    <3> QED
      BY <2>1, <3>1, <3>2 DEF C!Cool
  <2>2. CASE C!Expire(m)
    <3>1. PICK row : row = [challenge[m] EXCEPT !.live = FALSE]
      OBVIOUS
    <3>2. row \in Row /\ row.id = challenge[m].id /\ row.tries = challenge[m].tries
          /\ row.used = challenge[m].used
      BY <1>0, <3>1 DEF Row
    <3> QED
      BY <2>2, <3>1, <3>2 DEF C!Expire
  <2>3. CASE C!Prune(m)
    <3>1. C!NoChallenge \in Row /\ C!NoChallenge.id = 0
      BY RacesAssumption DEF C!NoChallenge, Row
    <3> QED
      BY <2>3, <3>1 DEF C!Prune
  <2> QED
    BY <2>1, <2>2, <2>3
<1>2. UNCHANGED <<sender, mailed, failed, attempt, callback, wrong, accepted>>
  BY DEF C!Cool, C!Expire, C!Prune
<1>3. CodesType'
  BY <1>0, <1>1, <1>2 DEF CodesType
<1>4. challenge'[m] = row /\ \A n \in Mailbox \ {m} : challenge'[n] = challenge[n]
  BY <1>0, <1>1 DEF CodesType
<1>5. \A n : \A i \in 1..MaxSends : Sent(n, i)' <=> Sent(n, i)
  BY <1>2 DEF Sent
<1>6. Numbered(m)'
  BY <1>0, <1>1, <1>4, <1>5 DEF Numbered
<1>7. Counted(m)'
  BY <1>0, <1>1, <1>2, <1>4, <1>5 DEF Counted
<1> QED
  BY <1>2, <1>3, <1>4, <1>5, <1>6, <1>7, MailCodes

(* A code arrives, or seems not to; it was sent before and is after.       *)
LEMMA MailedCodes ==
  ASSUME CodesInv, NEW s \in Sender, C!Mail(s) \/ C!Withdraw(s)
  PROVE  CodesInv'
<1> USE DEF C!google, C!history
<1>0. CodesType
  BY DEF CodesInv
<1>1. PICK m \in Mailbox, k \in 1..MaxSends : sender[s] = <<m, k>>
  BY <1>0 DEF C!Mail, C!Withdraw, CodesType, C!Code
<1>2. /\ sender' = [sender EXCEPT ![s] = None]
      /\ UNCHANGED <<attempt, callback, wrong, accepted>>
      /\ mailed' \cup failed' = mailed \cup failed \cup {<<m, k>>}
      /\ failed' \in {failed, failed \cup {<<m, k>>}}
      /\ mailed' \in {mailed, mailed \cup {<<m, k>>}}
  BY <1>1 DEF C!Mail, C!Withdraw
<1>3. \/ challenge' = challenge
      \/ /\ challenge[m].id = k /\ <<m, k>> \in failed'
         /\ challenge' = [challenge EXCEPT ![m].used = TRUE]
  BY <1>1 DEF C!Mail, C!Withdraw, C!Current
<1>4. CodesType'
  <2>1. challenge' \in [Mailbox -> Row]
    <3>1. PICK row : row = [challenge[m] EXCEPT !.used = TRUE]
      OBVIOUS
    <3>2. row \in Row
      BY <1>0, <3>1 DEF CodesType, Row
    <3> QED
      BY <1>0, <1>3, <3>1, <3>2 DEF CodesType
  <2>2. sender' \in [Sender -> C!Code \cup {None}]
    BY <1>0, <1>2 DEF CodesType
  <2>3. mailed' \subseteq C!Code /\ failed' \subseteq C!Code
    BY <1>0, <1>2, Apart DEF CodesType
  <2> QED
    BY <1>0, <1>2, <2>1, <2>2, <2>3 DEF CodesType
<1>5. ASSUME NEW n \in Mailbox, NEW i \in 1..MaxSends PROVE Sent(n, i)' <=> Sent(n, i)
  <2>1. <<n, i>> # None
    BY Apart
  <2> QED
    BY <1>0, <1>1, <1>2, <2>1 DEF Sent, CodesType
<1>6. Numbered(m) /\ Counted(m) /\ challenge[m] \in Row
  BY <1>0 DEF CodesInv, CodesType
<1>7. /\ challenge'[m].id = challenge[m].id /\ challenge'[m].tries = challenge[m].tries
      /\ \/ challenge'[m].used = challenge[m].used
         \/ challenge[m].id = k /\ <<m, k>> \in failed' /\ challenge'[m].used
  BY <1>0, <1>3, <1>6 DEF CodesType, Row
<1>8. Numbered(m)'
  BY <1>5, <1>6, <1>7 DEF Numbered
<1>9. Counted(m)'
  BY <1>2, <1>5, <1>6, <1>7 DEF Counted
<1>10. \A n \in Mailbox \ {m} :
         /\ challenge'[n] = challenge[n]
         /\ \A i \in 1..MaxSends : <<n, i>> \in failed' <=> <<n, i>> \in failed
  BY <1>0, <1>2, <1>3 DEF CodesType
<1> QED
  BY <1>2, <1>4, <1>5, <1>8, <1>9, <1>10, MailCodes

(* A new code has a number that none had.                                  *)
LEMMA RequestedCodes ==
  ASSUME CodesInv, NEW s \in Sender, NEW m \in Mailbox, NEW a \in Holder \cup {None},
         C!Request(s, m, a)
  PROVE  CodesInv'
<1> USE DEF C!google, C!history
<1>0. CodesType /\ Numbered(m) /\ Counted(m)
  BY DEF CodesInv
<1>1. PICK k : k = C!Cardinality(C!Made(m)) + 1
  OBVIOUS
<1>2. /\ sender[s] = None /\ k <= MaxSends
      /\ challenge' = [challenge EXCEPT ![m] =
           [id |-> k, by |-> a, tries |-> 0, used |-> FALSE, fresh |-> TRUE, live |-> TRUE]]
      /\ sender' = [sender EXCEPT ![s] = <<m, k>>]
      /\ UNCHANGED <<mailed, failed, attempt, callback, wrong, accepted>>
  BY <1>1 DEF C!Request
<1>3. k \in 1..MaxSends /\ ~Sent(m, k) /\ \A j \in 1..MaxSends : j < k => Sent(m, j)
  BY <1>1, <1>2, Numbers, RacesAssumption
<1>4. CodesType'
  BY <1>0, <1>2, <1>3, Apart, RacesAssumption DEF CodesType, Row
<1>5. ASSUME NEW n \in Mailbox, NEW i \in 1..MaxSends
      PROVE  Sent(n, i)' <=> Sent(n, i) \/ (n = m /\ i = k)
  <2>1. <<n, i>> # None
    BY Apart
  <2> QED
    BY <1>0, <1>2, <2>1 DEF Sent, CodesType
<1>6. /\ challenge'[m].id = k /\ challenge'[m].tries = 0 /\ ~challenge'[m].used
      /\ \A n \in Mailbox \ {m} : challenge'[n] = challenge[n]
  BY <1>0, <1>2 DEF CodesType
<1>7. Numbered(m)'
  <2>1. ASSUME NEW i \in 1..MaxSends, NEW j \in 1..MaxSends, Sent(m, i)', j <= i PROVE Sent(m, j)'
    <3>1. CASE i = k
      BY <1>3, <1>5, <2>1, <3>1
    <3>2. CASE i # k
      <4>1. Sent(m, i)
        BY <1>5, <2>1, <3>2
      <4> QED
        BY <1>0, <1>5, <2>1, <4>1 DEF Numbered
    <3> QED
      BY <3>1, <3>2
  <2>2. \A i \in 1..MaxSends : challenge'[m].id = i => Sent(m, i)'
    BY <1>3, <1>5, <1>6
  <2> QED
    BY <2>1, <2>2 DEF Numbered
<1>8. Counted(m)'
  <2>1. accepted[<<m, k>>] = 0 /\ wrong[<<m, k>>] = 0
    BY <1>0, <1>3 DEF Counted
  <2> QED
    BY <1>0, <1>2, <1>3, <1>5, <1>6, <2>1 DEF Counted
<1> QED
  BY <1>2, <1>4, <1>5, <1>6, <1>7, <1>8, MailCodes

(* An open challenge has not been accepted and may be tried once more.     *)
LEMMA TriedCodes ==
  ASSUME CodesInv, NEW m \in Mailbox, NEW a \in Holder \cup {None},
         C!Refuse(m, a) \/ \E x \in C!Code : C!Accept(m, a, x)
  PROVE  CodesInv'
<1> USE DEF C!google, C!history
<1>0. CodesType /\ Numbered(m) /\ Counted(m) /\ challenge[m] \in Row
  BY DEF CodesInv, CodesType
<1>1. PICK k \in 1..MaxSends : k = challenge[m].id
  BY <1>0, RacesAssumption DEF C!Refuse, C!Accept, C!Open, Row
<1>2. /\ ~challenge[m].used /\ challenge[m].tries < MaxTries
      /\ UNCHANGED <<sender, mailed, failed, attempt, callback>>
  BY DEF C!Refuse, C!Accept, C!Open
<1>3. Sent(m, k) /\ accepted[<<m, k>>] = 0 /\ wrong[<<m, k>>] = challenge[m].tries
  <2>1. accepted[<<m, k>>] \in Nat
    BY <1>0, Apart DEF CodesType
  <2> QED
    BY <1>0, <1>1, <1>2, <2>1 DEF Numbered, Counted
<1>4. \A n : \A i \in 1..MaxSends : Sent(n, i)' <=> Sent(n, i)
  BY <1>2 DEF Sent
<1>5. PICK row \in Row :
        /\ challenge' = [challenge EXCEPT ![m] = row] /\ row.id = k
        /\ \/ /\ row.used /\ row.tries = challenge[m].tries
              /\ accepted' = [accepted EXCEPT ![<<m, k>>] = 1] /\ wrong' = wrong
           \/ /\ ~row.used /\ row.tries = challenge[m].tries + 1
              /\ wrong' = [wrong EXCEPT ![<<m, k>>] = row.tries] /\ accepted' = accepted
  <2>1. CASE C!Refuse(m, a)
    <3>1. PICK row : row = [challenge[m] EXCEPT !.tries = challenge[m].tries + 1]
      OBVIOUS
    <3>2. row \in Row /\ row.id = k /\ ~row.used /\ row.tries = challenge[m].tries + 1
      BY <1>0, <1>1, <1>2, <3>1, RacesAssumption DEF Row
    <3> QED
      BY <1>1, <1>3, <2>1, <3>1, <3>2 DEF C!Refuse, C!Current
  <2>2. CASE \E x \in C!Code : C!Accept(m, a, x)
    <3>1. PICK row : row = [challenge[m] EXCEPT !.used = TRUE]
      OBVIOUS
    <3>2. row \in Row /\ row.id = k /\ row.used /\ row.tries = challenge[m].tries
      BY <1>0, <1>1, <3>1 DEF Row
    <3>3. PICK x : x = <<m, k>> /\ C!Accept(m, a, x)
      BY <1>1, <2>2 DEF C!Accept, C!Current
    <3>4. /\ challenge' = [challenge EXCEPT ![m] = row] /\ wrong' = wrong
          /\ accepted' = [accepted EXCEPT ![<<m, k>>] = 1]
      <4>1. /\ challenge' = [challenge EXCEPT ![m].used = TRUE] /\ wrong' = wrong
            /\ accepted' = [accepted EXCEPT ![x] = accepted[x] + 1]
        BY <3>3 DEF C!Accept
      <4>2. accepted[x] + 1 = 1
        BY <1>3, <3>3
      <4> QED
        BY <3>1, <3>3, <4>1, <4>2
    <3> QED
      BY <3>2, <3>4
  <2> QED
    BY <2>1, <2>2
<1>6. CodesType'
  <2>1. challenge' \in [Mailbox -> Row] /\ row.tries \in Nat
    BY <1>0, <1>5 DEF CodesType, Row
  <2>2. wrong' \in [C!Code -> Nat] /\ accepted' \in [C!Proof -> Nat]
    BY <1>0, <1>5, <2>1 DEF CodesType
  <2> QED
    BY <1>0, <1>2, <2>1, <2>2 DEF CodesType
<1>7. challenge'[m] = row /\ \A n \in Mailbox \ {m} : challenge'[n] = challenge[n]
  BY <1>0, <1>5 DEF CodesType
<1>8. \A n \in Mailbox, i \in 1..MaxSends : n # m \/ i # k =>
        accepted'[<<n, i>>] = accepted[<<n, i>>] /\ wrong'[<<n, i>>] = wrong[<<n, i>>]
  BY <1>0, <1>5, Apart DEF CodesType
<1>9. /\ row.used => accepted'[<<m, k>>] = 1 /\ wrong'[<<m, k>>] = row.tries
      /\ ~row.used => accepted'[<<m, k>>] = 0 /\ wrong'[<<m, k>>] = row.tries
      /\ row.tries <= MaxTries
  BY <1>0, <1>3, <1>5, Apart, RacesAssumption DEF CodesType, Row
<1>10. Numbered(m)'
  BY <1>0, <1>1, <1>4, <1>5, <1>7 DEF Numbered
<1>11. ASSUME NEW i \in 1..MaxSends
       PROVE  /\ accepted'[<<m, i>>] <= 1 /\ wrong'[<<m, i>>] <= MaxTries
              /\ ~Sent(m, i)' => (accepted'[<<m, i>>] = 0 /\ wrong'[<<m, i>>] = 0)
              /\ challenge'[m].id = i =>
                   /\ wrong'[<<m, i>>] = challenge'[m].tries
                   /\ accepted'[<<m, i>>] > 0 => challenge'[m].used
                   /\ challenge'[m].used => accepted'[<<m, i>>] > 0 \/ <<m, i>> \in failed'
  <2>1. CASE i = k
    BY <1>3, <1>4, <1>5, <1>7, <1>9, <2>1
  <2>2. CASE i # k
    BY <1>0, <1>4, <1>5, <1>7, <1>8, <2>2 DEF Counted
  <2> QED
    BY <2>1, <2>2
<1>12. Counted(m)'
  BY <1>11 DEF Counted
<1>13. \A g \in Attempt : accepted'[g] = accepted[g]
  BY <1>0, <1>5, Apart DEF CodesType
<1> QED
  BY <1>2, <1>4, <1>6, <1>7, <1>8, <1>10, <1>12, <1>13, MailCodes

LEMMA NextCodes == CodesInv /\ [C!Next]_(C!vars) => CodesInv'
<1>1. ASSUME CodesInv, UNCHANGED C!vars PROVE CodesInv'
  <2>1. \A n, i : Sent(n, i)' = Sent(n, i)
    BY <1>1 DEF Sent, C!vars
  <2>2. UNCHANGED <<challenge, sender, mailed, failed, wrong, attempt, callback, accepted>>
    BY <1>1 DEF C!vars
  <2>3. \A g \in Attempt : Spent(g)'
    BY <1>1, <2>2 DEF CodesInv, Spent
  <2> QED
    BY <1>1, <2>2, <2>3, GoogleCodes DEF CodesInv, CodesType
<1>2. ASSUME CodesInv, C!Next PROVE CodesInv'
  <2>1. CASE \E c \in Redirect : C!Exchange(c)
    <3>1. PICK c \in Redirect : C!Exchange(c)
      BY <2>1
    <3>2. callback[c] \in Attempt
      BY <1>2, <3>1 DEF C!Exchange, CodesInv, CodesType
    <3> QED
      BY <1>2, <3>1, <3>2, ExchangedCodes
  <2> QED
    BY <1>2, <2>1, EndedAttempts, SpentAttempts, AgedCodes, MailedCodes, RequestedCodes, TriedCodes
       DEF C!Next
<1> QED
  BY <1>1, <1>2

-----------------------------------------------------------------------------
(***************************************************************************)
(* Linking an identity. The row of a code, and an attempt, remember the    *)
(* account that proved itself when they were made; a call acts for an      *)
(* account only from a form that links, and it goes by the row.            *)
(***************************************************************************)
Ids == 0..Len(opened)
FormRow ==
  [intent : Purpose \cup {None}, email : Linked \cup {None}, requested : Linked \cup {None}]
CallRow ==
  [do : {"nothing", "request", "verify", "google"}, mail : Linked \cup {None}, code : Nat,
   cookie : Ids, csrf : Ids, state : {"none", "sent", "admitted", "ok", "refused"},
   who : Linker \cup {None}, session : Ids, attempt : Trip \cup {None}]
TabRow == [view : Ids, form : FormRow, call : CallRow]
JarRow == [session : Ids, google : Trip \cup {None}]
TripRow ==
  [state : {"none", "open", "fetching", "known", "over"}, by : Linker \cup {None},
   cookie : Ids, at : L!Browser \cup {None}]
CodeRow == [number : Nat, by : Linker \cup {None}, open : BOOLEAN]
OpenedRow == [account : Linker, live : BOOLEAN, recent : BOOLEAN]

FormsType ==
  /\ opened \in Seq(OpenedRow)
  /\ mailbox \in [Linked \X Purpose -> CodeRow]
  /\ trip \in [Trip -> TripRow]
  /\ jar \in [L!Browser -> JarRow]
  /\ tab \in [Tab -> TabRow]

(* A request under way is from a form, about an address that was typed.    *)
Asked(t) ==
  tab[t].call.state \in {"sent", "admitted"} =>
    /\ tab[t].form.intent # None
    /\ tab[t].call.do \in {"request", "verify"} => tab[t].call.mail # None
    /\ tab[t].call.who # None => tab[t].form.intent = "bind"

CodesProven ==
  \A m \in Linked : "bind" \in Purpose /\ mailbox[<<m, "bind">>].open =>
    <<mailbox[<<m, "bind">>].by, <<m, mailbox[<<m, "bind">>].number>>>> \in proofs

TripsProven == \A g \in Trip : trip[g].by # None => <<trip[g].by, g>> \in proofs

LinkInv ==
  /\ FormsType /\ (\A t \in Tab : Asked(t))
  /\ CodesProven /\ TripsProven
  /\ bound \subseteq proofs

LEMMA InitForms == L!Init => LinkInv
<1> SUFFICES ASSUME L!Init PROVE LinkInv
  OBVIOUS
<1>1. Ids = {0}
  BY DEF L!Init, Ids
<1>2. FormsType
  BY <1>1 DEF L!Init, FormsType, CodeRow, TripRow, JarRow, TabRow, FormRow, CallRow,
     L!NoForm, L!NoCall
<1> QED
  BY <1>2 DEF L!Init, LinkInv, Asked, CodesProven, TripsProven, L!NoForm, L!NoCall

(* Sessions are appended or changed in place; what names one still does.   *)
LEMMA Grow ==
  ASSUME opened \in Seq(OpenedRow), opened' \in Seq(OpenedRow), Len(opened') >= Len(opened)
  PROVE  /\ Ids \subseteq Ids' /\ CallRow \subseteq CallRow' /\ TabRow \subseteq TabRow'
         /\ JarRow \subseteq JarRow' /\ TripRow \subseteq TripRow'
<1>1. Ids \subseteq Ids'
  BY DEF Ids
<1>2. CallRow \subseteq CallRow'
  BY <1>1 DEF CallRow
<1>3. TabRow \subseteq TabRow'
  BY <1>1, <1>2 DEF TabRow, FormRow
<1>4. JarRow \subseteq JarRow' /\ TripRow \subseteq TripRow'
  BY <1>1 DEF JarRow, TripRow
<1> QED
  BY <1>1, <1>2, <1>3, <1>4

LEMMA ClosedRow ==
  ASSUME opened \in Seq(OpenedRow), NEW n \in DOMAIN opened
  PROVE  /\ opened[n] \in OpenedRow
         /\ [opened[n] EXCEPT !.live = FALSE] \in OpenedRow
         /\ [opened[n] EXCEPT !.recent = FALSE] \in OpenedRow
<1>1. PICK row \in OpenedRow : row = opened[n]
  OBVIOUS
<1>2. [row EXCEPT !.live = FALSE] \in OpenedRow /\ [row EXCEPT !.recent = FALSE] \in OpenedRow
  BY DEF OpenedRow
<1> QED
  BY <1>1, <1>2

LEMMA IssuedType ==
  ASSUME opened \in Seq(OpenedRow), NEW a \in Linker, NEW old, L!Issue(a, old)
  PROVE  opened' \in Seq(OpenedRow) /\ Len(opened') = Len(opened) + 1 /\ L!Newest \in Ids'
<1>1. PICK rest : rest =
        [n \in DOMAIN opened |-> IF n = old THEN [opened[n] EXCEPT !.live = FALSE]
                                               ELSE opened[n]]
  OBVIOUS
<1>2. rest \in [1..Len(opened) -> OpenedRow]
  <2>1. DOMAIN opened = 1..Len(opened)
    OBVIOUS
  <2> QED
    BY <1>1, <2>1, ClosedRow
<1>3. rest \in Seq(OpenedRow) /\ Len(rest) = Len(opened)
  BY <1>2
<1>4. opened' = Append(rest, [account |-> a, live |-> TRUE, recent |-> TRUE])
  BY <1>1 DEF L!Issue, L!Issued
<1>5. [account |-> a, live |-> TRUE, recent |-> TRUE] \in OpenedRow
  BY DEF OpenedRow
<1>6. opened' \in Seq(OpenedRow) /\ Len(opened') = Len(opened) + 1
  BY <1>3, <1>4, <1>5
<1> QED
  BY <1>6 DEF L!Newest, Ids

LEMMA ChangedType ==
  ASSUME opened \in Seq(OpenedRow), NEW n \in DOMAIN opened,
         \/ opened' = [opened EXCEPT ![n].live = FALSE]
         \/ opened' = [opened EXCEPT ![n].recent = FALSE]
  PROVE  opened' \in Seq(OpenedRow) /\ Len(opened') = Len(opened)
<1>1. PICK row \in OpenedRow : opened' = [opened EXCEPT ![n] = row]
  BY ClosedRow
<1> QED
  BY <1>1

(* A step of one tab, which may also write the tables and the cookies.     *)
LEMMA TabMoves ==
  ASSUME LinkInv, NEW t \in Tab, NEW row, row \in TabRow', tab' = [tab EXCEPT ![t] = row],
         opened' \in Seq(OpenedRow), Len(opened') >= Len(opened),
         mailbox' \in [Linked \X Purpose -> CodeRow], trip' \in [Trip -> TripRow'],
         jar' \in [L!Browser -> JarRow'],
         row.call.state \in {"sent", "admitted"} =>
           /\ row.form.intent # None
           /\ row.call.do \in {"request", "verify"} => row.call.mail # None
           /\ row.call.who # None => row.form.intent = "bind",
         CodesProven', TripsProven', bound' \subseteq proofs'
  PROVE  LinkInv'
<1>1. tab' \in [Tab -> TabRow']
  BY Grow DEF LinkInv, FormsType
<1>2. FormsType'
  BY <1>1 DEF FormsType
<1>3. ASSUME NEW u \in Tab PROVE Asked(u)'
  BY DEF LinkInv, FormsType, Asked
<1> QED
  BY <1>2, <1>3 DEF LinkInv

(* The same, when the step leaves the tables and the history alone.        *)
LEMMA OnlyTabMoves ==
  ASSUME LinkInv, NEW t \in Tab, NEW row \in TabRow, tab' = [tab EXCEPT ![t] = row],
         UNCHANGED <<opened, mailbox, trip, proofs, bound>>,
         jar' \in [L!Browser -> JarRow],
         row.call.state \in {"sent", "admitted"} =>
           /\ row.form.intent # None
           /\ row.call.do \in {"request", "verify"} => row.call.mail # None
           /\ row.call.who # None => row.form.intent = "bind"
  PROVE  LinkInv'
<1>1. opened \in Seq(OpenedRow) /\ Len(opened) \in Nat
  BY DEF LinkInv, FormsType
<1>2. TabRow \subseteq TabRow' /\ JarRow \subseteq JarRow' /\ TripRow \subseteq TripRow'
  BY <1>1, Grow
<1>3. trip' \in [Trip -> TripRow'] /\ jar' \in [L!Browser -> JarRow']
      /\ mailbox' \in [Linked \X Purpose -> CodeRow]
  BY <1>2 DEF LinkInv, FormsType
<1>4. CodesProven' /\ TripsProven' /\ bound' \subseteq proofs'
  BY DEF LinkInv, CodesProven, TripsProven
<1>5. opened' \in Seq(OpenedRow) /\ Len(opened') >= Len(opened) /\ row \in TabRow'
  BY <1>1, <1>2
<1> QED
  BY <1>5, <1>2, <1>3, <1>4, TabMoves

LEMMA TabType ==
  ASSUME LinkInv, NEW t \in Tab
  PROVE  /\ tab[t] \in TabRow /\ tab[t].view \in Ids /\ tab[t].form \in FormRow
         /\ tab[t].call \in CallRow
         /\ Of[t] \in L!Browser /\ jar[Of[t]].session \in Ids
         /\ L!NoForm \in FormRow /\ L!NoCall \in CallRow /\ 0 \in Ids
BY DEF LinkInv, FormsType, TabRow, JarRow, L!Browser, L!NoForm, L!NoCall, FormRow, CallRow, Ids

(* What a step of a tab writes, part by part.                              *)
LEMMA TabRows ==
  ASSUME NEW r \in TabRow, NEW x
  PROVE  /\ [r EXCEPT !.call = x] = [view |-> r.view, form |-> r.form, call |-> x]
         /\ [r EXCEPT !.form = x] = [view |-> r.view, form |-> x, call |-> r.call]
BY DEF TabRow

LEMMA StateRows ==
  ASSUME NEW c \in CallRow, NEW s \in {"none", "sent", "admitted", "ok", "refused"},
         NEW d, d = [c EXCEPT !.state = s]
  PROVE  /\ d \in CallRow /\ d.state = s
         /\ d.do = c.do /\ d.mail = c.mail /\ d.who = c.who /\ d.cookie = c.cookie
BY DEF CallRow

LEMMA AttemptRows ==
  ASSUME NEW c \in CallRow, NEW s \in {"none", "sent", "admitted", "ok", "refused"},
         NEW x \in Trip, NEW d, d = [c EXCEPT !.state = s, !.attempt = x]
  PROVE  d \in CallRow /\ d.state = s
<1>1. PICK b : b = [c EXCEPT !.state = s]
  OBVIOUS
<1>2. b \in CallRow /\ b.state = s /\ b.do = c.do /\ b.mail = c.mail
  BY <1>1, StateRows
<1>3. d = [b EXCEPT !.attempt = x]
  BY <1>1, Zenon
<1> QED
  BY <1>2, <1>3 DEF CallRow

LEMMA RowParts ==
  ASSUME NEW r \in TabRow
  PROVE  r.view \in Ids /\ r.form \in FormRow /\ r.call \in CallRow
BY DEF TabRow

(* A tab whose request is over or was never made.                          *)
LEMMA QuietMoves ==
  ASSUME LinkInv, NEW t \in Tab, NEW f \in FormRow, NEW c \in CallRow, NEW v \in Ids,
         tab' = [tab EXCEPT ![t] = [view |-> v, form |-> f, call |-> c]],
         UNCHANGED <<opened, mailbox, trip, proofs, bound>>,
         jar' \in [L!Browser -> JarRow],
         c.state \notin {"sent", "admitted"}
  PROVE  LinkInv'
<1>1. PICK row \in TabRow : row = [view |-> v, form |-> f, call |-> c]
  BY DEF TabRow
<1>2. row.call = c
  BY <1>1
<1> QED
  BY <1>1, <1>2, OnlyTabMoves

LEMMA NoRows ==
  /\ L!NoForm \in FormRow /\ L!NoCall \in CallRow /\ 0 \in Ids
  /\ L!NoCall.state = "none" /\ L!NoCall.who = None
BY DEF L!NoForm, L!NoCall, FormRow, CallRow, Ids

(* The steps of a page: it loads, a form is opened and filled, a request   *)
(* leaves, is let in, and is answered.                                     *)
LEMMA LoadStep ==
  ASSUME LinkInv, NEW t \in Tab, L!Load(t)
  PROVE  LinkInv'
<1>1. PICK v \in Ids :
        tab' = [tab EXCEPT ![t] = [view |-> v, form |-> L!NoForm, call |-> L!NoCall]]
  BY TabType DEF L!Load, L!Cookie
<1>2. UNCHANGED <<opened, mailbox, trip, proofs, bound>> /\ jar' \in [L!Browser -> JarRow]
  BY DEF L!Load, L!rows, L!history, LinkInv, FormsType
<1> QED
  BY <1>1, <1>2, NoRows, QuietMoves

LEMMA FillStep ==
  ASSUME LinkInv, NEW t \in Tab,
         (\E purpose \in Purpose : L!Open(t, purpose)) \/ (\E m \in Linked : L!Type(t, m))
  PROVE  LinkInv'
<1>1. PICK r \in TabRow : r = tab[t]
  BY TabType
<1>2. r.call = L!NoCall
  BY <1>1 DEF L!Open, L!Type, L!Pending
<1>3. PICK f \in FormRow : tab' = [tab EXCEPT ![t].form = f]
  <2>1. CASE \E purpose \in Purpose : L!Open(t, purpose)
    <3>1. PICK purpose \in Purpose : L!Open(t, purpose)
      BY <2>1
    <3>2. [L!NoForm EXCEPT !.intent = purpose] \in FormRow
      BY DEF L!NoForm, FormRow
    <3> QED
      BY <3>1, <3>2, Zenon DEF L!Open
  <2>2. CASE \E m \in Linked : L!Type(t, m)
    <3>1. PICK m \in Linked : L!Type(t, m)
      BY <2>2
    <3>2. PICK e \in FormRow : e = [r.form EXCEPT !.email = m]
      BY RowParts DEF FormRow
    <3>3. PICK f \in FormRow : f = [e EXCEPT !.requested = None]
      BY DEF FormRow
    <3> QED
      BY <1>1, <3>1, <3>2, <3>3, Zenon DEF L!Type
  <2> QED
    BY <2>1, <2>2
<1>4. tab' = [tab EXCEPT ![t] = [view |-> r.view, form |-> f, call |-> r.call]]
  BY <1>1, <1>3, TabRows, Zenon
<1>5. UNCHANGED <<opened, mailbox, trip, proofs, bound>> /\ jar' \in [L!Browser -> JarRow]
  BY DEF L!Open, L!Type, L!rows, L!history, LinkInv, FormsType
<1> QED
  BY <1>2, <1>4, <1>5, NoRows, RowParts, QuietMoves

LEMMA ReceiveStep ==
  ASSUME LinkInv, NEW t \in Tab, L!Receive(t)
  PROVE  LinkInv'
<1> USE DEF L!Call
<1>1. PICK r \in TabRow : r = tab[t]
  BY TabType
<1>2. PICK form \in FormRow, call \in CallRow, view \in Ids :
        form = r.form /\ call = r.call /\ view = r.view
  BY RowParts
<1>3. PICK f \in FormRow : f = IF ~L!Accepted(t) THEN form
                   ELSE IF call.do = "request"
                   THEN [form EXCEPT !.requested = call.mail] ELSE L!NoForm
  <2>1. [form EXCEPT !.requested = call.mail] \in FormRow
    BY DEF FormRow, CallRow
  <2> QED
    BY <2>1, NoRows
<1>4. PICK v \in Ids : v = IF L!Accepted(t) /\ call.do = "verify" THEN call.session ELSE view
  BY DEF CallRow
<1>5. tab' = [tab EXCEPT ![t] = [view |-> v, form |-> f, call |-> L!NoCall]]
  BY <1>1, <1>2, <1>3, <1>4 DEF L!Receive
<1>6. jar' \in [L!Browser -> JarRow]
  <2>1. call.session \in Ids /\ call.attempt \in Trip \cup {None}
    BY DEF CallRow
  <2>2. \/ jar' = jar
        \/ jar' = [jar EXCEPT ![Of[t]].session = call.session]
        \/ jar' = [jar EXCEPT ![Of[t]].google = call.attempt]
    BY <1>1, <1>2 DEF L!Receive
  <2>3. PICK j \in JarRow : j = jar[Of[t]]
    BY TabType DEF LinkInv, FormsType
  <2>4. [j EXCEPT !.session = call.session] \in JarRow
        /\ [j EXCEPT !.google = call.attempt] \in JarRow
    BY <2>1 DEF JarRow
  <2>5. PICK k \in JarRow : jar' = jar \/ jar' = [jar EXCEPT ![Of[t]] = k]
    BY <2>2, <2>3, <2>4, Zenon
  <2> QED
    BY <2>5 DEF LinkInv, FormsType
<1>7. UNCHANGED <<opened, mailbox, trip, proofs, bound>>
  BY DEF L!Receive, L!rows, L!history
<1> QED
  BY <1>5, <1>6, <1>7, NoRows, QuietMoves

LEMMA SendStep ==
  ASSUME LinkInv, NEW t \in Tab,
         \/ L!RequestCode(t) \/ L!LeaveForGoogle(t)
         \/ (\E code \in 1..MaxCodes : L!Verify(t, code))
  PROVE  LinkInv'
<1> USE DEF L!Form
<1>1. PICK r \in TabRow : r = tab[t]
  BY TabType
<1>2. PICK do \in {"request", "verify", "google"}, mail \in Linked \cup {None}, code \in Nat :
        /\ do \in {"request", "verify"} => mail # None
        /\ L!Send(t, do, mail, code)
  <2>1. CASE L!RequestCode(t)
    <3>1. L!Send(t, "request", r.form.email, 0) /\ r.form.email # None
      BY <1>1, <2>1 DEF L!RequestCode
    <3>2. r.form.email \in Linked \cup {None}
      BY RowParts DEF FormRow
    <3> QED
      BY <3>1, <3>2
  <2>2. CASE L!LeaveForGoogle(t)
    BY <2>2 DEF L!LeaveForGoogle
  <2>3. CASE \E code \in 1..MaxCodes : L!Verify(t, code)
    <3>1. PICK code \in 1..MaxCodes : L!Verify(t, code)
      BY <2>3
    <3>2. L!Send(t, "verify", r.form.requested, code) /\ r.form.requested # None
      BY <1>1, <3>1 DEF L!Verify
    <3>3. r.form.requested \in Linked \cup {None} /\ code \in Nat
      BY RowParts DEF FormRow
    <3> QED
      BY <3>2, <3>3
  <2> QED
    BY <2>1, <2>2, <2>3
<1>3. PICK c : c = [L!NoCall EXCEPT !.do = do, !.mail = mail, !.code = code,
                      !.cookie = jar[Of[t]].session, !.csrf = r.view, !.state = "sent"]
  OBVIOUS
<1>4. c \in CallRow /\ c.who = None /\ c.do = do /\ c.mail = mail
  BY <1>3, TabType, RowParts DEF L!NoCall, CallRow
<1>5. PICK row \in TabRow : row = [view |-> r.view, form |-> r.form, call |-> c]
  BY <1>4, RowParts DEF TabRow
<1>6. row.form = r.form /\ row.call = c /\ r.form.intent # None
  BY <1>1, <1>2, <1>5 DEF L!Send
<1>7. tab' = [tab EXCEPT ![t] = row]
  <2>1. tab' = [tab EXCEPT ![t].call = c]
    BY <1>1, <1>2, <1>3, Zenon DEF L!Send, L!Cookie
  <2> QED
    BY <1>1, <1>5, <2>1, TabRows, Zenon
<1>8. UNCHANGED <<opened, mailbox, trip, proofs, bound>> /\ jar' \in [L!Browser -> JarRow]
  BY <1>2 DEF L!Send, L!rows, L!history, LinkInv, FormsType
<1> QED
  BY <1>2, <1>4, <1>6, <1>7, <1>8, OnlyTabMoves

LEMMA AdmitStep ==
  ASSUME LinkInv, NEW t \in Tab, L!Admit(t)
  PROVE  LinkInv'
<1> USE DEF L!Form, L!Call
<1>1. PICK r \in TabRow : r = tab[t]
  BY TabType
<1>2. PICK who : who = IF L!Linking(t) THEN L!Who(r.call.cookie) ELSE None
  OBVIOUS
<1>3. who \in Linker \cup {None} /\ (who # None => r.form.intent = "bind")
  <2>1. CASE L!Linking(t)
    <3>1. r.call.cookie > 0 /\ r.call.cookie \in Ids
      BY <1>1, <2>1, RowParts DEF L!Admit, L!Live, CallRow
    <3>2. opened \in Seq(OpenedRow)
      BY DEF LinkInv, FormsType
    <3>3. PICK n \in 1..Len(opened) : n = r.call.cookie
      BY <3>1, <3>2 DEF Ids
    <3>4. opened[n] \in OpenedRow
      BY <3>2, <3>3
    <3> QED
      BY <1>1, <1>2, <2>1, <3>3, <3>4 DEF L!Who, OpenedRow, L!Linking
  <2>2. CASE ~L!Linking(t)
    BY <1>2, <2>2
  <2> QED
    BY <2>1, <2>2
<1>4. PICK c \in CallRow :
        /\ c = [r.call EXCEPT !.state = "admitted", !.who = who]
        /\ c.who = who /\ c.do = r.call.do /\ c.mail = r.call.mail
  <2>1. PICK call \in CallRow : call = r.call
    BY RowParts
  <2>2. PICK c : c = [call EXCEPT !.state = "admitted", !.who = who]
    OBVIOUS
  <2>3. c \in CallRow /\ c.who = who /\ c.do = call.do /\ c.mail = call.mail
    <3>1. PICK b : b = [call EXCEPT !.state = "admitted"]
      OBVIOUS
    <3>2. b \in CallRow /\ b.do = call.do /\ b.mail = call.mail
      BY <3>1, StateRows
    <3>3. c = [b EXCEPT !.who = who]
      BY <2>2, <3>1, Zenon
    <3> QED
      BY <1>3, <3>2, <3>3 DEF CallRow
  <2> QED
    BY <2>1, <2>2, <2>3
<1>5. PICK row \in TabRow : row = [view |-> r.view, form |-> r.form, call |-> c]
  BY <1>4, RowParts DEF TabRow
<1>6. row.form = r.form /\ row.call = c
  BY <1>5
<1>7. tab' = [tab EXCEPT ![t] = row]
  <2>1. tab' = [tab EXCEPT ![t].call = c]
    BY <1>1, <1>2, <1>4, Zenon DEF L!Admit
  <2> QED
    BY <1>1, <1>5, <2>1, TabRows, Zenon
<1>8. UNCHANGED <<opened, mailbox, trip, proofs, bound>> /\ jar' \in [L!Browser -> JarRow]
  BY DEF L!Admit, L!rows, L!history, LinkInv, FormsType
<1>9. /\ r.form.intent # None
      /\ r.call.do \in {"request", "verify"} => r.call.mail # None
  BY <1>1 DEF LinkInv, Asked, L!Admit
<1> QED
  BY <1>3, <1>4, <1>6, <1>7, <1>8, <1>9, OnlyTabMoves

(* The steps that write the tables: what is unchanged keeps its part.      *)
LEMMA Kept ==
  ASSUME LinkInv, opened' \in Seq(OpenedRow), Len(opened') >= Len(opened),
         proofs \subseteq proofs'
  PROVE  /\ mailbox' = mailbox =>
              mailbox' \in [Linked \X Purpose -> CodeRow] /\ CodesProven'
         /\ trip' = trip => trip' \in [Trip -> TripRow'] /\ TripsProven'
         /\ jar' = jar => jar' \in [L!Browser -> JarRow']
         /\ bound' = bound => bound' \subseteq proofs'
<1>1. opened \in Seq(OpenedRow)
  BY DEF LinkInv, FormsType
<1>2. JarRow \subseteq JarRow' /\ TripRow \subseteq TripRow'
  BY <1>1, Grow
<1> QED
  BY <1>2 DEF LinkInv, FormsType, CodesProven, TripsProven

LEMMA ServedMoves ==
  ASSUME LinkInv, NEW t \in Tab, NEW f \in FormRow, NEW c, c \in CallRow', NEW v, v \in Ids',
         tab' = [tab EXCEPT ![t] = [view |-> v, form |-> f, call |-> c]],
         c.state \notin {"sent", "admitted"},
         opened' \in Seq(OpenedRow), Len(opened') >= Len(opened),
         mailbox' \in [Linked \X Purpose -> CodeRow], trip' \in [Trip -> TripRow'],
         jar' \in [L!Browser -> JarRow'], CodesProven', TripsProven', bound' \subseteq proofs'
  PROVE  LinkInv'
<1>1. PICK row : row = [view |-> v, form |-> f, call |-> c]
  OBVIOUS
<1>2. row \in TabRow' /\ row.call = c
  BY <1>1 DEF TabRow
<1> QED
  BY <1>1, <1>2, TabMoves

LEMMA JarMoves ==
  ASSUME LinkInv, opened' \in Seq(OpenedRow), Len(opened') >= Len(opened),
         NEW b, NEW n, n \in Ids',
         \/ jar' = [jar EXCEPT ![b].session = n]
         \/ jar' = [jar EXCEPT ![b].google = None]
         \/ jar' = [jar EXCEPT ![b] = [session |-> n, google |-> None]]
  PROVE  jar' \in [L!Browser -> JarRow']
<1>1. jar \in [L!Browser -> JarRow']
  <2>1. JarRow \subseteq JarRow'
    BY Grow DEF LinkInv, FormsType
  <2> QED
    BY <2>1 DEF LinkInv, FormsType
<1>2. CASE b \in L!Browser
  <2>1. PICK j : j = jar[b] /\ j \in JarRow'
    BY <1>1, <1>2
  <2>2. /\ [j EXCEPT !.session = n] \in JarRow' /\ [j EXCEPT !.google = None] \in JarRow'
        /\ [session |-> n, google |-> None] \in JarRow'
    BY <2>1 DEF JarRow
  <2>3. PICK k : k \in JarRow' /\ jar' = [jar EXCEPT ![b] = k]
    BY <2>1, <2>2, Zenon
  <2> QED
    BY <1>1, <2>3
<1>3. CASE b \notin L!Browser
  <2>1. PICK k : jar' = [jar EXCEPT ![b] = k]
    BY Zenon
  <2> QED
    BY <1>1, <1>3, <2>1
<1> QED
  BY <1>2, <1>3

(* A code that is spent proves nothing more.                               *)
LEMMA ClosedCode ==
  ASSUME LinkInv, NEW k, mailbox' = [mailbox EXCEPT ![k].open = FALSE], proofs' = proofs
  PROVE  mailbox' \in [Linked \X Purpose -> CodeRow] /\ CodesProven'
<1>0. mailbox \in [Linked \X Purpose -> CodeRow]
  BY DEF LinkInv, FormsType
<1>1. CASE k \in Linked \X Purpose
  <2>1. PICK row \in CodeRow : row = mailbox[k]
    BY <1>0, <1>1
  <2>2. PICK done : done = [row EXCEPT !.open = FALSE]
    OBVIOUS
  <2>6. done \in CodeRow /\ ~done.open
    BY <2>2 DEF CodeRow
  <2>3. mailbox' = [mailbox EXCEPT ![k] = done]
    BY <2>1, <2>2, Zenon
  <2>4. mailbox' \in [Linked \X Purpose -> CodeRow]
    BY <1>0, <2>3, <2>6
  <2>5. ASSUME NEW m \in Linked, "bind" \in Purpose, mailbox'[<<m, "bind">>].open
        PROVE  <<mailbox'[<<m, "bind">>].by, <<m, mailbox'[<<m, "bind">>].number>>>> \in proofs'
    <3>1. k # <<m, "bind">> /\ mailbox'[<<m, "bind">>] = mailbox[<<m, "bind">>]
      BY <1>0, <1>1, <2>6, <2>3, <2>5
    <3> QED
      BY <2>5, <3>1 DEF LinkInv, CodesProven
  <2> QED
    BY <2>4, <2>5 DEF CodesProven
<1>2. CASE k \notin Linked \X Purpose
  <2>1. PICK done : mailbox' = [mailbox EXCEPT ![k] = done]
    BY Zenon
  <2>2. mailbox' = mailbox
    BY <1>0, <1>2, <2>1
  <2> QED
    BY <1>0, <2>2 DEF LinkInv, CodesProven
<1> QED
  BY <1>1, <1>2

LEMMA SignedStep ==
  ASSUME LinkInv, NEW t \in Tab, L!SignOut(t) \/ \E a \in Linker : L!SignIn(t, a)
  PROVE  LinkInv'
<1>1. opened \in Seq(OpenedRow)
  BY DEF LinkInv, FormsType
<1>2. PICK n : /\ opened' \in Seq(OpenedRow) /\ Len(opened') >= Len(opened) /\ n \in Ids'
               /\ jar' = [jar EXCEPT ![Of[t]].session = n]
               /\ tab' = [tab EXCEPT ![t] =
                            [view |-> n, form |-> L!NoForm, call |-> L!NoCall]]
               /\ UNCHANGED <<mailbox, trip, proofs, bound>>
  <2>1. CASE L!SignOut(t)
    <3>1. PICK c \in Ids : c = jar[Of[t]].session
      BY TabType
    <3>2. c > 0 /\ opened' = [opened EXCEPT ![c].live = FALSE]
      BY <2>1, <3>1 DEF L!SignOut, L!Cookie, L!Live
    <3>3. c \in DOMAIN opened
      BY <1>1, <3>2 DEF Ids
    <3>4. opened' \in Seq(OpenedRow) /\ Len(opened') = Len(opened)
      BY <1>1, <3>2, <3>3, ChangedType
    <3>5. 0 \in Ids' /\ Len(opened') >= Len(opened)
      BY <1>1, <3>4 DEF Ids
    <3> QED
      BY <2>1, <3>4, <3>5 DEF L!SignOut, L!history
  <2>2. CASE \E a \in Linker : L!SignIn(t, a)
    <3>1. PICK a \in Linker : L!SignIn(t, a)
      BY <2>2
    <3>2. L!Issue(a, L!Cookie(t))
      BY <3>1 DEF L!SignIn
    <3>3. opened' \in Seq(OpenedRow) /\ Len(opened') = Len(opened) + 1 /\ L!Newest \in Ids'
      BY <1>1, <3>2, IssuedType
    <3>4. Len(opened') >= Len(opened)
      BY <1>1, <3>3
    <3> QED
      BY <3>1, <3>3, <3>4 DEF L!SignIn, L!history
  <2> QED
    BY <2>1, <2>2
<1>3. jar' \in [L!Browser -> JarRow']
  BY <1>2, JarMoves
<1>4. L!NoCall \in CallRow'
  BY <1>1, <1>2, NoRows, Grow
<1> QED
  BY <1>2, <1>3, <1>4, NoRows, Kept, ServedMoves

(* A code is mailed, or the page leaves for the provider: whoever links    *)
(* has proved the account first.                                           *)
LEMMA ServeRequestStep ==
  ASSUME LinkInv, NEW t \in Tab, L!ServeRequest(t)
  PROVE  LinkInv'
<1> USE DEF L!Form, L!Call, L!Serves
<1>1. PICK r \in TabRow : r = tab[t]
  BY TabType
<1>2. PICK call \in CallRow, form \in FormRow : call = r.call /\ form = r.form
  BY RowParts
<1>3. /\ call.mail \in Linked /\ form.intent \in Purpose /\ call.who \in Linker \cup {None}
      /\ call.who # None => form.intent = "bind"
  BY <1>1, <1>2 DEF LinkInv, Asked, L!ServeRequest, CallRow, FormRow
<1>4. PICK k \in Linked \X Purpose : k = <<call.mail, form.intent>> /\ k = L!Key(t)
  BY <1>1, <1>2, <1>3 DEF L!Key
<1>5. mailbox \in [Linked \X Purpose -> CodeRow] /\ opened \in Seq(OpenedRow)
  BY DEF LinkInv, FormsType
<1>6. PICK number \in Nat : number = mailbox[k].number + 1
  BY <1>5 DEF CodeRow
<1>7. PICK code \in CodeRow : code = [number |-> number, by |-> call.who, open |-> TRUE]
  BY <1>3 DEF CodeRow
<1>8. /\ mailbox' = [mailbox EXCEPT ![k] = code]
      /\ proofs' = IF form.intent = "bind" THEN proofs \cup {<<call.who, <<call.mail, number>>>>}
                                           ELSE proofs
      /\ UNCHANGED <<trip, opened, jar, bound>>
  BY <1>1, <1>2, <1>4, <1>6, <1>7 DEF L!ServeRequest, L!Proved, L!Linking
<1>9. PICK c \in CallRow : c = [call EXCEPT !.state = "ok"] /\ c.state = "ok"
  <2>1. PICK c : c = [call EXCEPT !.state = "ok"]
    OBVIOUS
  <2> QED
    BY <2>1, StateRows
<1>10. tab' = [tab EXCEPT ![t] = [view |-> r.view, form |-> r.form, call |-> c]]
  BY <1>1, <1>2, <1>9, TabRows, Zenon DEF L!ServeRequest, L!Answered
<1>11. ASSUME NEW m \in Linked, "bind" \in Purpose, mailbox'[<<m, "bind">>].open
       PROVE  <<mailbox'[<<m, "bind">>].by, <<m, mailbox'[<<m, "bind">>].number>>>> \in proofs'
  <2>1. CASE k = <<m, "bind">>
    <3>1. mailbox'[<<m, "bind">>] = code /\ form.intent = "bind" /\ call.mail = m
      BY <1>4, <1>5, <1>8, <2>1
    <3> QED
      BY <1>7, <1>8, <3>1
  <2>2. CASE k # <<m, "bind">>
    <3>1. mailbox'[<<m, "bind">>] = mailbox[<<m, "bind">>] /\ proofs \subseteq proofs'
      BY <1>5, <1>8, <2>2
    <3> QED
      BY <1>11, <3>1 DEF LinkInv, CodesProven
  <2> QED
    BY <2>1, <2>2
<1>12. mailbox' \in [Linked \X Purpose -> CodeRow] /\ CodesProven'
  BY <1>5, <1>8, <1>11 DEF CodesProven
<1>13. /\ opened' \in Seq(OpenedRow) /\ Len(opened') >= Len(opened) /\ proofs \subseteq proofs'
  BY <1>5, <1>8
<1>14. c \in CallRow' /\ r.view \in Ids'
  BY <1>5, <1>9, <1>13, RowParts, Grow
<1>15. trip' \in [Trip -> TripRow'] /\ TripsProven' /\ jar' \in [L!Browser -> JarRow']
       /\ bound' \subseteq proofs'
  BY <1>8, <1>13, Kept
<1> QED
  BY <1>9, <1>10, <1>12, <1>13, <1>14, <1>15, RowParts, ServedMoves

LEMMA ServeGoogleStep ==
  ASSUME LinkInv, NEW t \in Tab, NEW g \in Trip, L!ServeGoogle(t, g)
  PROVE  LinkInv'
<1> USE DEF L!Form, L!Call, L!Serves
<1>1. PICK r \in TabRow : r = tab[t]
  BY TabType
<1>2. PICK call \in CallRow, form \in FormRow : call = r.call /\ form = r.form
  BY RowParts
<1>3. call.who \in Linker \cup {None} /\ (call.who # None => form.intent = "bind")
  BY <1>1, <1>2 DEF LinkInv, Asked, L!ServeGoogle, CallRow, FormRow
<1>5. trip \in [Trip -> TripRow] /\ opened \in Seq(OpenedRow)
  BY DEF LinkInv, FormsType
<1>6. PICK row : row = [trip[g] EXCEPT !.state = "open", !.by = call.who]
  OBVIOUS
<1>7. row \in TripRow /\ row.by = call.who
  <2>1. PICK old \in TripRow : old = trip[g]
    BY <1>5
  <2>2. PICK next : next = [old EXCEPT !.state = "open"]
    OBVIOUS
  <2>3. next \in TripRow
    BY <2>2 DEF TripRow
  <2>4. row = [next EXCEPT !.by = call.who]
    BY <1>6, <2>1, <2>2, Zenon
  <2> QED
    BY <1>3, <2>3, <2>4 DEF TripRow
<1>8. /\ trip' = [trip EXCEPT ![g] = row]
      /\ proofs' = IF form.intent = "bind" THEN proofs \cup {<<call.who, g>>} ELSE proofs
      /\ UNCHANGED <<mailbox, opened, jar, bound>>
  <2>1. trip' = [trip EXCEPT ![g] = row]
    BY <1>1, <1>2, <1>6, Zenon DEF L!ServeGoogle
  <2> QED
    BY <1>1, <1>2, <2>1 DEF L!ServeGoogle, L!Proved, L!Linking
<1>9. PICK c \in CallRow : c = [call EXCEPT !.state = "ok", !.attempt = g] /\ c.state = "ok"
  <2>1. PICK c : c = [call EXCEPT !.state = "ok", !.attempt = g]
    OBVIOUS
  <2> QED
    BY <2>1, AttemptRows
<1>10. tab' = [tab EXCEPT ![t] = [view |-> r.view, form |-> r.form, call |-> c]]
  <2>1. tab' = [tab EXCEPT ![t].call = c]
    BY <1>1, <1>2, <1>9, Zenon DEF L!ServeGoogle
  <2> QED
    BY <1>1, <2>1, TabRows, Zenon
<1>13. /\ opened' \in Seq(OpenedRow) /\ Len(opened') >= Len(opened) /\ proofs \subseteq proofs'
  BY <1>5, <1>8
<1>12. trip' \in [Trip -> TripRow']
  <2>1. TripRow \subseteq TripRow'
    BY <1>5, <1>13, Grow
  <2> QED
    BY <1>5, <1>7, <1>8, <2>1
<1>11. TripsProven'
  <2>1. ASSUME NEW x \in Trip, trip'[x].by # None PROVE <<trip'[x].by, x>> \in proofs'
    <3>1. CASE x = g
      BY <1>3, <1>5, <1>7, <1>8, <2>1, <3>1
    <3>2. CASE x # g
      BY <1>5, <1>8, <2>1, <3>2 DEF LinkInv, TripsProven
    <3> QED
      BY <3>1, <3>2
  <2> QED
    BY <2>1 DEF TripsProven
<1>14. c \in CallRow' /\ r.view \in Ids'
  BY <1>5, <1>9, <1>13, RowParts, Grow
<1>15. /\ mailbox' \in [Linked \X Purpose -> CodeRow] /\ CodesProven'
       /\ jar' \in [L!Browser -> JarRow'] /\ bound' \subseteq proofs'
  BY <1>8, <1>13, Kept
<1> QED
  BY <1>9, <1>10, <1>11, <1>12, <1>13, <1>14, <1>15, RowParts, ServedMoves

(* A code is right for the account that asked for it, and links that one.  *)
LEMMA ServeVerifyStep ==
  ASSUME LinkInv, NEW t \in Tab, NEW a \in Linker, L!ServeVerify(t, a)
  PROVE  LinkInv'
<1> USE DEF L!Form, L!Call, L!Serves
<1>1. PICK r \in TabRow : r = tab[t]
  BY TabType
<1>2. PICK call \in CallRow, form \in FormRow : call = r.call /\ form = r.form
  BY RowParts
<1>3. call.mail \in Linked /\ form.intent \in Purpose
  BY <1>1, <1>2 DEF LinkInv, Asked, L!ServeVerify, CallRow, FormRow
<1>4. PICK k \in Linked \X Purpose : k = <<call.mail, form.intent>> /\ k = L!Key(t)
  BY <1>1, <1>2, <1>3 DEF L!Key
<1>5. opened \in Seq(OpenedRow) /\ L!Issue(a, call.cookie)
  BY <1>1, <1>2 DEF LinkInv, FormsType, L!ServeVerify
<1>6. opened' \in Seq(OpenedRow) /\ Len(opened') = Len(opened) + 1 /\ L!Newest \in Ids'
  BY <1>5, IssuedType
<1>7. /\ mailbox' = [mailbox EXCEPT ![k].open = FALSE]
      /\ UNCHANGED <<trip, jar, proofs>>
  BY <1>4 DEF L!ServeVerify
<1>8. mailbox' \in [Linked \X Purpose -> CodeRow] /\ CodesProven'
  BY <1>7, ClosedCode
<1>9. bound' \subseteq proofs'
  <2>1. CASE form.intent = "bind"
    <3>1. bound' = bound \cup {<<a, <<call.mail, call.code>>>>}
      BY <1>1, <1>2, <2>1 DEF L!ServeVerify, L!Linking
    <3>2. mailbox[k].open /\ mailbox[k].number = call.code /\ mailbox[k].by = call.who
      BY <1>1, <1>2, <1>4 DEF L!ServeVerify, L!Right
    <3>3. a = call.who
      BY <1>1, <1>2, <2>1 DEF L!ServeVerify, L!Meant
    <3>4. <<mailbox[k].by, <<call.mail, mailbox[k].number>>>> \in proofs
      BY <1>3, <1>4, <2>1, <3>2 DEF LinkInv, CodesProven
    <3> QED
      BY <1>7, <3>1, <3>2, <3>3, <3>4 DEF LinkInv
  <2>2. CASE form.intent # "bind"
    BY <1>1, <1>2, <1>7, <2>2 DEF L!ServeVerify, L!Linking, LinkInv
  <2> QED
    BY <2>1, <2>2
<1>10. PICK c : c = [call EXCEPT !.state = "ok", !.session = L!Newest]
  OBVIOUS
<1>11. Len(opened') >= Len(opened) /\ Ids \subseteq Ids' /\ CallRow \subseteq CallRow'
  <2>1. Len(opened') >= Len(opened)
    BY <1>5, <1>6
  <2> QED
    BY <1>5, <1>6, <2>1, Grow
<1>12. c \in CallRow' /\ c.state = "ok"
  <2>1. PICK b : b = [call EXCEPT !.state = "ok"]
    OBVIOUS
  <2>2. b \in CallRow' /\ b.state = "ok"
    BY <1>11, <2>1, StateRows
  <2>3. PICK n : n = L!Newest
    OBVIOUS
  <2>4. c = [b EXCEPT !.session = n]
    BY <1>10, <2>1, <2>3, Zenon
  <2> QED
    BY <1>6, <2>2, <2>3, <2>4 DEF CallRow
<1>13. tab' = [tab EXCEPT ![t] = [view |-> r.view, form |-> r.form, call |-> c]]
  <2>1. tab' = [tab EXCEPT ![t].call = c]
    BY <1>1, <1>2, <1>10, Zenon DEF L!ServeVerify
  <2> QED
    BY <1>1, <2>1, TabRows, Zenon
<1>14. trip' \in [Trip -> TripRow'] /\ TripsProven' /\ jar' \in [L!Browser -> JarRow']
  BY <1>6, <1>7, <1>11, Kept
<1>15. r.view \in Ids' /\ r.form \in FormRow /\ c.state \notin {"sent", "admitted"}
  BY <1>11, <1>12, RowParts
<1> QED
  BY <1>6, <1>8, <1>9, <1>11, <1>12, <1>13, <1>14, <1>15, ServedMoves

LEMMA RefuseStep ==
  ASSUME LinkInv, NEW t \in Tab, L!Refuse(t)
  PROVE  LinkInv'
<1> USE DEF L!Form, L!Call
<1>1. PICK r \in TabRow : r = tab[t]
  BY TabType
<1>2. PICK call \in CallRow : call = r.call
  BY RowParts
<1>3. PICK k : mailbox' = mailbox \/ mailbox' = [mailbox EXCEPT ![k].open = FALSE]
  BY DEF L!Refuse
<1>4. UNCHANGED <<trip, opened, jar, proofs, bound>>
  BY DEF L!Refuse, L!history
<1>5. opened' \in Seq(OpenedRow) /\ Len(opened') >= Len(opened)
  BY <1>4 DEF LinkInv, FormsType
<1>6. /\ trip' \in [Trip -> TripRow'] /\ TripsProven' /\ jar' \in [L!Browser -> JarRow']
      /\ bound' \subseteq proofs'
  BY <1>4, <1>5, Kept
<1>7. mailbox' \in [Linked \X Purpose -> CodeRow] /\ CodesProven'
  BY <1>3, <1>4, <1>5, Kept, ClosedCode
<1>8. PICK c \in CallRow : c = [call EXCEPT !.state = "refused"] /\ c.state = "refused"
  <2>1. PICK c : c = [call EXCEPT !.state = "refused"]
    OBVIOUS
  <2> QED
    BY <2>1, StateRows
<1>9. tab' = [tab EXCEPT ![t] = [view |-> r.view, form |-> r.form, call |-> c]]
  <2>1. tab' = [tab EXCEPT ![t].call = c]
    BY <1>1, <1>2, <1>8, Zenon DEF L!Refuse
  <2> QED
    BY <1>1, <2>1, TabRows, Zenon
<1>10. c \in CallRow' /\ r.view \in Ids' /\ r.form \in FormRow /\ c.state \notin {"sent", "admitted"}
  <2>1. opened \in Seq(OpenedRow)
    BY DEF LinkInv, FormsType
  <2> QED
    BY <1>5, <1>8, <2>1, RowParts, Grow
<1> QED
  BY <1>5, <1>6, <1>7, <1>9, <1>10, ServedMoves

(* The steps of no tab: a session grows old, the provider sends a browser  *)
(* back, and the callback carries on, links or rejects.                    *)
LEMMA RestMoves ==
  ASSUME LinkInv, tab' = tab, opened' \in Seq(OpenedRow), Len(opened') >= Len(opened),
         mailbox' = mailbox, proofs' = proofs, trip' \in [Trip -> TripRow'], TripsProven',
         jar' \in [L!Browser -> JarRow'], bound' \subseteq proofs'
  PROVE  LinkInv'
<1>1. TabRow \subseteq TabRow'
  BY Grow DEF LinkInv, FormsType
<1>2. FormsType'
  BY <1>1 DEF LinkInv, FormsType
<1>3. (\A t \in Tab : Asked(t))' /\ CodesProven'
  BY DEF LinkInv, Asked, CodesProven
<1> QED
  BY <1>2, <1>3 DEF LinkInv

(* An attempt keeps the account that began it.                             *)
LEMMA TripMoves ==
  ASSUME LinkInv, opened' \in Seq(OpenedRow), Len(opened') >= Len(opened), proofs' = proofs,
         NEW g \in Trip, NEW row, row \in TripRow', row.by = trip[g].by,
         trip' = [trip EXCEPT ![g] = row]
  PROVE  trip' \in [Trip -> TripRow'] /\ TripsProven'
<1>1. trip \in [Trip -> TripRow']
  <2>1. TripRow \subseteq TripRow'
    BY Grow DEF LinkInv, FormsType
  <2> QED
    BY <2>1 DEF LinkInv, FormsType
<1>2. \A x \in Trip : trip'[x].by = trip[x].by
  BY <1>1
<1> QED
  BY <1>1, <1>2 DEF LinkInv, TripsProven

LEMMA TripRows ==
  ASSUME LinkInv, opened' \in Seq(OpenedRow), Len(opened') >= Len(opened), NEW g \in Trip
  PROVE  \A s \in {"none", "open", "fetching", "known", "over"} : \A row :
           row = [trip[g] EXCEPT !.state = s] => row \in TripRow' /\ row.by = trip[g].by
<1>1. TripRow \subseteq TripRow'
  BY Grow DEF LinkInv, FormsType
<1>2. PICK old : old = trip[g] /\ old \in TripRow'
  BY <1>1 DEF LinkInv, FormsType
<1>3. ASSUME NEW s \in {"none", "open", "fetching", "known", "over"},
             NEW row, row = [old EXCEPT !.state = s]
      PROVE  row \in TripRow' /\ row.by = old.by
  BY <1>2, <1>3 DEF TripRow
<1> QED
  BY <1>2, <1>3, Zenon

LEMMA AgeStep ==
  ASSUME LinkInv, NEW n \in 1..MaxOpened, L!Age(n)
  PROVE  LinkInv'
<1>1. opened \in Seq(OpenedRow) /\ n \in DOMAIN opened
      /\ opened' = [opened EXCEPT ![n].recent = FALSE]
  BY DEF L!Age, LinkInv, FormsType
<1>2. opened' \in Seq(OpenedRow) /\ Len(opened') = Len(opened)
  BY <1>1, ChangedType
<1>3. Len(opened') >= Len(opened)
  BY <1>1, <1>2
<1>4. UNCHANGED <<mailbox, trip, jar, tab, proofs, bound>>
  BY DEF L!Age, L!history
<1> QED
  BY <1>2, <1>3, <1>4, Kept, RestMoves

LEMMA CallbackStep ==
  ASSUME LinkInv, NEW g \in Trip, NEW b \in L!Browser, L!Callback(g, b)
  PROVE  LinkInv'
<1>1. opened' \in Seq(OpenedRow) /\ Len(opened') >= Len(opened)
      /\ UNCHANGED <<mailbox, opened, jar, tab, proofs, bound>>
  BY DEF L!Callback, L!history, LinkInv, FormsType
<1>2. PICK mid : mid = [trip[g] EXCEPT !.state = "fetching"]
  OBVIOUS
<1>3. mid \in TripRow' /\ mid.by = trip[g].by
  BY <1>1, <1>2, TripRows
<1>4. PICK n : n = jar[b].session /\ n \in Ids'
  <2>1. Ids' = Ids
    BY <1>1 DEF Ids
  <2> QED
    BY <2>1 DEF LinkInv, FormsType, JarRow
<1>5. PICK next : next = [mid EXCEPT !.at = b]
  OBVIOUS
<1>6. next \in TripRow' /\ next.by = trip[g].by
  BY <1>3, <1>5 DEF TripRow
<1>7. PICK row : row = [next EXCEPT !.cookie = n]
  OBVIOUS
<1>8. row \in TripRow' /\ row.by = trip[g].by
  BY <1>4, <1>6, <1>7 DEF TripRow
<1>9. trip' = [trip EXCEPT ![g] = row]
  BY <1>2, <1>4, <1>5, <1>7, Zenon DEF L!Callback
<1>10. trip' \in [Trip -> TripRow'] /\ TripsProven'
  BY <1>1, <1>8, <1>9, TripMoves
<1> QED
  BY <1>1, <1>10, Kept, RestMoves

LEMMA CarriedStep ==
  ASSUME LinkInv, NEW g \in Trip, L!Identify(g) \/ L!Reject(g)
  PROVE  LinkInv'
<1>1. opened' \in Seq(OpenedRow) /\ Len(opened') >= Len(opened)
      /\ UNCHANGED <<mailbox, opened, tab, proofs, bound>>
  BY DEF L!Identify, L!Reject, L!history, LinkInv, FormsType
<1>2. PICK s \in {"known", "over"} : trip' = [trip EXCEPT ![g].state = s]
  BY DEF L!Identify, L!Reject
<1>3. PICK row : row = [trip[g] EXCEPT !.state = s]
  OBVIOUS
<1>4. row \in TripRow' /\ row.by = trip[g].by
  BY <1>1, <1>3, TripRows
<1>5. trip' = [trip EXCEPT ![g] = row]
  BY <1>2, <1>3, Zenon
<1>6. trip' \in [Trip -> TripRow'] /\ TripsProven'
  BY <1>1, <1>4, <1>5, TripMoves
<1>7. jar' \in [L!Browser -> JarRow']
  <2>1. jar' = jar \/ jar' = [jar EXCEPT ![trip[g].at].google = None]
    BY DEF L!Identify, L!Reject
  <2>2. 0 \in Ids'
    BY <1>1 DEF Ids
  <2> QED
    BY <1>1, <2>1, <2>2, Kept, JarMoves
<1> QED
  BY <1>1, <1>6, <1>7, Kept, RestMoves

LEMMA LinkStep ==
  ASSUME LinkInv, NEW g \in Trip, NEW a \in Linker, L!Link(g, a)
  PROVE  LinkInv'
<1>1. opened \in Seq(OpenedRow) /\ L!Issue(a, trip[g].cookie)
  BY DEF L!Link, LinkInv, FormsType
<1>2. opened' \in Seq(OpenedRow) /\ Len(opened') = Len(opened) + 1 /\ L!Newest \in Ids'
  BY <1>1, IssuedType
<1>3. Len(opened') >= Len(opened) /\ UNCHANGED <<mailbox, tab, proofs>>
  BY <1>1, <1>2 DEF L!Link
<1>4. PICK row : row = [trip[g] EXCEPT !.state = "over"]
  OBVIOUS
<1>5. row \in TripRow' /\ row.by = trip[g].by
  BY <1>2, <1>3, <1>4, TripRows
<1>6. trip' = [trip EXCEPT ![g] = row]
  BY <1>4, Zenon DEF L!Link
<1>7. trip' \in [Trip -> TripRow'] /\ TripsProven'
  BY <1>2, <1>3, <1>5, <1>6, TripMoves
<1>8. jar' \in [L!Browser -> JarRow']
  <2>1. PICK n : n = L!Newest
    OBVIOUS
  <2>2. jar' = [jar EXCEPT ![trip[g].at] = [session |-> n, google |-> None]]
    BY <2>1 DEF L!Link
  <2> QED
    BY <1>2, <1>3, <2>1, <2>2, JarMoves
<1>9. bound' \subseteq proofs'
  <2>1. CASE trip[g].by = None
    BY <1>3, <2>1 DEF L!Link, LinkInv
  <2>2. CASE trip[g].by # None
    <3>1. bound' = bound \cup {<<a, g>>} /\ a = trip[g].by
      BY <2>2 DEF L!Link
    <3>2. <<trip[g].by, g>> \in proofs
      BY <2>2 DEF LinkInv, TripsProven
    <3> QED
      BY <1>3, <3>1, <3>2 DEF LinkInv
  <2> QED
    BY <2>1, <2>2
<1> QED
  BY <1>2, <1>3, <1>7, <1>8, <1>9, RestMoves

LEMMA NextForms == LinkInv /\ [L!Next]_(L!vars) => LinkInv'
<1>1. ASSUME LinkInv, UNCHANGED L!vars PROVE LinkInv'
  <2>1. UNCHANGED <<mailbox, trip, opened, jar, tab, proofs, bound>>
    BY <1>1 DEF L!vars
  <2>2. opened' \in Seq(OpenedRow) /\ Len(opened') >= Len(opened)
    BY <1>1, <2>1 DEF LinkInv, FormsType
  <2> QED
    BY <1>1, <2>1, <2>2, Kept, RestMoves
<1>2. ASSUME LinkInv, L!Next PROVE LinkInv'
  BY <1>2, LoadStep, FillStep, ReceiveStep, SendStep, AdmitStep, SignedStep,
     ServeRequestStep, ServeGoogleStep, ServeVerifyStep, RefuseStep,
     AgeStep, CallbackStep, CarriedStep, LinkStep
     DEF L!Next
<1> QED
  BY <1>1, <1>2

-----------------------------------------------------------------------------
(* What counts or proves holds: no window lets more attempts pass than its *)
(* limit (rate-limit.service.ts); a code and a Google attempt are accepted *)
(* once, a code takes so many wrong guesses, and a spent one was accepted  *)
(* or not mailed (email-code.service.ts, google-oauth.service.ts); and an  *)
(* identity is linked to the account that proved itself for it.            *)
THEOREM ProofsHoldAlways == S!Spec /\ C!Spec /\ L!Spec => []ProofsHold
<1>1. S!Init => SignInInv /\ RateInv
  <2>1. ASSUME S!Init PROVE RateInv
    <3>1. /\ bucket = [k \in S!Bucket |-> [count |-> 0, open |-> FALSE]]
          /\ passed = [k \in S!Bucket |-> 0]
      BY <2>1 DEF S!Init, S!NoBucket
    <3>2. \A k \in S!Bucket : 0 <= S!Cap(k)
      BY RacesAssumption DEF S!Cap
    <3> QED
      BY <3>1, <3>2 DEF RateInv, Window
  <2>2. S!Init => SignInInv
    BY RacesAssumption
       DEF S!Init, SignInInv, SessionsCurrent, S!SessionsCurrent, S!NoRequest, LoginRow, S!Version
  <2> QED
    BY <2>1, <2>2
<1>2. RateInv => S!RateHeld
  BY DEF RateInv, Window, S!RateHeld
<1>3. ASSUME CodesInv PROVE C!ProofsSpent
  <2>1. ASSUME NEW x \in C!Proof PROVE accepted[x] <= 1
    <3>1. CASE x \in Attempt
      BY <1>3, <3>1 DEF CodesInv, Spent
    <3>2. CASE x \in C!Code
      <4>1. PICK m \in Mailbox, i \in 1..MaxSends : x = <<m, i>>
        BY <3>2 DEF C!Code
      <4> QED
        BY <1>3, <4>1 DEF CodesInv, Counted
    <3> QED
      BY <2>1, <3>1, <3>2 DEF C!Proof
  <2>2. ASSUME NEW x \in C!Code PROVE wrong[x] <= MaxTries
    <3>1. PICK m \in Mailbox, i \in 1..MaxSends : x = <<m, i>>
      BY DEF C!Code
    <3> QED
      BY <1>3, <3>1 DEF CodesInv, Counted
  <2>3. ASSUME NEW m \in Mailbox, challenge[m].used, C!Current(m) \in mailed \ failed
        PROVE  accepted[C!Current(m)] > 0
    <3>1. challenge[m].id \in 1..MaxSends
      BY <1>3, <2>3 DEF CodesInv, CodesType, C!Current, C!Code
    <3> QED
      BY <1>3, <2>3, <3>1 DEF CodesInv, Counted, C!Current
  <2> QED
    BY <2>1, <2>2, <2>3 DEF C!ProofsSpent
<1>4. LinkInv => L!BoundAsProven
  BY DEF LinkInv, L!BoundAsProven
<1>5. S!RateHeld /\ C!ProofsSpent /\ L!BoundAsProven => ProofsHold
  BY DEF ProofsHold
<1> QED
  BY <1>1, <1>2, <1>3, <1>4, <1>5, NextSignIn, NextRate, InitCodes, NextCodes, InitForms, NextForms,
     PTL DEF S!Spec, C!Spec, L!Spec
=============================================================================
