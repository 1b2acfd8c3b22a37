--------------------------- MODULE SettlingProofs --------------------------
(***************************************************************************)
(* Theorems about three of the components of MCSettling, each by itself:   *)
(* the slots for any requests, clients and limit; the pages of the         *)
(* catalogue for any readers, processes, filters and snapshots; and the    *)
(* row locks for any finite set of calls and whatever rows they name.      *)
(***************************************************************************)
EXTENDS MCSettling, FiniteSetTheorems, TLAPS

-----------------------------------------------------------------------------
(* The slots. *)

AdmissionInv ==
  /\ request \in [Request -> {"idle", "parsed", "running", "answered"}]
  /\ IsFiniteSet(accepted)
  /\ WorkBounded

(* The number of a set is the same within the instance.                    *)
LEMMA Counts == \A S : A!Cardinality(S) = Cardinality(S)
BY Zenon DEF A!Cardinality, Cardinality

(* A slot more is taken only below the limit; a request that is not        *)
(* running has none to give back.                                          *)
LEMMA NextAdmission == AdmissionInv /\ [A!Next]_(A!vars) => AdmissionInv'
<1> USE DEF A!Running
<1>1. ASSUME AdmissionInv, UNCHANGED A!vars PROVE AdmissionInv'
  BY <1>1 DEF AdmissionInv, WorkBounded, A!WorkBounded, A!vars
<1>2. ASSUME AdmissionInv, NEW r \in Request, NEW s \in {"idle", "parsed", "answered"},
             request' = [request EXCEPT ![r] = s],
             accepted' = accepted \ {r} \/ (accepted' = accepted /\ request[r] # "running")
      PROVE  AdmissionInv'
  <2>1. request' \in [Request -> {"idle", "parsed", "running", "answered"}]
    BY <1>2 DEF AdmissionInv
  <2>2. A!Running' = accepted' /\ accepted' \subseteq accepted
    BY <1>2 DEF AdmissionInv, WorkBounded, A!WorkBounded
  <2>3. IsFiniteSet(accepted') /\ Cardinality(accepted') <= Cardinality(accepted)
    BY <1>2, <2>2, FS_Subset DEF AdmissionInv
  <2>4. Cardinality(accepted') \in Nat /\ Cardinality(accepted) \in Nat
    BY <1>2, <2>3, FS_CardinalityType DEF AdmissionInv
  <2> QED
    BY <1>2, <2>1, <2>2, <2>3, <2>4, SettlingAssumption, Counts
       DEF AdmissionInv, WorkBounded, A!WorkBounded
<1>3. ASSUME AdmissionInv, NEW r \in Request, A!Admit(r) PROVE AdmissionInv'
  <2>1. request' \in [Request -> {"idle", "parsed", "running", "answered"}]
    BY <1>3 DEF AdmissionInv, A!Admit, A!Goto
  <2>2. CASE r \in Live
    <3>1. A!Running' = A!Running /\ accepted' = accepted
      BY <1>3, <2>2 DEF AdmissionInv, A!Admit, A!Goto
    <3> QED
      BY <1>3, <2>1, <3>1 DEF AdmissionInv, WorkBounded, A!WorkBounded
  <2>3. CASE r \notin Live
    <3>1. /\ Cardinality(accepted) < Slots /\ accepted' = accepted \cup {r}
          /\ A!Running' = accepted' /\ r \notin accepted
      BY <1>3, <2>3, Counts DEF AdmissionInv, A!Admit, A!Goto, WorkBounded, A!WorkBounded
    <3>2. IsFiniteSet(accepted') /\ Cardinality(accepted') = Cardinality(accepted) + 1
      BY <1>3, <3>1, FS_AddElement DEF AdmissionInv
    <3>3. Cardinality(accepted) \in Nat
      BY <1>3, FS_CardinalityType DEF AdmissionInv
    <3> QED
      BY <1>3, <2>1, <3>1, <3>2, <3>3, SettlingAssumption, Counts
         DEF AdmissionInv, WorkBounded, A!WorkBounded
  <2> QED
    BY <2>2, <2>3
<1>4. ASSUME AdmissionInv, NEW r \in Request,
             A!Arrive(r) \/ A!Overload(r) \/ A!Finish(r) \/ A!Respond(r)
      PROVE  AdmissionInv'
  BY <1>2, <1>4 DEF A!Arrive, A!Overload, A!Finish, A!Respond, A!Goto, A!Release
<1>5. ASSUME AdmissionInv, NEW r \in Request, A!HangUp(r) PROVE AdmissionInv'
  BY <1>5 DEF A!HangUp, AdmissionInv, WorkBounded, A!WorkBounded
<1> QED
  BY <1>1, <1>3, <1>4, <1>5 DEF A!Next

(* No more handlers run than there are slots, those whose clients have     *)
(* hung up included, and a slot is held for exactly these.                 *)
THEOREM WorkBoundedHolds == A!Spec => []WorkBounded
<1>1. A!Init => AdmissionInv
  <2> SUFFICES ASSUME A!Init PROVE AdmissionInv
    OBVIOUS
  <2>1. accepted = {} /\ A!Running = {} /\ Cardinality({}) = 0 /\ IsFiniteSet({})
    BY FS_EmptySet DEF A!Init, A!Running
  <2> QED
    BY <2>1, SettlingAssumption, Counts DEF A!Init, AdmissionInv, WorkBounded, A!WorkBounded
<1>2. AdmissionInv => WorkBounded
  BY DEF AdmissionInv
<1> QED
  BY <1>1, <1>2, NextAdmission, PTL DEF A!Spec

-----------------------------------------------------------------------------
(* The pages of the catalogue. A request for a later page under converted  *)
(* prices has the quote that is kept, if any, since nothing is kept anew   *)
(* before its answer or the next request; and a call that names a snapshot *)
(* never joins a refresh, so that it is answered by this snapshot or not   *)
(* at all.                                                                 *)
Quotes == E!Snapshot \cup {E!NoQuote} \cup {E!Newest(S) : S \in SUBSET E!Snapshot}
Keys == E!Key \cup {E!Nothing.key}

PlaceRow == [key : Keys, page : Nat, quote : Quotes]
KeptRow == [key : Keys, quote : Quotes]
AskRow ==
  [step : {"idle", "look", "join", "wait", "done"}, at : Instance \cup {E!NoAsk.at},
   id : Quotes, quote : Quotes]

PagesType ==
  /\ pending \in [Instance -> [state : {"none", "loading", "loaded", "failed"}, quote : Quotes]]
  /\ ask \in [Caller -> AskRow]
  /\ at \in [Caller -> PlaceRow]
  /\ kept \in [Caller -> KeptRow]
  /\ fetch \in [Caller -> PlaceRow]
  /\ shown \in [Caller -> [key : Keys, page : Nat, quote : Quotes, error : BOOLEAN]]

Sought(c) ==
  fetch[c].page > 1 /\ fetch[c].key.sort = "price"
    => fetch[c].quote \in {E!NoQuote, kept[c].quote}

Quoted(c) ==
  ask[c].step # "idle" =>
    /\ ask[c].id = fetch[c].quote /\ ~E!Refused(fetch[c])
    /\ ask[c].id # E!NoQuote =>
         /\ ask[c].step \in {"look", "done"}
         /\ ask[c].step = "done" => ask[c].quote \in {E!NoQuote, ask[c].id}

PagesInv == PagesType /\ \A c \in Caller : Sought(c) /\ Quoted(c)

LEMMA BlankRows ==
  /\ E!NoQuote \in Quotes /\ E!Snapshot \subseteq Quotes
  /\ E!Nothing \in PlaceRow /\ E!Nothing.page = 0
  /\ E!NothingKept \in KeptRow
  /\ E!NoAsk \in AskRow /\ E!NoAsk.step = "idle"
  /\ E!Place \subseteq PlaceRow
<1>1. E!NoQuote \in Quotes /\ E!Snapshot \subseteq Quotes /\ E!Key \subseteq Keys
  BY DEF Quotes, Keys
<1>2. E!Nothing \in PlaceRow /\ E!Nothing.page = 0
  BY <1>1 DEF PlaceRow, E!Nothing, Keys
<1>3. E!NothingKept \in KeptRow
  BY <1>1 DEF KeptRow, E!NothingKept, Keys
<1>4. E!NoAsk \in AskRow /\ E!NoAsk.step = "idle"
  BY <1>1 DEF AskRow, E!NoAsk
<1>5. E!Place \subseteq PlaceRow
  BY <1>1, SettlingAssumption DEF E!Place, PlaceRow
<1> QED
  BY <1>1, <1>2, <1>3, <1>4, <1>5

LEMMA InitPages == E!Init => PagesInv
<1> SUFFICES ASSUME E!Init PROVE PagesInv
  OBVIOUS
<1>1. PagesType
  <2>1. ask \in [Caller -> AskRow] /\ at \in [Caller -> PlaceRow] /\ fetch \in [Caller -> PlaceRow]
        /\ kept \in [Caller -> KeptRow]
    BY BlankRows DEF E!Init, E!RatesInit
  <2>2. pending \in [Instance -> [state : {"none", "loading", "loaded", "failed"},
                                  quote : Quotes]]
    BY BlankRows DEF E!Init, E!RatesInit
  <2>3. shown \in [Caller -> [key : Keys, page : Nat, quote : Quotes, error : BOOLEAN]]
    BY BlankRows DEF E!Init, Keys
  <2> QED
    BY <2>1, <2>2, <2>3 DEF PagesType
<1>2. ASSUME NEW c \in Caller PROVE Sought(c) /\ Quoted(c)
  BY BlankRows DEF E!Init, E!RatesInit, Sought, Quoted
<1> QED
  BY <1>1, <1>2 DEF PagesInv

(* A reader of whom nothing changes but what is on show.                   *)
LEMMA Still ==
  ASSUME NEW c \in Caller, Sought(c), Quoted(c),
         ask'[c] = ask[c], kept'[c] = kept[c], fetch'[c] = fetch[c]
  PROVE  Sought(c)' /\ Quoted(c)'
BY DEF Sought, Quoted, E!Refused

(* A new request takes the place of the one before.                        *)
LEMMA GoStep ==
  ASSUME PagesInv, NEW c \in Caller, NEW p \in PlaceRow, E!Go(c, p)
  PROVE  PagesInv'
<1>1. PICK k, r : /\ k = E!Keep(c, p) /\ r = E!Requested(k, p)
                  /\ at' = [at EXCEPT ![c] = p] /\ kept' = [kept EXCEPT ![c] = k]
                  /\ fetch' = [fetch EXCEPT ![c] = r] /\ ask' = [ask EXCEPT ![c] = E!NoAsk]
                  /\ UNCHANGED <<rates, pending, shown>>
  BY DEF E!Go
<1>2. k \in KeptRow
  <2>1. kept[c] \in KeptRow /\ [key |-> p.key, quote |-> p.quote] \in KeptRow
    BY DEF PagesInv, PagesType, KeptRow, PlaceRow
  <2>2. k \in {E!NothingKept, [key |-> p.key, quote |-> p.quote], kept[c]}
    BY <1>1 DEF E!Keep
  <2> QED
    BY <2>1, <2>2, BlankRows
<1>3. r \in PlaceRow /\ r.quote \in {E!NoQuote, k.quote}
  <2>1. PICK q \in Quotes : /\ q \in {E!NoQuote, k.quote}
                            /\ r = [p EXCEPT !.quote = q]
    BY <1>1, <1>2, BlankRows DEF E!Requested, KeptRow
  <2> QED
    BY <2>1 DEF PlaceRow
<1>4. PagesType'
  BY <1>1, <1>2, <1>3, BlankRows DEF PagesInv, PagesType
<1>5. ASSUME NEW d \in Caller PROVE Sought(d)' /\ Quoted(d)'
  <2>1. CASE d = c
    BY <1>1, <1>3, <2>1, BlankRows DEF PagesInv, PagesType, Sought, Quoted
  <2>2. CASE d # c
    <3>1. ask'[d] = ask[d] /\ kept'[d] = kept[d] /\ fetch'[d] = fetch[d]
      BY <1>1, <2>2 DEF PagesInv, PagesType
    <3> QED
      BY <3>1, Still DEF PagesInv
  <2> QED
    BY <2>1, <2>2
<1> QED
  BY <1>4, <1>5 DEF PagesInv

LEMMA TurnStep ==
  ASSUME PagesInv, NEW c \in Caller,
         \/ \E k \in E!Key : E!Choose(c, k)
         \/ \E n \in 1..MaxPage : E!TurnPage(c, n)
         \/ \E p \in E!Place : E!OpenLink(c, p)
  PROVE  PagesInv'
<1>1. ASSUME NEW k \in E!Key, E!Choose(c, k) PROVE PagesInv'
  <2>1. [key |-> k, page |-> 1, quote |-> E!NoQuote] \in PlaceRow
    BY BlankRows DEF PlaceRow, Keys
  <2> QED
    BY <1>1, <2>1, GoStep DEF E!Choose
<1>2. ASSUME NEW n \in 1..MaxPage, E!TurnPage(c, n) PROVE PagesInv'
  <2>1. PICK q \in Quotes : E!Go(c, [at[c] EXCEPT !.page = n, !.quote = q])
    BY <1>2, BlankRows DEF E!TurnPage, PagesInv, PagesType, KeptRow
  <2>2. n \in Nat /\ at[c] \in PlaceRow
    BY SettlingAssumption DEF PagesInv, PagesType
  <2>3. [at[c] EXCEPT !.page = n, !.quote = q] \in PlaceRow
    BY <2>2 DEF PlaceRow
  <2> QED
    BY <2>1, <2>3, GoStep
<1>3. ASSUME NEW p \in E!Place, E!OpenLink(c, p) PROVE PagesInv'
  BY <1>3, BlankRows, GoStep DEF E!OpenLink
<1> QED
  BY <1>1, <1>2, <1>3

(* An answer ends the request, shows what was asked for, and keeps its     *)
(* quote.                                                                  *)
LEMMA ShowStep ==
  ASSUME PagesInv, NEW c \in Caller, NEW q \in Quotes, NEW failed \in BOOLEAN,
         E!Show(c, q, failed),
         ask' = [ask EXCEPT ![c] = E!NoAsk] \/ (ask' = ask /\ ask[c].step = "idle"),
         UNCHANGED pending
  PROVE  PagesInv'
<1>1. PICK new, k : /\ shown' = [shown EXCEPT ![c] = new]
                    /\ new \in {[shown[c] EXCEPT !.error = TRUE],
                                [key |-> fetch[c].key, page |-> fetch[c].page, quote |-> q,
                                 error |-> FALSE]}
                    /\ kept' = [kept EXCEPT ![c] = k]
                    /\ k \in {kept[c], [key |-> fetch[c].key, quote |-> q]}
                    /\ fetch' = [fetch EXCEPT ![c] = E!Nothing] /\ at' = at
  <2>1. kept = [kept EXCEPT ![c] = kept[c]]
    BY DEF PagesInv, PagesType
  <2> QED
    BY <2>1 DEF E!Show
<1>2. k \in KeptRow
  <2>1. kept[c] \in KeptRow /\ fetch[c].key \in Keys
    BY DEF PagesInv, PagesType, PlaceRow
  <2> QED
    BY <1>1, <2>1 DEF KeptRow
<1>3. new \in [key : Keys, page : Nat, quote : Quotes, error : BOOLEAN]
  <2>1. fetch[c].key \in Keys /\ fetch[c].page \in Nat
    BY DEF PagesInv, PagesType, PlaceRow
  <2>2. shown[c] \in [key : Keys, page : Nat, quote : Quotes, error : BOOLEAN]
    BY DEF PagesInv, PagesType
  <2>3. [shown[c] EXCEPT !.error = TRUE]
          \in [key : Keys, page : Nat, quote : Quotes, error : BOOLEAN]
    BY <2>2
  <2>4. [key |-> fetch[c].key, page |-> fetch[c].page, quote |-> q, error |-> FALSE]
          \in [key : Keys, page : Nat, quote : Quotes, error : BOOLEAN]
    BY <2>1
  <2> QED
    BY <1>1, <2>3, <2>4
<1>4. ask' \in [Caller -> AskRow] /\ ask'[c].step = "idle"
  BY BlankRows DEF PagesInv, PagesType
<1>5. PagesType'
  BY <1>1, <1>2, <1>3, <1>4, BlankRows DEF PagesInv, PagesType
<1>6. ASSUME NEW d \in Caller PROVE Sought(d)' /\ Quoted(d)'
  <2>1. CASE d = c
    BY <1>1, <1>4, <2>1, BlankRows DEF PagesInv, PagesType, Sought, Quoted
  <2>2. CASE d # c
    <3>1. ask'[d] = ask[d] /\ kept'[d] = kept[d] /\ fetch'[d] = fetch[d]
      BY <1>1, <2>2 DEF PagesInv, PagesType
    <3> QED
      BY <3>1, Still DEF PagesInv
  <2> QED
    BY <2>1, <2>2
<1> QED
  BY <1>5, <1>6 DEF PagesInv

(* The call of one reader goes on.                                         *)
LEMMA AskMoves ==
  ASSUME PagesInv, NEW c \in Caller, NEW row \in AskRow, ask' = [ask EXCEPT ![c] = row],
         PagesType', UNCHANGED <<kept, fetch>>,
         row.id = fetch[c].quote, ~E!Refused(fetch[c]),
         row.id # E!NoQuote =>
           /\ row.step \in {"look", "done"}
           /\ row.step = "done" => row.quote \in {E!NoQuote, row.id}
  PROVE  PagesInv'
<1>1. ASSUME NEW d \in Caller PROVE Sought(d)' /\ Quoted(d)'
  <2>1. CASE d = c
    <3>1. ask'[c] = row
      BY DEF PagesInv, PagesType
    <3> QED
      BY <2>1, <3>1 DEF PagesInv, Sought, Quoted, E!Refused
  <2>2. CASE d # c
    BY <2>2, Still DEF PagesInv, PagesType
  <2> QED
    BY <2>1, <2>2
<1> QED
  BY <1>1 DEF PagesInv

LEMMA SearchStep ==
  ASSUME PagesInv, NEW c \in Caller, E!Search(c) \/ E!Receive(c) \/ E!Lose(c)
  PROVE  PagesInv'
<1>1. ask[c].quote \in Quotes /\ fetch[c].quote \in Quotes
  BY DEF PagesInv, PagesType, AskRow, PlaceRow
<1>2. CASE E!Receive(c) \/ E!Lose(c)
  BY <1>1, <1>2, BlankRows, ShowStep DEF E!Receive, E!Lose
<1>3. ASSUME NEW failed \in BOOLEAN, E!Search(c), E!Show(c, E!NoQuote, failed), UNCHANGED ask
      PROVE  PagesInv'
  BY <1>3, BlankRows, ShowStep DEF E!Search
<1>4. ASSUME E!Search(c), ~E!Refused(fetch[c]), NEW i \in Instance,
             ask' = [ask EXCEPT ![c] = [step |-> "look", at |-> i,
                                        id |-> fetch[c].quote, quote |-> E!NoQuote]],
             UNCHANGED E!readerVars
      PROVE  PagesInv'
  <2>1. PICK row \in AskRow : /\ row = [step |-> "look", at |-> i,
                                        id |-> fetch[c].quote, quote |-> E!NoQuote]
    BY <1>1, BlankRows DEF AskRow
  <2>2. PagesType'
    BY <1>4, <2>1 DEF E!Search, E!readerVars, PagesInv, PagesType
  <2> QED
    BY <1>4, <2>1, <2>2, AskMoves DEF E!readerVars
<1> QED
  BY <1>2, <1>3, <1>4 DEF E!Search

LEMMA QuotingStep ==
  ASSUME PagesInv, NEW c \in Caller, E!Quoting(c), UNCHANGED E!readerVars
  PROVE  PagesInv'
<1>1. ask[c] \in AskRow /\ ask[c].id \in Quotes /\ Quoted(c)
  BY DEF PagesInv, PagesType, AskRow
<1>2. ASSUME NEW row \in AskRow, ask' = [ask EXCEPT ![c] = row], pending' = pending,
             row.id = ask[c].id, ask[c].step # "idle",
             row.id # E!NoQuote =>
               row.step = "done" /\ row.quote \in {E!NoQuote, row.id}
      PROVE  PagesInv'
  <2>1. PagesType'
    BY <1>2 DEF E!readerVars, PagesInv, PagesType
  <2> QED
    BY <1>1, <1>2, <2>1, AskMoves DEF E!readerVars, Quoted
<1>3. CASE E!LookUp(c)
  <2>1. ask[c].step = "look" /\ pending' = pending
    BY <1>3 DEF E!LookUp
  <2>2. CASE ask[c].id # E!NoQuote
    <3>1. PICK q \in {E!NoQuote, ask[c].id} :
            ask' = [ask EXCEPT ![c].step = "done", ![c].quote = q]
      BY <1>3, <2>2 DEF E!LookUp, E!Answered
    <3>2. PICK row : row = [ask[c] EXCEPT !.step = "done", !.quote = q]
      OBVIOUS
    <3>3. ask' = [ask EXCEPT ![c] = row]
      BY <3>1, <3>2 DEF PagesInv, PagesType
    <3>4. row \in AskRow /\ row.id = ask[c].id /\ row.step = "done" /\ row.quote = q
      BY <1>1, <3>1, <3>2, BlankRows DEF AskRow
    <3> QED
      BY <1>2, <2>1, <2>2, <3>1, <3>3, <3>4
  <2>3. CASE ask[c].id = E!NoQuote /\ E!Good # {}
    <3>1. PICK q \in Quotes : ask' = [ask EXCEPT ![c].step = "done", ![c].quote = q]
      BY <1>3, <2>3 DEF E!LookUp, E!Answered, Quotes, E!Good
    <3>2. PICK row : row = [ask[c] EXCEPT !.step = "done", !.quote = q]
      OBVIOUS
    <3>3. ask' = [ask EXCEPT ![c] = row]
      BY <3>1, <3>2 DEF PagesInv, PagesType
    <3>4. row \in AskRow /\ row.id = ask[c].id
      BY <1>1, <3>2 DEF AskRow
    <3> QED
      BY <1>2, <2>1, <2>3, <3>3, <3>4
  <2>4. CASE ask[c].id = E!NoQuote /\ E!Good = {}
    <3>1. ask' = [ask EXCEPT ![c].step = "join"]
      BY <1>3, <2>4 DEF E!LookUp
    <3>2. PICK row : row = [ask[c] EXCEPT !.step = "join"]
      OBVIOUS
    <3>3. row \in AskRow /\ row.id = ask[c].id
      BY <1>1, <3>2 DEF AskRow
    <3> QED
      BY <1>2, <2>1, <2>4, <3>1, <3>2, <3>3
  <2> QED
    BY <2>2, <2>3, <2>4
<1>4. CASE E!Refresh(c)
  <2>1. ask[c].step = "join" /\ ask' = [ask EXCEPT ![c].step = "wait"]
    BY <1>4 DEF E!Refresh
  <2>2. PICK row : row = [ask[c] EXCEPT !.step = "wait"]
    OBVIOUS
  <2>3. row \in AskRow /\ row.id = ask[c].id
    BY <1>1, <2>2 DEF AskRow
  <2>4. ask[c].id = E!NoQuote
    BY <1>1, <2>1 DEF Quoted
  <2>5. pending' \in [Instance -> [state : {"none", "loading", "loaded", "failed"},
                                   quote : Quotes]]
    <3>1. \/ pending' = pending
          \/ \E i \in Instance \cup {ask[c].at} :
               pending' = [pending EXCEPT ![i].state = "loading"]
      BY <1>4 DEF E!Refresh
    <3> QED
      BY <3>1 DEF PagesInv, PagesType
  <2>6. PagesType'
    BY <2>1, <2>2, <2>3, <2>5 DEF E!readerVars, PagesInv, PagesType
  <2> QED
    BY <1>1, <2>1, <2>2, <2>3, <2>4, <2>6, AskMoves DEF E!readerVars, Quoted
<1> QED
  BY <1>3, <1>4 DEF E!Quoting

(* A refresh tells those who wait for it, none of whom named a snapshot.   *)
LEMMA RefreshingStep ==
  ASSUME PagesInv, NEW i \in Instance, E!Refreshing(i), UNCHANGED E!readerVars
  PROVE  PagesInv'
<1>1. CASE E!Load(i)
  <2>1. pending' \in [Instance -> [state : {"none", "loading", "loaded", "failed"},
                                   quote : Quotes]]
    <3>1. PICK s \in {"loaded", "failed"}, q \in Quotes :
            pending' = [pending EXCEPT ![i] = [state |-> s, quote |-> q]]
      BY <1>1, BlankRows DEF E!Load
    <3> QED
      BY <3>1 DEF PagesInv, PagesType
  <2>2. ask' = ask
    BY <1>1 DEF E!Load
  <2>3. PagesType'
    BY <2>1, <2>2 DEF PagesInv, PagesType, E!readerVars
  <2> QED
    BY <2>2, <2>3, Still DEF PagesInv, E!readerVars
<1>2. CASE E!Settle(i)
  <2>1. pending' = [pending EXCEPT ![i] = [state |-> "none", quote |-> E!NoQuote]]
        /\ pending[i].quote \in Quotes
    BY <1>2 DEF E!Settle, PagesInv, PagesType
  <2>2. ASSUME NEW c \in Caller
        PROVE  ask'[c] \in AskRow /\ Sought(c)' /\ Quoted(c)'
    <3>1. CASE ask[c].step = "wait" /\ ask[c].at = i
      <4>0. PICK q \in Quotes : q = pending[i].quote
        BY <2>1
      <4>1. PICK row : row = [ask[c] EXCEPT !.step = "done", !.quote = q] /\ ask'[c] = row
        BY <1>2, <3>1, <4>0 DEF E!Settle, E!Tell
      <4>2. row \in AskRow /\ row.id = ask[c].id
        <5>1. ask[c] \in AskRow
          BY DEF PagesInv, PagesType
        <5> QED
          BY <4>1, <5>1 DEF AskRow
      <4>3. ask[c].id = E!NoQuote
        BY <3>1 DEF PagesInv, Quoted
      <4> QED
        BY <3>1, <4>1, <4>2, <4>3 DEF PagesInv, Sought, Quoted, E!readerVars, E!Refused
    <3>2. CASE ~(ask[c].step = "wait" /\ ask[c].at = i)
      <4>1. ask'[c] = ask[c]
        BY <1>2, <3>2 DEF E!Settle, E!Tell
      <4> QED
        BY <4>1, Still DEF PagesInv, PagesType, E!readerVars
    <3> QED
      BY <3>1, <3>2
  <2>3. ask' \in [Caller -> AskRow]
    <3>1. ask' = [c \in Caller |-> ask'[c]]
      BY <1>2 DEF E!Settle, E!Tell
    <3> QED
      BY <2>2, <3>1
  <2>4. pending' \in [Instance -> [state : {"none", "loading", "loaded", "failed"},
                                   quote : Quotes]]
    BY <2>1, BlankRows DEF PagesInv, PagesType
  <2>5. PagesType'
    BY <2>3, <2>4 DEF PagesInv, PagesType, E!readerVars
  <2> QED
    BY <2>2, <2>5 DEF PagesInv
<1> QED
  BY <1>1, <1>2 DEF E!Refreshing

LEMMA NextPages == PagesInv /\ [E!Next]_(E!vars) => PagesInv'
<1>1. ASSUME PagesInv, UNCHANGED <<pending, ask, at, kept, fetch, shown>> PROVE PagesInv'
  <2>1. PagesType'
    BY <1>1 DEF PagesInv, PagesType
  <2> QED
    BY <1>1, <2>1, Still DEF PagesInv
<1>2. CASE UNCHANGED E!vars
  BY <1>1, <1>2 DEF E!vars, E!rateVars, E!readerVars
<1>3. ASSUME NEW s \in E!Snapshot, E!Age(s), UNCHANGED E!readerVars PROVE PagesInv => PagesInv'
  BY <1>1, <1>3 DEF E!Age, E!readerVars
<1> QED
  BY <1>2, <1>3, TurnStep, SearchStep, QuotingStep, RefreshingStep DEF E!Next

(* Turning the pages of a list that is sorted by converted prices never    *)
(* sorts the next page by other rates: an old snapshot is an error.        *)
THEOREM PagesShareRatesHolds == E!Spec => PagesShareRates
<1> DEFINE SharesRates(c) ==
      LET old == shown[c]
          new == shown'[c]
      IN  /\ old.page > 0 /\ ~old.error /\ new # old /\ ~new.error
          /\ new.key = old.key /\ new.key.sort = "price" /\ new.page > 1
          /\ at[c].quote = kept[c].quote
        => new.quote = at[c].quote
<1>1. ASSUME PagesInv, E!Next, NEW c \in Caller PROVE SharesRates(c)
  <2>1. CASE shown'[c] = shown[c]
    BY <2>1
  <2>2. CASE shown'[c] # shown[c]
    <3>1. E!Search(c) \/ E!Receive(c) \/ E!Lose(c)
      <4>1. PICK d \in Caller : E!Search(d) \/ E!Receive(d) \/ E!Lose(d)
        BY <1>1, <2>2 DEF E!Next, E!readerVars, E!Choose, E!TurnPage, E!OpenLink, E!Go
      <4>2. CASE d # c
        BY <1>1, <2>2, <4>1, <4>2
           DEF E!Search, E!Receive, E!Lose, E!Show, E!readerVars, PagesInv, PagesType
      <4> QED
        BY <4>1, <4>2
    <3>2. PICK q \in Quotes, failed \in BOOLEAN :
            /\ E!Show(c, q, failed)
            /\ ~failed =>
                 \/ fetch[c].key.sort = "newest" \/ E!Native(fetch[c])
                 \/ ask[c].step = "done" /\ q = ask[c].quote /\ q # E!NoQuote
      <4>1. CASE E!Receive(c)
        <5>1. ask[c].quote \in Quotes
          BY <1>1 DEF PagesInv, PagesType, AskRow
        <5> QED
          BY <4>1, <5>1 DEF E!Receive
      <4>2. CASE E!Lose(c)
        BY <4>2, BlankRows DEF E!Lose
      <4>3. CASE E!Search(c)
        <5>1. \/ E!Show(c, E!NoQuote, TRUE)
              \/ /\ fetch[c].key.sort = "newest" \/ E!Native(fetch[c])
                 /\ E!Show(c, E!NoQuote, FALSE)
          BY <2>2, <4>3 DEF E!Search, E!readerVars
        <5> QED
          BY <5>1, BlankRows
      <4> QED
        BY <3>1, <4>1, <4>2, <4>3
    <3>3. shown'[c] = IF failed THEN [shown[c] EXCEPT !.error = TRUE]
            ELSE [key |-> fetch[c].key, page |-> fetch[c].page, quote |-> q, error |-> FALSE]
      BY <1>1, <3>2 DEF E!Show, PagesInv, PagesType
    <3>4. CASE failed
      BY <1>1, <3>4, <3>3 DEF PagesInv, PagesType
    <3>5. CASE ~failed
      <4> SUFFICES ASSUME fetch[c].key.sort = "price", fetch[c].page > 1,
                          at[c].quote = kept[c].quote
                   PROVE  q = at[c].quote
        BY <3>5, <3>3
      <4>1. ask[c].step = "done" /\ q = ask[c].quote /\ q # E!NoQuote
        BY <3>2, <3>5 DEF E!Native
      <4>2. ask[c].id = fetch[c].quote /\ fetch[c].quote # E!NoQuote
        BY <1>1, <4>1 DEF PagesInv, Quoted, E!Refused
      <4>3. q = fetch[c].quote
        BY <1>1, <4>1, <4>2 DEF PagesInv, Quoted
      <4>4. fetch[c].quote = kept[c].quote
        BY <1>1, <4>2 DEF PagesInv, Sought
      <4> QED
        BY <4>3, <4>4
    <3> QED
      BY <3>4, <3>5
  <2> QED
    BY <2>1, <2>2
<1>2. PagesInv /\ [E!Next]_(E!vars) =>
        [\A c \in Caller : SharesRates(c)]_(E!vars)
  BY <1>1
<1> QED
  BY <1>2, InitPages, NextPages, PTL DEF E!Spec, PagesShareRates, E!PagesShareRates

-----------------------------------------------------------------------------
(* The row locks. *)

(* The number of a set is the same within the instance.                    *)
LEMMA Tallies == \A S : L!Cardinality(S) = Cardinality(S)
BY Zenon DEF L!Cardinality, Cardinality

(* The least of a set of numbers: the intervals up to them are finite, and *)
(* finite sets are well founded under inclusion.                           *)
LEMMA LeastNumber ==
  ASSUME NEW N \in SUBSET Nat, N # {}
  PROVE  \E m \in N : \A k \in N : m <= k
<1> DEFINE F == {0..k : k \in N}
<1>1. F \subseteq FiniteSubsetsOf(Nat) /\ F # {}
  <2>1. \A k \in N : 0..k \in SUBSET Nat /\ IsFiniteSet(0..k)
    BY FS_Interval
  <2> QED
    BY <2>1 DEF FiniteSubsetsOf
<1>2. PICK T \in F : \A U \in F : <<U, T>> \notin StrictSubsetOrdering(Nat)
  <2> HIDE DEF F
  <2> QED
    BY <1>1, FS_StrictSubsetOrderingWellFounded, WFMin
<1>3. PICK m \in N : T = 0..m
  OBVIOUS
<1>4. ASSUME NEW k \in N, k < m PROVE FALSE
  <2>1. 0..k \in F /\ 0..k \subseteq 0..m /\ 0..k # 0..m
    BY <1>4
  <2>2. <<0..k, 0..m>> \in StrictSubsetOrdering(Nat)
    <3>1. 0..k \in SUBSET Nat /\ 0..m \in SUBSET Nat
      OBVIOUS
    <3> QED
      BY <2>1, <3>1 DEF StrictSubsetOrdering
  <2> QED
    BY <1>2, <1>3, <2>1, <2>2
<1> QED
  BY <1>4

(* The largest of a finite set of numbers.                                 *)
LEMMA GreatestNumber ==
  ASSUME NEW N \in SUBSET Nat, N # {}, IsFiniteSet(N)
  PROVE  \E m \in N : \A k \in N : k <= m
<1> DEFINE Above(k) == {j \in N : k < j}
           F == {Above(k) : k \in N}
<1>1. F \subseteq FiniteSubsetsOf(Nat) /\ F # {}
  <2>1. \A k \in N : Above(k) \in SUBSET N
    OBVIOUS
  <2>2. \A T \in SUBSET N : IsFiniteSet(T)
    BY FS_Subset
  <2> QED
    BY <2>1, <2>2 DEF FiniteSubsetsOf
<1>2. PICK T \in F : \A U \in F : <<U, T>> \notin StrictSubsetOrdering(Nat)
  <2> HIDE DEF F
  <2> QED
    BY <1>1, FS_StrictSubsetOrderingWellFounded, WFMin
<1>3. PICK m \in N : T = Above(m)
  OBVIOUS
<1>4. ASSUME NEW k \in N, m < k PROVE FALSE
  <2>1. Above(k) \subseteq Above(m) /\ k \in Above(m) /\ k \notin Above(k)
    <3>1. \A j \in N : k < j => m < j
      BY <1>4
    <3>2. ~(k < k)
      OBVIOUS
    <3> QED
      BY <1>4, <3>1, <3>2, Zenon
  <2>2. <<Above(k), Above(m)>> \in StrictSubsetOrdering(Nat)
    <3>1. Above(k) \in SUBSET Nat /\ Above(m) \in SUBSET Nat
      OBVIOUS
    <3> QED
      BY <2>1, <3>1 DEF StrictSubsetOrdering
  <2> QED
    BY <1>2, <1>3, <2>2
<1> QED
  BY <1>4

(* The chain of a call is the function its recursion defines: it exists up *)
(* to every length, since there is none that is the least without it.      *)
Beyond(calls) == UNION {L!Blockers(u) : u \in calls}

Chained(t, chain, n) ==
  chain = [i \in 1..n |-> IF i = 1 THEN L!Blockers(t) ELSE Beyond(chain[i - 1])]

LEMMA ChainExists ==
  ASSUME NEW t, NEW n \in Nat
  PROVE  \E chain : Chained(t, chain, n)
<1> DEFINE N == {k \in Nat : ~ \E chain : Chained(t, chain, k)}
<1> SUFFICES ASSUME N # {} PROVE FALSE
  OBVIOUS
<1>1. PICK m \in N : \A k \in N : m <= k
  BY LeastNumber
<1>2. CASE m = 0
  <2> DEFINE g == [i \in 1..0 |-> {}]
  <2>1. Chained(t, g, 0)
    BY DEF Chained
  <2> QED
    BY <1>1, <1>2, <2>1
<1>3. CASE m # 0
  <2>0. m \in Nat /\ m - 1 \in Nat /\ m - 1 \notin N
    BY <1>1, <1>3
  <2>1. PICK g : Chained(t, g, m - 1)
    BY <2>0
  <2>a. \A i \in 1..(m - 1) : g[i] = IF i = 1 THEN L!Blockers(t) ELSE Beyond(g[i - 1])
    BY <2>1 DEF Chained
  <2> DEFINE h == [i \in 1..m |-> IF i = 1 THEN L!Blockers(t) ELSE Beyond(g[i - 1])]
  <2>2. \A i \in 1..(m - 1) : h[i] = g[i]
    BY <2>0, <2>a
  <2>3. \A i \in 1..m : i # 1 => i - 1 \in 1..(m - 1)
    BY <2>0
  <2>4. h = [i \in 1..m |-> IF i = 1 THEN L!Blockers(t) ELSE Beyond(h[i - 1])]
    BY <2>2, <2>3
  <2>5. Chained(t, h, m)
    BY <2>4 DEF Chained
  <2> QED
    BY <1>1, <2>5
<1> QED
  BY <1>2, <1>3

LEMMA ChainOf ==
  ASSUME NEW t
  PROVE  \E chain : /\ Chained(t, chain, Cardinality(Call))
                    /\ L!WaitsFor(t) = UNION {chain[n] : n \in DOMAIN chain}
<1> DEFINE chain == CHOOSE Chain :
      Chain = [n \in 1..L!Cardinality(Call) |->
                 IF n = 1 THEN L!Blockers(t) ELSE UNION {L!Blockers(u) : u \in Chain[n - 1]}]
<1>1. Chained(t, chain, Cardinality(Call))
  <2>1. \E Chain : Chained(t, Chain, L!Cardinality(Call))
    BY ChainExists, LocksAssumption, FS_CardinalityType, Tallies
  <2>2. Chained(t, chain, L!Cardinality(Call))
    BY <2>1, Zenon DEF Chained, Beyond
  <2> QED
    BY <2>2, Tallies
<1>2. L!WaitsFor(t) = UNION {chain[n] : n \in DOMAIN chain}
  BY Zenon DEF L!WaitsFor
<1> QED
  BY <1>1, <1>2

-----------------------------------------------------------------------------
(* Sorting numbers them from below. *)
Smaller(ids, x) == {y \in ids : y < x}

(* Every place of a finite set of numbers is somebody's.                   *)
LEMMA PlaceTaken ==
  ASSUME NEW ids \in SUBSET Nat, IsFiniteSet(ids), NEW i \in 1..Cardinality(ids)
  PROVE  \E x \in ids : Cardinality(Smaller(ids, x)) = i - 1
<1> DEFINE Size(x) == Cardinality(Smaller(ids, x))
           High == {x \in ids : Size(x) >= i - 1}
<1>0. i \in Nat /\ i >= 1 /\ Cardinality(ids) \in Nat /\ i <= Cardinality(ids)
  BY FS_CardinalityType
<1>1. \A x \in ids : IsFiniteSet(Smaller(ids, x)) /\ Size(x) \in Nat
  <2> SUFFICES ASSUME NEW x \in ids PROVE IsFiniteSet(Smaller(ids, x)) /\ Size(x) \in Nat
    OBVIOUS
  <2>1. Smaller(ids, x) \in SUBSET ids
    BY DEF Smaller
  <2> QED
    BY <2>1, FS_Subset, FS_CardinalityType
<1>2. High # {}
  <2>1. ids # {}
    BY <1>0, FS_EmptySet
  <2>2. PICK m \in ids : \A k \in ids : k <= m
    BY <2>1, GreatestNumber
  <2>3. Smaller(ids, m) = ids \ {m}
    <3>1. \A k \in ids : k < m <=> k # m
      BY <2>2
    <3> QED
      BY <3>1 DEF Smaller
  <2>4. Size(m) = Cardinality(ids) - 1
    BY <2>2, <2>3, FS_RemoveElement
  <2> QED
    BY <1>0, <2>2, <2>4
<1>3. PICK x \in High : \A k \in High : x <= k
  <2>1. High \in SUBSET Nat
    OBVIOUS
  <2> QED
    BY <1>2, <2>1, LeastNumber
<1>4. ASSUME Size(x) # i - 1 PROVE FALSE
  <2>0. x \in ids /\ x \in Nat /\ Size(x) \in Nat /\ Size(x) > i - 1
    BY <1>0, <1>1, <1>3, <1>4
  <2>1. Smaller(ids, x) # {}
    BY <1>0, <2>0, FS_EmptySet
  <2>2. Smaller(ids, x) \in SUBSET Nat
    BY DEF Smaller
  <2>3. PICK z \in Smaller(ids, x) : \A k \in Smaller(ids, x) : k <= z
    BY <1>1, <2>0, <2>1, <2>2, GreatestNumber
  <2>4. z \in ids /\ z \in Nat /\ z < x
    BY <2>3 DEF Smaller
  <2>5. Smaller(ids, z) = Smaller(ids, x) \ {z}
    <3>1. \A y \in ids : y < z <=> y < x /\ y # z
      <4> SUFFICES ASSUME NEW y \in ids PROVE y < z <=> y < x /\ y # z
        OBVIOUS
      <4>1. y < x => y <= z
        BY <2>3 DEF Smaller
      <4> QED
        BY <2>0, <2>4, <4>1
    <3> QED
      BY <3>1 DEF Smaller
  <2>6. Size(z) = Size(x) - 1
    <3>1. IsFiniteSet(Smaller(ids, x))
      BY <1>1, <2>0
    <3>2. Cardinality(Smaller(ids, x) \ {z}) = Cardinality(Smaller(ids, x)) - 1
      BY <2>3, <3>1, FS_RemoveElement
    <3> QED
      BY <2>5, <3>2
  <2>7. z \in High
    BY <1>0, <2>0, <2>4, <2>6
  <2> QED
    BY <1>3, <2>0, <2>4, <2>7
<1> QED
  BY <1>3, <1>4

(* What is sorted ascends.                                                 *)
LEMMA SortedAscends ==
  ASSUME NEW ids \in SUBSET Nat, IsFiniteSet(ids)
  PROVE  /\ L!Sorted(ids) \in [1..Cardinality(ids) -> ids]
         /\ \A i, j \in 1..Cardinality(ids) : i < j => L!Sorted(ids)[i] < L!Sorted(ids)[j]
<1> DEFINE s == L!Sorted(ids)
<1>0. Cardinality(ids) \in Nat
  BY FS_CardinalityType
<1>1. /\ s = [i \in 1..L!Cardinality(ids) |-> s[i]]
      /\ \A i \in 1..L!Cardinality(ids) :
           s[i] = CHOOSE x \in ids : L!Cardinality({y \in ids : y < x}) = i - 1
  BY DEF L!Sorted
<1> HIDE DEF s
<1>2. \A i \in 1..Cardinality(ids) : s[i] \in ids /\ Cardinality(Smaller(ids, s[i])) = i - 1
  <2> SUFFICES ASSUME NEW i \in 1..Cardinality(ids)
               PROVE  s[i] \in ids /\ Cardinality(Smaller(ids, s[i])) = i - 1
    OBVIOUS
  <2>1. \E x \in ids : L!Cardinality({y \in ids : y < x}) = i - 1
    BY PlaceTaken, Tallies DEF Smaller
  <2>2. s[i] = CHOOSE x \in ids : L!Cardinality({y \in ids : y < x}) = i - 1
    BY <1>1, Tallies
  <2>3. s[i] \in ids /\ L!Cardinality({y \in ids : y < s[i]}) = i - 1
    BY <2>1, <2>2, Zenon
  <2> QED
    BY <2>3, Tallies DEF Smaller
<1>3. \A i, j \in 1..Cardinality(ids) : i < j => s[i] < s[j]
  <2> SUFFICES ASSUME NEW i \in 1..Cardinality(ids), NEW j \in 1..Cardinality(ids), i < j,
                      s[j] <= s[i]
               PROVE  FALSE
    <3>1. \A i \in 1..Cardinality(ids) : s[i] \in Nat
      BY <1>2
    <3>2. \A m, n \in Nat : m < n \/ n <= m
      OBVIOUS
    <3> QED
      BY <3>1, <3>2
  <2>1. s[i] \in Nat /\ s[j] \in Nat
    BY <1>2
  <2>2. Smaller(ids, s[j]) \in SUBSET Smaller(ids, s[i])
    <3>1. \A y \in ids : y < s[j] => y < s[i]
      BY <2>1
    <3> QED
      BY <3>1 DEF Smaller
  <2>3. IsFiniteSet(Smaller(ids, s[i]))
    <3>1. Smaller(ids, s[i]) \in SUBSET ids
      BY DEF Smaller
    <3> QED
      BY <3>1, FS_Subset
  <2>4. Cardinality(Smaller(ids, s[j])) <= Cardinality(Smaller(ids, s[i]))
    BY <2>2, <2>3, FS_Subset
  <2>5. j - 1 <= i - 1
    BY <1>2, <2>4
  <2> QED
    BY <1>0, <2>5
<1>4. s \in [1..Cardinality(ids) -> ids]
  <2>1. \A i \in 1..Cardinality(ids) : s[i] \in ids
    BY <1>2
  <2>2. s = [i \in 1..Cardinality(ids) |-> s[i]]
    BY <1>1, Tallies
  <2> QED
    BY <2>1, <2>2
<1> QED
  BY <1>3, <1>4 DEF s

-----------------------------------------------------------------------------
(* Listings come before images, and each by its number. *)
LockRow == {"listing", "asset", "share"} \X Nat

Below(r, s) ==
  \/ r[1] = "listing" /\ s[1] # "listing"
  \/ r[1] = s[1] /\ r[2] < s[2]

(* A strict order: no row is below itself, and it passes along.            *)
LEMMA BelowOrders ==
  /\ \A r \in LockRow : ~Below(r, r)
  /\ \A r, s, q \in LockRow : Below(r, s) /\ Below(s, q) => Below(r, q)
BY DEF LockRow, Below

(* A purchase shares images wherever it has come to.                       *)
Before(r, s) == r[1] = "share" \/ s[1] = "share" \/ Below(r, s)

Ascending(s) == \A i, j \in DOMAIN s : i < j => Before(s[i], s[j])

(* The rows of a sequence of ids are those ids, in its order.              *)
LEMMA RowsSeq ==
  ASSUME NEW kind \in {"listing", "asset", "share"}, NEW ids \in Seq(Nat)
  PROVE  /\ L!Rows(kind, ids) \in Seq(LockRow) /\ Len(L!Rows(kind, ids)) = Len(ids)
         /\ \A i \in 1..Len(ids) : L!Rows(kind, ids)[i] = <<kind, ids[i]>>
BY DEF L!Rows, LockRow

(* One row ascends.                                                        *)
LEMMA RowsShort ==
  ASSUME NEW kind \in {"listing", "asset"}, NEW ids \in Seq(Nat), Len(ids) <= 1
  PROVE  L!Rows(kind, ids) \in Seq(LockRow) /\ Ascending(L!Rows(kind, ids))
BY RowsSeq DEF Ascending

(* Rows in the order of their ids ascend.                                  *)
LEMMA RowsSorted ==
  ASSUME NEW kind \in {"listing", "asset"}, NEW ids \in SUBSET Nat, IsFiniteSet(ids)
  PROVE  L!Rows(kind, L!Sorted(ids)) \in Seq(LockRow)
         /\ Ascending(L!Rows(kind, L!Sorted(ids)))
         /\ \A i \in DOMAIN L!Rows(kind, L!Sorted(ids)) :
              /\ L!Rows(kind, L!Sorted(ids))[i][1] = kind
              /\ L!Rows(kind, L!Sorted(ids))[i][2] \in ids
<1>0. Cardinality(ids) \in Nat
  BY FS_CardinalityType
<1>1. PICK s : s = L!Sorted(ids)
  OBVIOUS
<1>2. s \in Seq(Nat) /\ Len(s) = Cardinality(ids) /\ \A i \in 1..Len(s) : s[i] \in ids
  <2>1. PICK n \in Nat : n = Cardinality(ids)
    BY <1>0
  <2>2. s \in [1..n -> ids]
    BY <1>1, <2>1, SortedAscends
  <2>3. s \in [1..n -> Nat]
    BY <2>2
  <2>4. s \in Seq(Nat) /\ Len(s) = n
    BY <2>3
  <2> QED
    BY <2>1, <2>2, <2>4
<1>3. \A i, j \in 1..Len(s) : i < j => s[i] < s[j]
  BY <1>1, <1>2, SortedAscends
<1>4. PICK r : r = L!Rows(kind, s)
  OBVIOUS
<1>5. r \in Seq(LockRow) /\ Len(r) = Len(s) /\ \A i \in 1..Len(s) : r[i] = <<kind, s[i]>>
  BY <1>2, <1>4, RowsSeq
<1>6. Ascending(r)
  BY <1>3, <1>5 DEF Ascending, Before, Below
<1>7. \A i \in DOMAIN r : r[i][1] = kind /\ r[i][2] \in ids
  BY <1>2, <1>5
<1> QED
  BY <1>1, <1>4, <1>5, <1>6, <1>7

LEMMA Joined ==
  ASSUME NEW S, NEW p \in Seq(S), NEW q \in Seq(S)
  PROVE  /\ p \o q \in Seq(S) /\ DOMAIN (p \o q) = 1..Len(p) + Len(q)
         /\ Len(p) \in Nat /\ Len(q) \in Nat /\ DOMAIN q = 1..Len(q)
         /\ \A i \in 1..Len(p) : (p \o q)[i] = p[i]
         /\ \A i \in 1..Len(p) + Len(q) : i > Len(p) => (p \o q)[i] = q[i - Len(p)]
<1>1. Len(p) \in Nat /\ Len(q) \in Nat /\ DOMAIN q = 1..Len(q) /\ DOMAIN p = 1..Len(p)
  OBVIOUS
<1>2. p \o q \in Seq(S) /\ Len(p \o q) = Len(p) + Len(q)
  OBVIOUS
<1>3. DOMAIN (p \o q) = 1..Len(p) + Len(q)
  BY <1>2
<1>4. \A i \in 1..Len(p) : (p \o q)[i] = p[i]
  BY <1>1
<1>5. \A i \in 1..Len(p) + Len(q) : i > Len(p) => (p \o q)[i] = q[i - Len(p)]
  BY <1>1
<1> QED
  BY <1>1, <1>2, <1>3, <1>4, <1>5

(* First listings, then images. *)
LEMMA RowsJoined ==
  ASSUME NEW ids \in Seq(Nat), Len(ids) <= 1, NEW q \in Seq(LockRow), Ascending(q),
         \A i \in DOMAIN q : q[i][1] = "asset"
  PROVE  L!Rows("listing", ids) \o q \in Seq(LockRow) /\ Ascending(L!Rows("listing", ids) \o q)
<1>1. PICK p : p = L!Rows("listing", ids)
  OBVIOUS
<1>2. /\ p \in Seq(LockRow) /\ Len(p) = Len(ids) /\ Ascending(p)
      /\ \A i \in 1..Len(p) : p[i][1] = "listing"
  BY <1>1, RowsSeq, RowsShort
<1>3. PICK r : r = p \o q
  OBVIOUS
<1>4. /\ r \in Seq(LockRow) /\ DOMAIN r = 1..Len(p) + Len(q)
      /\ Len(p) \in Nat /\ Len(p) <= 1 /\ Len(q) \in Nat /\ DOMAIN q = 1..Len(q)
      /\ \A i \in 1..Len(p) : r[i] = p[i]
      /\ \A i \in 1..Len(p) + Len(q) : i > Len(p) => r[i] = q[i - Len(p)]
  <2>1. Len(p) <= 1
    BY <1>2
  <2>2. p \in Seq(LockRow) /\ q \in Seq(LockRow)
    BY <1>2
  <2>3. /\ p \o q \in Seq(LockRow) /\ DOMAIN (p \o q) = 1..Len(p) + Len(q)
        /\ Len(p) \in Nat /\ Len(q) \in Nat /\ DOMAIN q = 1..Len(q)
        /\ \A i \in 1..Len(p) : (p \o q)[i] = p[i]
        /\ \A i \in 1..Len(p) + Len(q) : i > Len(p) => (p \o q)[i] = q[i - Len(p)]
    BY <2>2, Joined
  <2> QED
    BY <1>3, <2>1, <2>3
<1>5. ASSUME NEW i \in DOMAIN r, NEW j \in DOMAIN r, i < j PROVE Before(r[i], r[j])
  <2>1. j > Len(p) /\ j - Len(p) \in DOMAIN q /\ r[j] = q[j - Len(p)]
    BY <1>4, <1>5
  <2>2. CASE i > Len(p)
    <3>1. i - Len(p) \in DOMAIN q /\ r[i] = q[i - Len(p)] /\ i - Len(p) < j - Len(p)
      BY <1>4, <1>5, <2>2
    <3> QED
      BY <2>1, <3>1 DEF Ascending
  <2>3. CASE i <= Len(p)
    <3>1. r[i][1] = "listing" /\ r[j][1] = "asset"
      BY <1>2, <1>4, <2>1, <2>3
    <3> QED
      BY <3>1 DEF Before, Below
  <2> QED
    BY <1>4, <2>2, <2>3
<1> QED
  BY <1>1, <1>3, <1>4, <1>5 DEF Ascending

-----------------------------------------------------------------------------
(* Every plan is a sequence of rows, and every one but a ruling's ascends. *)
LEMMA SeqOfSet == \A s \in Seq(Nat) : L!ToSet(s) \in SUBSET Nat /\ IsFiniteSet(L!ToSet(s))
<1> SUFFICES ASSUME NEW s \in Seq(Nat)
             PROVE  L!ToSet(s) \in SUBSET Nat /\ IsFiniteSet(L!ToSet(s))
  OBVIOUS
<1>1. L!ToSet(s) = {s[i] : i \in DOMAIN s}
  BY DEF L!ToSet
<1>2. PICK n \in Nat : DOMAIN s = 1..n
  OBVIOUS
<1>3. IsFiniteSet(1..n) /\ s \in Surjection(1..n, L!ToSet(s))
  <2>1. IsFiniteSet(1..n)
    BY FS_Interval
  <2>2. s \in [1..n -> L!ToSet(s)]
    <3>1. s \in [1..n -> Nat] /\ \A i \in 1..n : s[i] \in L!ToSet(s)
      BY <1>1, <1>2
    <3> HIDE <1>1
    <3> QED
      BY <3>1
  <2>3. \A x \in L!ToSet(s) : \E i \in 1..n : s[i] = x
    BY <1>1, <1>2
  <2> QED
    BY <2>1, <2>2, <2>3 DEF Surjection
<1>4. IsFiniteSet(L!ToSet(s))
  BY <1>3, FS_Surjection
<1> QED
  BY <1>1, <1>4

(* What a plan may name, before any image is shared.                       *)
Plans(c, row) ==
  /\ row[1] # "share"
  /\ row[1] = "asset" => c.kind \in {"edit", "publish", "retire"} /\ row[2] \in c.assets
  /\ c.kind = "checkout" => row[2] \in L!ToSet(c.listings)

LEMMA PlanAscends ==
  ASSUME NEW t \in Call
  PROVE  /\ L!Plan(Command[t]) \in Seq(LockRow)
         /\ Command[t].kind # "ruling" => Ascending(L!Plan(Command[t]))
         /\ \A i \in DOMAIN L!Plan(Command[t]) : Plans(Command[t], L!Plan(Command[t])[i])
         /\ Command[t].kind = "retire" => Len(L!Plan(Command[t])) <= 1
<1>1. PICK c : c = Command[t]
  OBVIOUS
<1>2. /\ c.kind \in CommandKinds /\ c.listings \in Seq(Nat) /\ c.replaced \in Seq(Nat)
      /\ c.assets \in SUBSET Nat /\ IsFiniteSet(c.assets)
      /\ c.kind \in {"order", "edit"} => Len(c.listings) <= 1
      /\ c.kind = "publish" => Len(c.replaced) <= 1
      /\ c.kind = "retire" => Cardinality(c.assets) <= 1
  BY <1>1, LocksAssumption
<1>3. PICK q : q = L!Rows("asset", L!Sorted(c.assets))
  OBVIOUS
<1>4. /\ q \in Seq(LockRow) /\ Ascending(q)
      /\ \A i \in DOMAIN q : q[i][1] = "asset" /\ q[i][2] \in c.assets
  BY <1>2, <1>3, RowsSorted
<1> DEFINE Fits(p) == /\ p \in Seq(LockRow)
                      /\ c.kind # "ruling" => Ascending(p)
                      /\ \A i \in DOMAIN p : Plans(c, p[i])
<1>5. CASE c.kind = "checkout"
  <2>1. PICK p : p = L!Rows("listing", L!Sorted(L!ToSet(c.listings)))
    OBVIOUS
  <2>2. /\ p \in Seq(LockRow) /\ Ascending(p)
        /\ \A i \in DOMAIN p : p[i][1] = "listing" /\ p[i][2] \in L!ToSet(c.listings)
    BY <1>2, <2>1, SeqOfSet, RowsSorted
  <2>3. L!Plan(c) = p
    BY <1>5, <2>1 DEF L!Plan, L!Checkout
  <2>4. Fits(p)
    BY <2>2 DEF Plans
  <2> QED
    BY <1>1, <1>5, <2>3, <2>4
<1>6. ASSUME c.kind \in {"order", "ruling"} PROVE Fits(L!Plan(c))
  <2>1. PICK ids \in Seq(Nat) : /\ L!Plan(c) = L!Rows("listing", ids)
                                /\ c.kind = "order" => Len(ids) <= 1
    <3>1. CASE c.kind = "order"
      BY <1>2, <3>1 DEF L!Plan
    <3>2. CASE c.kind = "ruling"
      <4>1. c.listings \o c.replaced \in Seq(Nat)
        BY <1>2
      <4> QED
        BY <3>2, <4>1 DEF L!Plan, L!Ruling
    <3> QED
      BY <1>6, <3>1, <3>2
  <2>2. PICK p : p = L!Rows("listing", ids)
    OBVIOUS
  <2>3. p \in Seq(LockRow) /\ (c.kind = "order" => Ascending(p))
        /\ \A i \in DOMAIN p : p[i][1] = "listing"
    <3>1. /\ p \in Seq(LockRow) /\ Len(p) = Len(ids)
          /\ \A i \in 1..Len(ids) : p[i] = <<"listing", ids[i]>>
      BY <2>1, <2>2, RowsSeq
    <3>2. Len(ids) <= 1 => Ascending(p)
      BY <2>1, <2>2, RowsShort
    <3> QED
      BY <2>1, <3>1, <3>2
  <2>4. Fits(p)
    BY <1>6, <2>3 DEF Plans
  <2> QED
    BY <2>1, <2>2, <2>4
<1>7. ASSUME c.kind \in {"edit", "publish"} PROVE Fits(L!Plan(c))
  <2>1. PICK ids \in Seq(Nat) : L!Plan(c) = L!Rows("listing", ids) \o q /\ Len(ids) <= 1
    BY <1>2, <1>3, <1>7 DEF L!Plan, L!Edit, L!Publish
  <2>2. PICK p : p = L!Rows("listing", ids)
    OBVIOUS
  <2>3. /\ p \in Seq(LockRow) /\ Len(p) = Len(ids)
        /\ \A i \in 1..Len(p) : p[i][1] = "listing"
    BY <2>2, RowsSeq
  <2>4. p \o q \in Seq(LockRow) /\ Ascending(p \o q)
    BY <1>4, <2>1, <2>2, RowsJoined
  <2>5. \A i \in DOMAIN (p \o q) :
          (p \o q)[i][1] = "listing"
          \/ ((p \o q)[i][1] = "asset" /\ (p \o q)[i][2] \in c.assets)
    BY <1>4, <2>3
  <2>6. Fits(p \o q)
    BY <1>7, <2>4, <2>5 DEF Plans
  <2> QED
    BY <2>1, <2>2, <2>6
<1>8. CASE c.kind = "retire"
  <2>1. L!Plan(c) = q
    BY <1>3, <1>8 DEF L!Plan, L!Retire
  <2>2. Fits(q)
    BY <1>4, <1>8 DEF Plans
  <2>3. Len(q) <= 1
    <3>1. Cardinality(c.assets) \in Nat
      BY <1>2, FS_CardinalityType
    <3>2. PICK ids : ids = L!Sorted(c.assets)
      OBVIOUS
    <3>3. ids \in Seq(Nat) /\ Len(ids) = Cardinality(c.assets)
      BY <1>2, <3>1, <3>2, SortedAscends
    <3> QED
      BY <1>2, <1>3, <1>8, <3>2, <3>3, RowsSeq
  <2> QED
    BY <1>1, <1>8, <2>1, <2>2, <2>3
<1> QED
  BY <1>1, <1>2, <1>5, <1>6, <1>7, <1>8 DEF CommandKinds

-----------------------------------------------------------------------------
(* What a call holds comes before what it has still to lock.               *)
Climbs(t) ==
  /\ Ascending(left[t])
  /\ \A r \in held[t], i \in DOMAIN left[t] : Before(r, left[t][i])

(* A share is one of an image of a listing that the purchase holds.        *)
Shared(t, r) ==
  /\ Command[t].kind = "checkout"
  /\ \E row \in held[t] : /\ row[1] = "listing"
                          /\ \E ids \in Images[row[2]] : r[2] \in L!ToSet(ids)

Owns(t, r) == Plans(Command[t], r) \/ (r[1] = "share" /\ Shared(t, r))

Rightful(t) ==
  /\ \A r \in held[t] : Owns(t, r)
  /\ \A i \in DOMAIN left[t] : Owns(t, left[t][i])

LocksInv ==
  /\ state \in [Call -> {"idle", "open", "done", "exhausted"}]
  /\ left \in [Call -> Seq(LockRow)]
  /\ held \in [Call -> SUBSET LockRow]
  /\ \A t \in Call : state[t] = "idle" => left[t] = <<>> /\ held[t] = {}
  /\ \A t \in Call : Command[t].kind # "ruling" => Climbs(t)
  /\ \A t \in Call : Rightful(t)
  /\ \A t \in Call : Command[t].kind = "retire" =>
       left[t] = <<>> \/ (held[t] = {} /\ Len(left[t]) <= 1)
  /\ \A t, u \in Call, r \in LockRow :
       t # u /\ r \in held[t] /\ r[1] = "listing" => r \notin held[u]

(* No call has begun; what is idle holds nothing and has nothing to lock.  *)
LEMMA InitLocks == L!Init => LocksInv
BY DEF L!Init, LocksInv, Climbs, Rightful, Ascending

(* A call whose rows a step leaves alone keeps what is said of them.       *)
LEMMA Untouched ==
  ASSUME NEW u \in Call, left'[u] = left[u], held'[u] = held[u]
  PROVE  /\ Climbs(u) => Climbs(u)'
         /\ Rightful(u) => Rightful(u)'
BY DEF Climbs, Ascending, Rightful, Owns, Shared

(* What a step may do to the rows of a call.                               *)
LEMMA Empties ==
  ASSUME LocksInv, NEW t \in Call, NEW s \in {"idle", "done", "exhausted"},
         state' = [state EXCEPT ![t] = s],
         left' = [left EXCEPT ![t] = <<>>], held' = [held EXCEPT ![t] = {}]
  PROVE  LocksInv'
<1>1. /\ left'[t] = <<>> /\ held'[t] = {} /\ state'[t] = s
      /\ \A u \in Call \ {t} : left'[u] = left[u] /\ held'[u] = held[u] /\ state'[u] = state[u]
  BY DEF LocksInv
<1>2. ASSUME NEW u \in Call
      PROVE  /\ Command[u].kind # "ruling" => Climbs(u)'
             /\ Rightful(u)'
             /\ Command[u].kind = "retire" =>
                  left'[u] = <<>> \/ (held'[u] = {} /\ Len(left'[u]) <= 1)
             /\ state'[u] = "idle" => left'[u] = <<>> /\ held'[u] = {}
  <2>1. CASE u = t
    BY <1>1, <2>1 DEF Climbs, Ascending, Rightful
  <2>2. CASE u # t
    <3>1. left'[u] = left[u] /\ held'[u] = held[u] /\ state'[u] = state[u]
      BY <1>1, <2>2
    <3> QED
      BY <3>1, Untouched DEF LocksInv
  <2> QED
    BY <2>1, <2>2
<1>3. \A u \in Call : held'[u] \subseteq held[u]
  BY <1>1
<1>4. /\ state' \in [Call -> {"idle", "open", "done", "exhausted"}]
      /\ left' \in [Call -> Seq(LockRow)] /\ held' \in [Call -> SUBSET LockRow]
  BY DEF LocksInv
<1> QED
  BY <1>2, <1>3, <1>4 DEF LocksInv

LEMMA BeginLocks == ASSUME LocksInv, NEW t \in Call, L!Begin(t) PROVE LocksInv'
<1>1. PICK p : p = L!Plan(Command[t])
  OBVIOUS
<1>2. /\ p \in Seq(LockRow) /\ (Command[t].kind # "ruling" => Ascending(p))
      /\ \A i \in DOMAIN p : Plans(Command[t], p[i])
      /\ Command[t].kind = "retire" => Len(p) <= 1
  BY <1>1, PlanAscends
<1>3. /\ state[t] = "idle" /\ state' = [state EXCEPT ![t] = "open"]
      /\ left' = [left EXCEPT ![t] = p] /\ held' = held /\ held[t] = {}
  BY <1>1 DEF L!Begin, LocksInv
<1>4. /\ left'[t] = p /\ state'[t] = "open"
      /\ \A u \in Call \ {t} : left'[u] = left[u] /\ state'[u] = state[u]
  BY <1>3 DEF LocksInv
<1>5. ASSUME NEW u \in Call
      PROVE  /\ Command[u].kind # "ruling" => Climbs(u)'
             /\ Rightful(u)'
             /\ Command[u].kind = "retire" =>
                  left'[u] = <<>> \/ (held'[u] = {} /\ Len(left'[u]) <= 1)
             /\ state'[u] = "idle" => left'[u] = <<>> /\ held'[u] = {}
  <2>1. CASE u = t
    <3>1. left'[u] = p /\ held'[u] = {} /\ state'[u] = "open"
      BY <1>3, <1>4, <2>1
    <3>2. Command[u].kind # "ruling" => Climbs(u)'
      BY <1>2, <2>1, <3>1 DEF Climbs, Ascending
    <3>3. Rightful(u)'
      BY <1>2, <2>1, <3>1 DEF Rightful, Owns
    <3> QED
      BY <1>2, <2>1, <3>1, <3>2, <3>3
  <2>2. CASE u # t
    <3>1. left'[u] = left[u] /\ held'[u] = held[u] /\ state'[u] = state[u]
      BY <1>3, <1>4, <2>2
    <3> QED
      BY <3>1, Untouched DEF LocksInv
  <2> QED
    BY <2>1, <2>2
<1>6. /\ state' \in [Call -> {"idle", "open", "done", "exhausted"}]
      /\ left' \in [Call -> Seq(LockRow)] /\ held' \in [Call -> SUBSET LockRow]
  BY <1>2, <1>3 DEF LocksInv
<1> QED
  BY <1>3, <1>5, <1>6 DEF LocksInv

(* The shares of a listing that a purchase has locked.                     *)
LEMMA SharesRows ==
  ASSUME NEW t \in Call, NEW row \in LockRow, Owns(t, row),
         NEW shares \in L!Snapshots(Command[t], row)
  PROVE  /\ shares \in Seq(LockRow)
         /\ \A i \in DOMAIN shares : shares[i][1] = "share"
         /\ shares = <<>> \/ (Command[t].kind = "checkout" /\ row[1] = "listing")
         /\ \A i \in DOMAIN shares : \E ids \in Images[row[2]] : shares[i][2] \in L!ToSet(ids)
<1>1. CASE Command[t].kind = "checkout" /\ row[1] = "listing"
  <2>1. PICK ids \in Images[row[2]] : shares = L!Rows("share", ids)
    BY <1>1 DEF L!Snapshots
  <2>2. row[2] \in L!ToSet(Command[t].listings)
    BY <1>1 DEF Owns, Plans
  <2>3. PICK i \in DOMAIN Command[t].listings : row[2] = Command[t].listings[i]
    BY <2>2 DEF L!ToSet
  <2>4. ids \in Seq(Nat)
    BY <2>1, <2>3, LocksAssumption
  <2>5. /\ shares \in Seq(LockRow) /\ Len(shares) = Len(ids)
        /\ \A j \in 1..Len(ids) : shares[j] = <<"share", ids[j]>>
    BY <2>1, <2>4, RowsSeq
  <2>6. DOMAIN shares = 1..Len(ids) /\ DOMAIN ids = 1..Len(ids)
    BY <2>4, <2>5
  <2>7. \A j \in DOMAIN shares : ids[j] \in L!ToSet(ids)
    BY <2>6 DEF L!ToSet
  <2>8. \A j \in DOMAIN shares : shares[j][1] = "share" /\ shares[j][2] = ids[j]
    BY <2>5, <2>6
  <2> QED
    BY <1>1, <2>1, <2>5, <2>7, <2>8
<1>2. CASE ~(Command[t].kind = "checkout" /\ row[1] = "listing")
  <2>1. shares = <<>>
    BY <1>2 DEF L!Snapshots
  <2> QED
    BY <2>1
<1> QED
  BY <1>1, <1>2

(* A call that locks the next row of an ascending plan still climbs, and   *)
(* holds a listing alone.                                                  *)
LEMMA LockLocks == ASSUME LocksInv, NEW t \in Call, L!Lock(t) PROVE LocksInv'
<1>1. PICK q : q = left[t]
  OBVIOUS
<1>2. PICK shares \in L!Snapshots(Command[t], Head(q)) : left' = [left EXCEPT ![t] = shares \o Tail(q)]
  BY <1>1 DEF L!Lock, LocksInv
<1>3. /\ q \in Seq(LockRow) /\ q # <<>> /\ state' = state
      /\ held' = [held EXCEPT ![t] = held[t] \cup {Head(q)}]
  BY <1>1 DEF L!Lock, LocksInv
<1>4. /\ Tail(q) \in Seq(LockRow) /\ Head(q) = q[1] /\ q[1] \in LockRow
      /\ Len(Tail(q)) = Len(q) - 1
      /\ DOMAIN Tail(q) = 1..(Len(q) - 1) /\ DOMAIN q = 1..Len(q) /\ 1 \in DOMAIN q
      /\ \A i \in 1..(Len(q) - 1) : Tail(q)[i] = q[i + 1] /\ i + 1 \in DOMAIN q
  BY <1>3
<1>5. Owns(t, q[1]) /\ Rightful(t)
  BY <1>1, <1>4 DEF LocksInv, Rightful
<1>6. /\ shares \in Seq(LockRow)
      /\ \A i \in DOMAIN shares : shares[i][1] = "share"
      /\ shares = <<>> \/ (Command[t].kind = "checkout" /\ q[1][1] = "listing")
      /\ \A i \in DOMAIN shares : \E ids \in Images[q[1][2]] : shares[i][2] \in L!ToSet(ids)
  BY <1>2, <1>4, <1>5, SharesRows
<1>7. PICK p : p = shares \o Tail(q)
  OBVIOUS
<1>8. /\ p \in Seq(LockRow) /\ DOMAIN p = 1..Len(shares) + (Len(q) - 1)
      /\ \A i \in 1..Len(shares) : p[i] = shares[i]
      /\ \A i \in DOMAIN p \ (1..Len(shares)) :
           /\ i - Len(shares) \in 1..(Len(q) - 1)
           /\ p[i] = q[i - Len(shares) + 1] /\ i - Len(shares) + 1 \in DOMAIN q
  <2>1. p \in Seq(LockRow) /\ Len(p) = Len(shares) + (Len(q) - 1)
    BY <1>4, <1>6, <1>7
  <2>2. \A i \in 1..Len(shares) : p[i] = shares[i]
    BY <1>4, <1>6, <1>7
  <2>3. ASSUME NEW i \in DOMAIN p \ (1..Len(shares))
        PROVE  /\ i - Len(shares) \in 1..(Len(q) - 1)
               /\ p[i] = q[i - Len(shares) + 1] /\ i - Len(shares) + 1 \in DOMAIN q
    <3>1. /\ i \in Nat /\ i > Len(shares) /\ i - Len(shares) \in 1..(Len(q) - 1)
      BY <1>3, <1>6, <2>1
    <3>2. p[i] = Tail(q)[i - Len(shares)]
      BY <1>4, <1>6, <1>7, <3>1
    <3> QED
      BY <1>4, <3>1, <3>2
  <2> QED
    BY <2>1, <2>2, <2>3
<1>9. /\ left'[t] = p /\ held'[t] = held[t] \cup {q[1]}
      /\ \A u \in Call \ {t} : left'[u] = left[u] /\ held'[u] = held[u]
  BY <1>2, <1>3, <1>4, <1>7 DEF LocksInv
<1>10. \A i \in DOMAIN p : p[i][1] = "share" \/ i \notin 1..Len(shares)
  BY <1>6, <1>8
<1>11. ASSUME Command[t].kind # "ruling" PROVE Climbs(t)'
  <2>1. Ascending(q) /\ \A r \in held[t], i \in DOMAIN q : Before(r, q[i])
    BY <1>1, <1>11 DEF LocksInv, Climbs
  <2>2. ASSUME NEW i \in DOMAIN p, NEW j \in DOMAIN p, i < j PROVE Before(p[i], p[j])
    <3>1. CASE i \in 1..Len(shares) \/ j \in 1..Len(shares)
      BY <1>10, <3>1 DEF Before
    <3>2. CASE i \notin 1..Len(shares) /\ j \notin 1..Len(shares)
      <4>1. i \in Nat /\ j \in Nat /\ Len(shares) \in Nat
        BY <1>3, <1>6, <1>8
      <4>2. i - Len(shares) + 1 < j - Len(shares) + 1
        BY <2>2, <4>1
      <4> QED
        BY <1>8, <2>1, <3>2, <4>2 DEF Ascending
    <3> QED
      BY <3>1, <3>2
  <2>3. ASSUME NEW r \in held[t] \cup {q[1]}, NEW i \in DOMAIN p PROVE Before(r, p[i])
    <3>1. CASE i \in 1..Len(shares)
      BY <1>10, <3>1 DEF Before
    <3>2. CASE i \notin 1..Len(shares)
      <4>1. i - Len(shares) + 1 > 1
        BY <1>3, <1>8, <3>2
      <4> QED
        BY <1>4, <1>8, <2>1, <3>2, <4>1 DEF Ascending
    <3> QED
      BY <3>1, <3>2
  <2> QED
    BY <1>9, <2>2, <2>3 DEF Climbs, Ascending
<1>12. Rightful(t)'
  <2>1. \A r : Owns(t, r) => Owns(t, r)'
    BY <1>9 DEF Owns, Shared
  <2>2. \A r \in held[t] \cup {q[1]} : Owns(t, r)'
    BY <1>5, <2>1 DEF Rightful
  <2>3. ASSUME NEW i \in DOMAIN p PROVE Owns(t, p[i])'
    <3>1. CASE i \in 1..Len(shares)
      <4>1. i \in DOMAIN shares /\ p[i] = shares[i]
        BY <1>6, <1>8, <3>1
      <4>2. Command[t].kind = "checkout" /\ q[1][1] = "listing"
        BY <1>6, <4>1
      <4>3. q[1] \in held'[t]
        BY <1>9
      <4> QED
        BY <1>6, <4>1, <4>2, <4>3 DEF Owns, Shared
    <3>2. CASE i \notin 1..Len(shares)
      BY <1>1, <1>5, <1>8, <2>1, <3>2 DEF Rightful
    <3> QED
      BY <3>1, <3>2
  <2> QED
    BY <1>9, <2>2, <2>3 DEF Rightful
<1>13. ASSUME NEW u \in Call \ {t}
       PROVE  /\ Command[u].kind # "ruling" => Climbs(u)'
              /\ Rightful(u)'
              /\ Command[u].kind = "retire" =>
                   left'[u] = <<>> \/ (held'[u] = {} /\ Len(left'[u]) <= 1)
  <2>1. left'[u] = left[u] /\ held'[u] = held[u]
    BY <1>9
  <2> QED
    BY <2>1, Untouched DEF LocksInv
<1>14. ASSUME Command[t].kind = "retire" PROVE left'[t] = <<>>
  <2>1. Len(q) <= 1
    BY <1>1, <1>3, <1>14 DEF LocksInv
  <2>2. Len(q) = 1
    BY <1>3, <1>4, <2>1
  <2>3. shares = <<>>
    BY <1>6, <1>14
  <2> QED
    BY <1>4, <1>7, <1>8, <1>9, <2>2, <2>3
<1>15. ASSUME NEW u \in Call \ {t}, q[1][1] = "listing" PROVE q[1] \notin held[u]
  <2>1. ~L!Conflicts(Head(q), q[1]) \/ q[1] \notin held[u]
    BY <1>1 DEF L!Lock, L!Blockers
  <2>2. L!Conflicts(q[1], q[1])
    BY <1>15 DEF L!Conflicts
  <2> QED
    BY <1>4, <2>1, <2>2
<1>16. ASSUME NEW u \in Call, NEW v \in Call, NEW r \in LockRow,
              u # v, r \in held'[u], r[1] = "listing"
       PROVE  r \notin held'[v]
  BY <1>9, <1>15, <1>16 DEF LocksInv
<1>17. /\ left' \in [Call -> Seq(LockRow)] /\ held' \in [Call -> SUBSET LockRow]
       /\ \A u \in Call : state[u] = "idle" => left'[u] = <<>> /\ held'[u] = {}
  <2>1. state[t] # "idle"
    BY <1>1, <1>3 DEF LocksInv
  <2> QED
    BY <1>2, <1>3, <1>4, <1>7, <1>8, <1>9, <2>1 DEF LocksInv
<1> QED
  BY <1>3, <1>11, <1>12, <1>13, <1>14, <1>16, <1>17 DEF LocksInv

LEMMA NextLocks == LocksInv /\ [L!Next]_(L!vars) => LocksInv'
<1> SUFFICES ASSUME LocksInv, [L!Next]_(L!vars) PROVE LocksInv'
  OBVIOUS
<1>0. CASE UNCHANGED L!vars
  BY <1>0 DEF L!vars, LocksInv, Climbs, Ascending, Rightful, Owns, Shared
<1>1. ASSUME NEW t \in Call, L!Commit(t) PROVE LocksInv'
  <2>1. left' = [left EXCEPT ![t] = <<>>]
    BY <1>1 DEF L!Commit, LocksInv
  <2> QED
    BY <1>1, <2>1, Empties DEF L!Commit
<1>2. ASSUME NEW t \in Call, L!Abort(t) PROVE LocksInv'
  <2>1. /\ left' = [left EXCEPT ![t] = <<>>] /\ held' = [held EXCEPT ![t] = {}]
        /\ \E s \in {"idle", "exhausted"} : state' = [state EXCEPT ![t] = s]
    BY <1>2 DEF L!Abort, L!Retry
  <2> QED
    BY <2>1, Empties
<1> QED
  BY <1>0, <1>1, <1>2, BeginLocks, LockLocks DEF L!Next, L!Step, L!BreakDeadlock, L!TimeOut

-----------------------------------------------------------------------------
(* Whoever stands in the way of a call without either naming an image that *)
(* the other shares, and climbs itself, waits for a row above the one the  *)
(* call waits for. The media worker stands in nobody's way while it waits. *)
Wanted(t) == Head(left[t])

Apart(t, u) == ~L!Misnames(t, u) /\ ~L!Misnames(u, t)

LEMMA WantedRow ==
  ASSUME LocksInv, NEW t \in Call, left[t] # <<>>
  PROVE  Wanted(t) \in LockRow /\ Wanted(t) = left[t][1] /\ 1 \in DOMAIN left[t]
BY DEF LocksInv, Wanted

(* Who holds or waits for a share, and who for the asset itself.           *)
LEMMA ShareMeetsAsset ==
  ASSUME LocksInv, NEW t \in Call, NEW u \in Call, t # u, NEW r, NEW s, r[2] = s[2],
         r[1] = "asset", s[1] = "share", Owns(t, r), Owns(u, s)
  PROVE  L!Misnames(t, u) \/ Command[t].kind = "retire"
<1>1. Command[t].kind \in {"edit", "publish", "retire"} /\ r[2] \in Command[t].assets
  BY DEF Owns, Plans
<1>2. Shared(u, s)
  BY DEF Owns, Plans
<1>3. PICK row \in held[u] : /\ row[1] = "listing"
                             /\ \E ids \in Images[row[2]] : s[2] \in L!ToSet(ids)
  BY <1>2 DEF Shared
<1>4. row \in LockRow /\ row \notin held[t]
  BY <1>3 DEF LocksInv
<1> QED
  BY <1>1, <1>2, <1>3, <1>4 DEF L!Misnames, Shared

LEMMA BlockerHigher ==
  ASSUME LocksInv, NEW t \in Call, NEW u \in L!Blockers(t), Command[u].kind # "ruling",
         Apart(t, u), held[t] # {}, left[u] # <<>>
  PROVE  /\ Wanted(t) \in LockRow /\ Wanted(u) \in LockRow
         /\ Below(Wanted(t), Wanted(u))
<1>1. PICK r \in held[u] : /\ u \in Call /\ u # t /\ left[t] # <<>>
                           /\ L!Conflicts(Wanted(t), r)
  BY DEF L!Blockers, Wanted
<1>2. /\ Wanted(t) \in LockRow /\ Wanted(t) = left[t][1] /\ 1 \in DOMAIN left[t]
      /\ Wanted(u) \in LockRow /\ Wanted(u) = left[u][1] /\ 1 \in DOMAIN left[u]
      /\ r \in LockRow
  BY <1>1, WantedRow DEF LocksInv
<1>3. Owns(t, Wanted(t)) /\ Owns(u, r) /\ Owns(u, Wanted(u))
  BY <1>1, <1>2 DEF LocksInv, Rightful
<1>4. Command[t].kind # "retire" /\ Command[u].kind # "retire"
  BY <1>1 DEF LocksInv
<1>5. /\ Wanted(t)[2] = r[2]
      /\ \/ Wanted(t)[1] = "listing" /\ r[1] = "listing"
         \/ Wanted(t)[1] = "asset" /\ r[1] = "asset"
         \/ Wanted(t)[1] = "asset" /\ r[1] = "share"
         \/ Wanted(t)[1] = "share" /\ r[1] = "asset"
  <2>1. /\ Wanted(t)[2] = r[2]
        /\ {Wanted(t)[1], r[1]} \in {{"listing"}, {"asset"}, {"asset", "share"}}
    BY <1>1 DEF L!Conflicts
  <2>2. ASSUME NEW a, NEW b, {a, b} \in {{"listing"}, {"asset"}, {"asset", "share"}}
        PROVE  \/ a = "listing" /\ b = "listing"
               \/ a = "asset" /\ b = "asset"
               \/ a = "asset" /\ b = "share"
               \/ a = "share" /\ b = "asset"
    <3>1. "listing" # "asset" /\ "asset" # "share" /\ "listing" # "share"
      OBVIOUS
    <3> QED
      BY <2>2, <3>1, Zenon
  <2> QED
    BY <2>1, <2>2
<1>6. ~(Wanted(t)[1] = "asset" /\ r[1] = "share") /\ ~(Wanted(t)[1] = "share" /\ r[1] = "asset")
  BY <1>1, <1>3, <1>4, <1>5, ShareMeetsAsset DEF Apart
<1>7. Wanted(t) = r
  BY <1>2, <1>5, <1>6 DEF LockRow
<1>8. Before(r, Wanted(u))
  BY <1>1, <1>2 DEF LocksInv, Climbs
<1>9. Wanted(u)[1] = "share" => r[1] = "listing"
  BY <1>3, <1>5, <1>6 DEF Owns, Plans, Shared
<1> QED
  BY <1>2, <1>5, <1>6, <1>7, <1>8, <1>9 DEF Before, Below

(* Only the ruling on a replacement and a request that names an image of   *)
(* another's listing can close a circle of waiting calls, for any calls,   *)
(* plans, images and numbers of attempts: every other command locks its    *)
(* listings before its images and each in the order of their ids           *)
(* (order-commands.ts createCheckout, lock-media-assets.ts), and what a    *)
(* purchase shares is nobody else's to lock. The ruling takes its own      *)
(* listing first (listing-review.controller.ts).                           *)
THEOREM CirclesHaveCauseHolds == L!Spec => []CirclesHaveCause
<1>1. LocksInv => CirclesHaveCause
  <2> SUFFICES ASSUME LocksInv, NEW t \in Call, t \in L!WaitsFor(t),
                      \A u \in L!WaitsFor(t) : Command[u].kind # "ruling",
                      \A u, v \in L!WaitsFor(t) : ~L!Misnames(u, v)
               PROVE  FALSE
    BY DEF CirclesHaveCause, L!CirclesHaveCause, L!Deadlocked
  <2>1. PICK chain : /\ Chained(t, chain, Cardinality(Call))
                     /\ L!WaitsFor(t) = UNION {chain[n] : n \in DOMAIN chain}
    BY ChainOf
  <2>2. PICK K \in Nat : K = Cardinality(Call)
    BY LocksAssumption, FS_CardinalityType
  <2>3. /\ DOMAIN chain = 1..K
        /\ \A n \in 1..K : chain[n] = IF n = 1 THEN L!Blockers(t) ELSE Beyond(chain[n - 1])
    BY <2>1, <2>2 DEF Chained
  <2>4. \A n \in 1..K : chain[n] \subseteq L!WaitsFor(t)
    BY <2>1, <2>3
  <2>a. \A u \in L!WaitsFor(t) : held[u] # {}
    <3> SUFFICES ASSUME NEW n \in 1..K, NEW u \in chain[n] PROVE held[u] # {}
      BY <2>1, <2>3
    <3>1. u \in L!Blockers(t) \/ u \in Beyond(chain[n - 1])
      BY <2>3
    <3>2. \E v : u \in L!Blockers(v)
      BY <3>1, Zenon DEF Beyond
    <3> QED
      BY <3>2 DEF L!Blockers
  <2>b. \A u, v \in L!WaitsFor(t) : Apart(u, v)
    BY DEF Apart
  <2> DEFINE Higher(u) == left[u] # <<>> => /\ Wanted(t) \in LockRow /\ Wanted(u) \in LockRow
                                            /\ Below(Wanted(t), Wanted(u))
             Up(u) == u \in Call /\ left[t] # <<>> /\ Higher(u)
             N == {n \in 1..K : \E u \in chain[n] : ~Up(u)}
  <2>5. N = {}
    <3> SUFFICES ASSUME N # {} PROVE FALSE
      OBVIOUS
    <3>1. PICK n \in N : \A k \in N : n <= k
      <4>1. N \in SUBSET Nat
        OBVIOUS
      <4> HIDE DEF N
      <4> QED
        BY <4>1, LeastNumber
    <3>2. n \in 1..K /\ n \in Nat
      OBVIOUS
    <3>3. PICK u \in chain[n] : ~Up(u)
      OBVIOUS
    <3>4. Command[u].kind # "ruling" /\ u \in L!WaitsFor(t)
      BY <2>4, <3>2
    <3>5. CASE n = 1
      <4>1. u \in L!Blockers(t)
        BY <2>3, <3>2, <3>5
      <4>2. u \in Call /\ left[t] # <<>>
        BY <4>1 DEF L!Blockers
      <4> QED
        BY <2>a, <2>b, <3>3, <3>4, <4>1, <4>2, BlockerHigher
    <3>6. CASE n # 1
      <4>1. n - 1 \in 1..K /\ n - 1 \notin N
        BY <3>1, <3>2, <3>6
      <4>2. PICK v \in chain[n - 1] : u \in L!Blockers(v)
        <5>1. u \in Beyond(chain[n - 1])
          BY <2>3, <3>2, <3>6
        <5> QED
          BY <5>1, Zenon DEF Beyond
      <4>3. Up(v)
        BY <4>1
      <4>4. u \in Call /\ left[v] # <<>> /\ v \in Call /\ v \in L!WaitsFor(t)
        BY <2>4, <4>1, <4>2, <4>3 DEF L!Blockers
      <4>5. Higher(u)
        BY <2>a, <2>b, <3>4, <4>2, <4>3, <4>4, BlockerHigher, BelowOrders
      <4> QED
        BY <3>3, <4>3, <4>4, <4>5
    <3> QED
      BY <3>5, <3>6
  <2>6. PICK n \in 1..K : t \in chain[n]
    BY <2>1, <2>3
  <2>7. Up(t)
    BY <2>5, <2>6
  <2> QED
    BY <2>7, BelowOrders
<1> QED
  BY <1>1, InitLocks, NextLocks, PTL DEF L!Spec
=============================================================================
