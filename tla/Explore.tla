------------------------------ MODULE Explore ------------------------------
(***************************************************************************)
(* Exchange rates and the catalogue page that is sorted by them. Snapshots *)
(* in the database are good for an hour; every API process has one refresh *)
(* at a time, which all callers that found no good snapshot share. The     *)
(* page has a filter and a page number in its URL, and the pages of one    *)
(* list have to be sorted by the same snapshot. Each reader has a browser  *)
(* window.                                                                 *)
(***************************************************************************)
EXTENDS Naturals, FiniteSets

CONSTANTS
  Caller,
  Instance,      \* API processes
  MaxSnapshots,  \* bound
  Filter,        \* keyword and category, as far as they tell lists apart
  MaxPage        \* bound: pages of a list

VARIABLES
  rates,   \* RateSnapshot rows, by the order of fetchedAt
  pending, \* RatesService.pending
  ask,     \* calls of quote
  at,      \* what the URL says: filter, sort, page and quote
  kept,    \* useBackendListings.quote
  fetch,   \* its request in flight
  shown    \* the items on show, by what they were asked with

rateVars == <<rates, pending, ask>>
readerVars == <<at, kept, fetch, shown>>
vars == <<rateVars, readerVars>>

-----------------------------------------------------------------------------
(* The rates. *)

Snapshot == 1..MaxSnapshots
NoQuote == 0 \* as an answer: FX_UNAVAILABLE or FX_SNAPSHOT_EXPIRED
NoAsk == [step |-> "idle", at |-> CHOOSE i \in Instance : TRUE,
          id |-> NoQuote, quote |-> NoQuote]

RatesTypeOK ==
  /\ rates \in [Snapshot -> {"none", "fresh", "expired"}]
  /\ pending \in [Instance -> [state : {"none", "loading", "loaded", "failed"},
                               quote : Snapshot \cup {NoQuote}]]
  /\ ask \in [Caller -> [step : {"idle", "look", "join", "wait", "done"},
                         at : Instance, id : Snapshot \cup {NoQuote},
                         quote : Snapshot \cup {NoQuote}]]

RatesInit ==
  /\ rates = [s \in Snapshot |-> "none"]
  /\ pending = [i \in Instance |-> [state |-> "none", quote |-> NoQuote]]
  /\ ask = [c \in Caller |-> NoAsk]

Good == {s \in Snapshot : rates[s] = "fresh"}
Newest(S) == CHOOSE s \in S : \A t \in S : t <= s
Answered(c, q) == ask' = [ask EXCEPT ![c].step = "done", ![c].quote = q]

Age(s) ==
  /\ rates[s] = "fresh"
  /\ rates' = [rates EXCEPT ![s] = "expired"]
  /\ UNCHANGED <<pending, ask>>

(* Fault: a snapshot that has grown too old is replaced by the newest.     *)
LookUpNewest(c) ==
  /\ ask[c].step = "look"
  /\ CASE ask[c].id \in Good -> Answered(c, ask[c].id)
       [] ask[c].id \notin Good /\ Good # {} -> Answered(c, Newest(Good))
       [] OTHER -> ask' = [ask EXCEPT ![c].step = "join"]
  /\ UNCHANGED <<rates, pending>>

LookUp(c) ==
  /\ ask[c].step = "look"
  /\ CASE ask[c].id # NoQuote ->
            Answered(c, IF ask[c].id \in Good THEN ask[c].id ELSE NoQuote)
       [] ask[c].id = NoQuote /\ Good # {} -> Answered(c, Newest(Good))
       [] OTHER -> ask' = [ask EXCEPT ![c].step = "join"]
  /\ UNCHANGED <<rates, pending>>

Refresh(c) ==
  LET i == ask[c].at IN
  /\ ask[c].step = "join"
  /\ ask' = [ask EXCEPT ![c].step = "wait"]
  /\ pending' = IF pending[i].state # "none" THEN pending
                ELSE [pending EXCEPT ![i].state = "loading"]
  /\ UNCHANGED rates

Load(i) ==
  /\ pending[i].state = "loading"
  /\ \/ \E s \in Snapshot :
          /\ rates[s] = "none" /\ \A t \in Snapshot : t < s => rates[t] # "none"
          /\ rates' = [rates EXCEPT ![s] = "fresh"]
          /\ pending' = [pending EXCEPT ![i] = [state |-> "loaded", quote |-> s]]
     \/ /\ pending' = [pending EXCEPT ![i] = [state |-> "failed", quote |-> NoQuote]]
        /\ UNCHANGED rates
  /\ UNCHANGED ask

Tell(i) ==
  ask' = [c \in Caller |->
    IF ask[c].step = "wait" /\ ask[c].at = i
      THEN [ask[c] EXCEPT !.step = "done", !.quote = pending[i].quote]
      ELSE ask[c]]

Settle(i) ==
  /\ pending[i].state \in {"loaded", "failed"}
  /\ Tell(i)
  /\ pending' = [pending EXCEPT ![i] = [state |-> "none", quote |-> NoQuote]]
  /\ UNCHANGED rates

Quoting(c) == LookUp(c) \/ Refresh(c)
Refreshing(i) == Load(i) \/ Settle(i)

-----------------------------------------------------------------------------
(* The page. *)

Sort == {"newest", "price", "native"} \* native: a price within one currency
Key == [filter : Filter, sort : Sort]
Nothing == [key |-> CHOOSE k \in Key : TRUE, page |-> 0, quote |-> NoQuote]
Place == [key : Key, page : 0..MaxPage, quote : Snapshot \cup {NoQuote}]

TypeOK ==
  /\ RatesTypeOK
  /\ at \in [Caller -> Place]
  /\ kept \in [Caller -> [key : Key, quote : Snapshot \cup {NoQuote}]]
  /\ fetch \in [Caller -> Place \cup {Nothing}]
  /\ shown \in [Caller -> [key : Key, page : 0..MaxPage,
                           quote : Snapshot \cup {NoQuote}, error : BOOLEAN]]

NothingKept == [key |-> Nothing.key, quote |-> NoQuote]

Init ==
  /\ RatesInit
  /\ at = [c \in Caller |-> Nothing]
  /\ kept = [c \in Caller |-> NothingKept]
  /\ fetch = [c \in Caller |-> Nothing]
  /\ shown = [c \in Caller |-> [key |-> Nothing.key, page |-> 0,
                                quote |-> NoQuote, error |-> FALSE]]

-----------------------------------------------------------------------------
(* The quote kept for a request: none for a first page, a linked one else. *)
Keep(c, p) ==
  CASE p.page = 1 -> NothingKept
    [] p.page > 1 /\ p.key.sort # "newest" /\ p.quote # NoQuote ->
         [key |-> p.key, quote |-> p.quote]
    [] OTHER -> kept[c]

Requested(k, p) ==
  [p EXCEPT !.quote = IF p.page > 1 /\ p.key.sort # "newest" /\ k.key = p.key
                        THEN k.quote ELSE NoQuote]

(* The effect for a new query; the request before is cancelled.            *)
Go(c, p) ==
  LET k == Keep(c, p)
      r == Requested(k, p)
  IN
  /\ p # at[c]
  /\ at' = [at EXCEPT ![c] = p]
  /\ kept' = [kept EXCEPT ![c] = k]
  /\ fetch' = [fetch EXCEPT ![c] = r]
  /\ ask' = [ask EXCEPT ![c] = NoAsk]
  /\ UNCHANGED <<rates, pending, shown>>

Choose(c, k) == Go(c, [key |-> k, page |-> 1, quote |-> NoQuote])

Loading(c) == fetch[c].page > 0

(* updateFilter with another page: the quote goes into the URL.            *)
TurnPage(c, n) ==
  /\ at[c].page > 0 /\ n # at[c].page /\ ~Loading(c)
  /\ Go(c, [at[c] EXCEPT !.page = n, !.quote =
             IF n > 1 /\ at[c].key.sort # "newest" THEN kept[c].quote ELSE NoQuote])

(* Back, forward and links: any page with any quote of the past.           *)
OpenLink(c, p) ==
  /\ p.page > 1
  /\ p.quote # NoQuote => rates[p.quote] # "none" /\ p.key.sort = "price"
  /\ Go(c, p)

-----------------------------------------------------------------------------
Refused(p) ==
  \/ p.key.sort = "newest" /\ p.quote # NoQuote
  \/ p.key.sort = "price" /\ p.page > 1 /\ p.quote = NoQuote

Native(p) == p.key.sort = "native" /\ p.quote = NoQuote

Show(c, q, failed) ==
  /\ shown' = [shown EXCEPT ![c] = IF failed THEN [@ EXCEPT !.error = TRUE]
       ELSE [key |-> fetch[c].key, page |-> fetch[c].page, quote |-> q,
             error |-> FALSE]]
  /\ kept' = IF failed \/ q = NoQuote THEN kept
             ELSE [kept EXCEPT ![c] = [key |-> fetch[c].key, quote |-> q]]
  /\ fetch' = [fetch EXCEPT ![c] = Nothing]
  /\ UNCHANGED at

(* list: refused, answered without rates, or quoted.                       *)
Search(c) ==
  /\ Loading(c) /\ ask[c].step = "idle"
  /\ \/ Refused(fetch[c]) /\ Show(c, NoQuote, TRUE) /\ UNCHANGED ask
     \/ /\ ~Refused(fetch[c])
        /\ fetch[c].key.sort = "newest" \/ Native(fetch[c])
        /\ Show(c, NoQuote, FALSE) /\ UNCHANGED ask
     \/ /\ ~Refused(fetch[c])
        /\ fetch[c].key.sort # "newest" /\ ~Native(fetch[c])
        /\ \E i \in Instance :
             ask' = [ask EXCEPT ![c] = [step |-> "look", at |-> i,
                                        id |-> fetch[c].quote, quote |-> NoQuote]]
        /\ UNCHANGED readerVars
  /\ UNCHANGED <<rates, pending>>

Receive(c) ==
  /\ Loading(c) /\ ask[c].step = "done"
  /\ Show(c, ask[c].quote, ask[c].quote = NoQuote)
  /\ ask' = [ask EXCEPT ![c] = NoAsk]
  /\ UNCHANGED <<rates, pending>>

Lose(c) ==
  /\ Loading(c)
  /\ Show(c, NoQuote, TRUE)
  /\ ask' = [ask EXCEPT ![c] = NoAsk]
  /\ UNCHANGED <<rates, pending>>

Next ==
  \/ \E s \in Snapshot : Age(s) /\ UNCHANGED readerVars
  \/ \E i \in Instance : Refreshing(i) /\ UNCHANGED readerVars
  \/ \E c \in Caller :
       \/ Quoting(c) /\ UNCHANGED readerVars
       \/ \E k \in Key : Choose(c, k)
       \/ \E n \in 1..MaxPage : TurnPage(c, n)
       \/ \E p \in Place : OpenLink(c, p)
       \/ Search(c) \/ Receive(c) \/ Lose(c)

Spec == Init /\ [][Next]_vars

-----------------------------------------------------------------------------
(* Turning the pages of a list that is sorted by converted prices never    *)
(* sorts the next page by other rates: an old snapshot is an error.        *)
PagesShareRates ==
  [][\A c \in Caller :
       LET old == shown[c]
           new == shown'[c]
       IN  /\ old.page > 0 /\ ~old.error /\ new # old /\ ~new.error
           /\ new.key = old.key /\ new.key.sort = "price" /\ new.page > 1
           /\ at[c].quote = kept[c].quote
         => new.quote = at[c].quote]_vars
=============================================================================
