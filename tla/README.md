# Bazaar: a TLA+ model of the marketplace

Bazaar (`src/`) is a marketplace: a Next.js front end, a NestJS back end with
Prisma on PostgreSQL, an S3-like object store for media, and a mail and a
Google login provider. Sellers list physical articles, one-copy downloads and
unlimited downloads; buyers order them, pay (simulated settlement records),
receive, accept or dispute; administrators review listings and rule on
disputes. This directory holds TLA+ modules of the program's core logic, TLC
configurations that check them on small instances, and TLAPS proofs that hold
for every value of the constants.

Paths below are relative to `src/`; OC is `backend/src/orders/order-commands.ts`,
LR is `backend/src/listings/listing-review.controller.ts`, LS is
`backend/src/listings/listing.service.ts`.

## 1. Inventory

| Component | State | Operations | Hard behaviour | What makes it correct | Modules |
|---|---|---|---|---|---|
| Order commands (OC, `order.controller.ts`, `dispute.controller.ts`) | Order, snapshot, reservation, inventory, deliveries, issue, refund request, settlement records, events | create, createCheckout, nine participant actions, resolveDispute, expiry of one order | two buyers and one copy; pay against expiry; refund, accept and ruling on one dispute; carts that fail half-way; zero prices | one copy in one hand; money matches status; child rows agree; closed stays closed | `Marketplace`, `OrderCommands`, `Market`, `OrderDesk` |
| Listings (LS, `listing-commands.ts`, `product-commitment.ts`) | Listing, inventory row | create, replace, edit, publish, withdraw | unlocked read of the replaced listing; edit against orders | a replaced one-off article is not sold twice | `ListingReview` |
| Listing review (LR) | review status, pending flag, review events, pauses of orders | report, dismiss, pause, source response, review, resolveAffectedOrder | freezing open orders while they move; overwriting stock unseen | freezing is exact; a frozen order stands; it has an exit | `ListingReview`, `OrderDesk` |
| Order expiry timer (`order-expiry.ts`, OC 583-671) | cursor and running flag of each process | sweep a page, expire each candidate, abort, restart | cursor rows that changed, failing rows, two processes | every overdue order expires in the end | `OrderSweep` |
| Idempotency (`order-idempotency.ts`) and retries (`database/transaction.ts`) | CommandKey rows, commits, row locks | insert or lock the key, replay, execute, retry on conflict | duplicates, lost answers, promotions, deadlocks | a command takes effect at most once, its answer is durable, every call ends | `CommandLog`, `OrderTxn`, `RowLocks` |
| Order command hook (`frontend/src/hooks/use-order-command.ts`) and the pages that use it | pending command in session storage, account epoch, cart, dialog | run, retry, drop, confirm, look up, send | unknown outcome, account switch, a cart that changes while a purchase is confirmed | the same key is used until the outcome is known; what is sent is what was confirmed | `OrderClient`, `OrderPages` |
| Database cluster and its drills (`infra/ha/*`, `backend/scripts/ha-auto-*.mjs`) | leader key, sync key, nodes, watchdog | renew, feed, publish, demote, elect, promote, rejoin; kills, freezes, partitions | two primaries; a promotion that misses a confirmed order | one writer; confirmed orders survive | `Cluster` |
| Media (`media/media.service.ts`) with archive and orphan workers | MediaAsset rows, staging, hot and cold objects, leases | intent, complete, attach, snapshot; archive, expire, retire, reconcile | concurrent completions; crash between store and switch; a stale check before a delete | no object a row names is deleted; the rest is swept; due images are archived | `Media` |
| Authentication and identities (`auth/*`, `accounts/*`) | accounts, identities, Gmail claims, sessions, codes, attempts, rate buckets | password login, logout, reset, provisioning, e-mail request and verify, Google start and complete, bind, register, migrate | reset during a login; two ways to one address; code replaced while it is tried; repeated callbacks; the session changing between the proof of an account and the code or callback | one claim per address; sessions stand on the current password; a proof works once; an identity is linked to the account that proved itself for it; windows hold | `Identities`, `SignIn`, `Codes`, `IdentityForms` |
| Seller reviews, balances | rating of an order | review, read | double submission; refunds and releases | only completed orders, once; the books close | `OrderDesk` |
| Exchange rates (`pricing/rates.service.ts`) and the explore page | snapshots, pending refresh, page and quote of the reader | quote, refresh, search, turn the page | single flight; a quote that expires between pages | the pages of a list are sorted by one snapshot | `Explore` |
| Request admission (`common/request-admission.ts`) | set of accepted requests | acquire, release | abandoned requests | the bound holds | `Admission` |
| Session and private pages of a tab (`use-auth-store.ts`, `authenticated-api.ts`, `use-api-resource.ts`) | view, generation, requests in flight, result | restore, sign in and out, read, poll, reload | late answers, another tab's cookie | private data is shown to whom it belongs | `Tab` |
| Favorites (`use-local-storage.ts`, `resolved-favorites.ts`) | list in localStorage, shared jobs | toggle, hear, subscribe, release | late storage events; shared abort | tabs agree; nobody is cut off | `Favorites`, `Resolutions` |
| Pages of the market (`lib/order-api.ts`, `me/orders`, `disputes`, `admin`, catalogue) | what a row offers to whom | list, show, offer a button | the page decides by one row, the handler by another | nothing is handled that no page offers, and the reverse is listed below | `Shopfront` |
| Page of one order (`me/orders/[id]/page.tsx`) | order, history and balances read separately | poll, reload after a command or a status change | a new status above old records | the records catch up with the status | `OrderView` |
| Forms of a listing (`publish-form.tsx`, `backend-listings.tsx`, `buy-modal.tsx`, `product-commitment.ts`) | draft of a form, row, what a buyer has on show | fill, switch tab, submit, open an editor, save, confirm, buy | hidden fields still sent; an edit between look and lock | the API takes what the forms let through; an order copies what was shown | `Publishing` |
| Scripts and tests (`backend/scripts/*`) | markets they seed, progress, assertions | acceptance journeys, write workloads, cluster drills | late and repeated requests; rows written past the handlers | what a script asserts holds in every interleaving | `Journeys`, `Workload`, `Drills` |
| Schema and migrations (`backend/prisma`) | tables, CHECKs, unique indexes, triggers | - | - | the checks and indexes handlers lean on are guards of the actions | `Marketplace`, partly |
| Input, money and errors (`common/*`) | none | parse, round, format, map errors | - | - | not modelled: no state; what the product commitment parser refuses is in `Publishing` |
| Rendering, wording, layout, start and stop, backups | none the rules speak of | - | - | - | not modelled |

How they interact. All back-end components share PostgreSQL and nothing else;
the exceptions are local to a process: the pending refresh of the rates, the
slots of requests, the gate on password hashes, the cursor of the timer. An
order or listing handler is one READ COMMITTED transaction inside `transact`;
its first write lock is the row of the listing (`lockListing`), and orders are
locked after it. Order commands run inside the idempotency wrapper, which
inserts the key row first. A listing's review reaches over to its orders
(pause, resume, resolve); a checkout looks at the review and the commitment of
its listing. The timer runs in every API process and uses the same locks. Media
rows are tied to listings when these are written and to order snapshots at
checkout; the media worker is a process of its own. The browser talks to the
API by requests that may be lost, late or repeated: the command hook keeps a key
until it knows the outcome, the session store and the private pages drop answers
of an older generation. Under all of it PostgreSQL runs as a cluster with a
synchronous standby whose manager may promote it at any time.

## 2. Modules

| Module | Models |
|---|---|
| `Marketplace` | the shared rows: `listing`, `inventory`, `order` (with the child rows an order owns), `draft` (a create request between its unlocked read and its transaction), and what handlers ask of them |
| `OrderCommands` | every handler of OC that writes, one action each |
| `ListingReview` | creation, replacement, editing and withdrawal of listings, and every handler of LR that writes |
| `Market` | the composition: initial rows, `Next`, `Spec`, the properties, the refinement mapping to `Trade` |
| `Trade` | abstract: orders go through phases, a one-off article has at most one owner, a released article is never given away again |
| `OrderDesk` | the market with ratings and balances |
| `Shopfront` | what every page offers for a row, and the dispatch of a request to a handler |
| `OrderView` | the page of one order: three resources, their polling and reloading |
| `Publishing` | the commitment of one listing from the form to the order |
| `OrderSweep` | the payment timer of each API process: page, cursor, failing rows, aborts, restarts |
| `CommandLog` | abstract: a command takes effect at most once, an effect stays, an answer names it |
| `OrderTxn` | `transact` and `withOrderIdempotency` on a replicated database: key rows and their locks, replays, retries, lost connections, restarts, promotions |
| `RowLocks` | the order in which commands lock rows, what the foreign keys of snapshots share, deadlocks and their victims, the number of attempts |
| `OrderClient` | the hook `useOrderCommand` with the request layer and the network |
| `OrderPages` | extends `OrderClient` by the cart, the dialog and the order page that use the hook |
| `Cluster` | nodes, managers, leader and sync key, watchdog, and faults |
| `Drills` | extends `Cluster` by the five drills of the repository's scripts |
| `Journeys` | the seed and three browser scripts as lists of clicks over `Shopfront` |
| `Workload` | the write workloads with lost, late and repeated requests, and their final audit |
| `Media` | images: rows, objects of two stores, uploads and the worker |
| `Identities` | e-mail and Google identities and the claims on addresses |
| `SignIn` | password login, sessions, rate windows, resets |
| `Codes` | mailed codes and Google attempts |
| `IdentityForms` | the forms that register, sign in or link an identity, in the tabs of some browsers, and their endpoints |
| `Explore` | snapshots of exchange rates, and the catalogue page that is sorted by them |
| `Admission` | slots of requests in flight |
| `Tab` | the session and one private page of a tab, under a cookie jar that other tabs write |
| `Favorites`, `Resolutions` | the favorites of all tabs in localStorage; the shared reads of their listings |
| `MCArticles`, `MCMarket`, `MCOrderDesk`, `MCScripts`, `MCOrderTxn`, `MCOrderEnds`, `MCRaces`, `MCSettling`, `MCBrowser` | small instances |
| `MarketProofs`, `DeskProofs`, `OrderTxnProofs`, `OrderEndsProofs`, `MediaProofs`, `IdentityProofs`, `SettlingProofs`, `BrowserProofs` | theorems |

A definition whose comment begins with "Fault:" is a wrong variant of the one
below it, written down to see a property fail; no specification uses it.

### How state and actions correspond to the code

The market.

- One action is one committed transaction. A handler that throws rolls back, so
  its conditions are the guard and its updates the primed variables; every
  handler except one reads what it decides on after locking the listing row,
  so two handlers on one listing are serialised and one step is enough.
- The exception is `create` with a replacement (LS 202-219): it reads the
  replaced listing before it has a lock. `ReadReplaced` is the read, remembered
  in `draft`; `CreateListing` is the transaction that follows, with what it
  checks again.
- The count `lockedLegacy` of `create` (LS 220-224) is also read without a lock.
  It only decides whether a new listing begins paused; it is taken as of the
  commit.
- `Restore` writes the inventory row only, as in OC 439-458.
  `ResolveAffectedOrder` writes the inventory row without looking at it, as in
  LR 283-292: that this never takes another order's stock is `StockLedger`'s
  business, not a guard.
- `version` columns are left out: a caller presents the current version, and a
  stale one is refused without effect.
- Time is left out of `Market`: any unpaid order may expire, since its age is
  arbitrary. Reports outside their window, and the review note of
  `order.controller.ts`, only leave an event.
- All accounts are active; which administrator acts is left out.
- One issue and one refund request per order are all an order can have: an
  issue closes only together with its order, and `RefundRequest.issueId` is
  unique. The `issue` and `request` fields of a row stand for those records.
- An edit is represented in `Market` by what the market can tell apart: the
  commitment and whether the price is zero. The API refuses a zero price; a free
  listing exists from the start (seed data has one, and the CHECK of
  `backend/prisma/migrations/202609190001*` allows it). What the commitment
  says is `Publishing`'s subject, images are `Media`'s.
- Balances count in units of one price per order.
- In `OrderSweep` an order is a row of the table sorted by creation time and
  id. Prisma's cursor is modelled as the code relies on it: the cursor row is
  found whatever its status is now, the filter comes next, and `skip: 1` drops
  the first row that is left, which is a live candidate if the cursor row has
  left the unpaid state. Order ids are used again once no sweep names the row.

Commands, clients and the database.

- `OrderTxn` has a log (`wal`) of committed key rows with their orders, and how
  much of it the standby has applied. A commit is durable when it is applied; an
  answer waits for that (`remote_apply`). `Failover` cuts the log at what is
  applied, `Restart` keeps it; both break every open transaction. A delivery
  whose key is locked waits, as the unique index makes it.
- In `OrderClient` the server is what `OrderTxn` implements: a key is carried
  out at most once, a refusal leaves nothing behind, an error proves nothing.
  `gen` tells one owner object of the hook from another (a sign-in, a sign-out
  and a remount make a new one), `storage` whether sessionStorage takes writes.
- In `Cluster` the steps of a manager are Patroni's, as `infra/HA.md` relies on
  them, and marked external; timers are counted in ticks of which the lease has
  `Ttl`. With `watchdog = "off"` two primaries occur, as HA.md says; with
  "required" the watchdog's timeout of half a lease excludes them. That no
  confirmed order is lost holds in both modes and is what `Failover` of
  `OrderTxn` takes for granted.
- In `RowLocks` a purchase locks a listing, then takes the key share that the
  foreign key of `OrderMediaSnapshot` asks of each image it copies (OC 105-117,
  migration 202610170003), then goes on to the next line. Shares go together and
  exclude the `FOR UPDATE` of `lock-media-assets.ts`. Which images a listing has
  by then is any of `Images`, as edits between two attempts leave them. An edit or a
  publication locks the images it names before it finds out whose they are.
- A drill is a script of phases: it breaks something, waits for what it
  expects, and asserts. The drills run without a watchdog, as
  `infra/compose.ha-auto.yaml` 44-52 sets them up. Their managers are `Prompt`: one
  that runs has renewed its lease or given up before half of it is over, since
  `loop_wait` and `retry_timeout` are less together (`watchdog_policy.py` 20-25;
  the partition drill of `infra/HA.md` 344-345 was read-only with half its lease left). A
  frozen one is not, and what it leads is `Astray` until it has rejoined. Measured
  recovery times are left out, and so is the assertion that the primary does not
  change while replicas are lost (`check-postgres-ha-auto.mjs` 388), which
  depends on timing.
- In `Workload` a request may be answered, lost before it runs, lost after it
  ran, or given up by its client and run later (`late`). Items, accounts and
  prices are abstracted to keys.
- In `Journeys` the scripts share one market, in any interleaving of their
  clicks, each with sellers of its own: a listing under review makes every new
  one-off listing of its seller begin under review.

Media.

- A row is in the database, bytes are in `store` under a key; every call to the
  store or the database is a step, a fault is a failed call or a crash.
- Age is a flag set by `Due`, `Lapse`, `Settle`, `Close`, `AgeAsset` and
  `AgeObject`. An object does not become old while a completion or an archive is
  between its store call and its commit on it (`InUse`): the grace periods are
  far longer than a request or a store call.
- The instances have one worker process, since `archive-order-media` runs alone.
  With two, one could delete an object the other has just named
  (`orphan.service.ts` 84 with `archive.service.ts` 61).

Accounts and sessions.

- An address is a model value with a key (`KeyOf`), which says which spellings
  are one mailbox. Transactions of `Identities` take two locks, the account's row
  and then the key, each in a step of its own; what they do under both is one
  step.
- `SignIn` splits a login into counting, hashing, checking and issuing, since no
  lock is held across the hash; `Issue` looks at the password's version again.
- A code of `Codes` is a mailbox and the number of its making; a wrong guess is
  any answer but the current code.
- `IdentityForms` keeps the cookies per browser (`jar`) and the session on show
  per tab. A request carries both as they were when it was sent; the guard and
  the handler are two steps. `proofs` and `bound` are histories: who passed
  `requireRecentAccountProof` for which code or attempt, and who was linked by
  which. A tab has one request under way at a time (overtaken answers are in
  `Tab`), claims are reduced to one address per account (they are in
  `Identities`), and linking without proof (`devEmailBindSkipReauth`, a
  development setting) is left out.

The browser.

- `Tab` has a cookie jar that other tabs write at any time; a request carries
  the cookie of its sending and the CSRF token of the view. `current` says whether
  the generation of a call is still the store's.
- Storage events in `Favorites` arrive in order per tab, and late.
- `Explore` keeps the filter and page in the URL (`at`), the quote in the page.
- `OrderView` counts commits instead of reading contents: `rows.last` is the
  newest commit on the order, `rows.status` the newest that wrote its status.

## 3. Runs

Most runs check several instances that share no state: a behaviour begins by
picking one of them (`part`, `script`, `scene`, `end`), the others stay where they begin.
It is one state graph with separate pieces; an invariant is about each of them,
and fairness is stated for the part that is played.

| Run | Instances and bounds | What it shows |
|---|---|---|
| `articles` | scene "article": one physical article, seller, two buyers, 2 orders of 2 deliveries, every handler. Scene "carts": a physical and a single-copy article, 3 orders, carts of 2 lines against single orders, disputes and the timer | stock, money, child rows and freezing agree in every state; every step is one of `Trade`; a frozen order stands; nothing is handled that no page offered |
| `desk` | part "desk": a priced physical article and a free unlimited download, policy "enforce", 2 orders, ratings 4 and 5. Part "page": one order, 2 steps elsewhere, 2 polls. Part "forms": one listing of up to 2 versions | the books close; the records of an order page catch up; forms and API fit; an order says what its buyer saw |
| `scripts` | part "pair": an article and the id of its replacement, 2 orders, every handler but counteroffers and the rulings that follow them: a ruling moves the stock as `Refund` or `Accept` does. Part "journeys": the three browser scripts and a seeded listing that lives on under every handler. Part "writes": outages of 8 arrivals in 2 slots, 8 rounds of one buyer with 3 attempts, and three fixed sequences of requests | a replaced article and its replacement are never for sale together; no script meets a missing button, a refused click or a wrong row; a workload finds one order for each operation |
| `order_txn` | two deliveries of one command, one with its key and another body, one of another command, 2 attempts each | a named order cannot be lost, every delivery is answered, every step is one of `CommandLog` |
| `order_ends` | end "pages": two accounts, a cart of two lines or one, an action, 2 sends, 3 mounts, 2 openings of a dialog. End "cluster": 3 nodes, lease of 4 ticks, 2 faults, one order. End "drills": the five drills without a watchdog, two orders | a doubtful command is kept; what is ordered is what was confirmed; confirmed orders survive; one writer under the watchdog; the drills' assertions |
| `races` | part "identities": two accounts, three spellings of two mailboxes and a login name, two transactions. "sign-in": two logins, one reset, a gate of one. "codes": one mailbox, two requests, two browsers, one Google attempt. "mailbox": two people in two browsers, one mailbox, 2 codes. "google": two tabs of one browser, two people, one attempt. "registers": two tabs, one mailbox, one person without a password; 3 sessions in each of the three. "media": two completions of one image with two contents | one claim per address; sessions are of the current password; windows and single use hold; identities are linked to who proved themselves; an order's image is never exchanged |
| `settling` | part "timers": 2 processes, pages of 1, 2 orders. "admission": 1 slot, two requests and a probe. "locks": six commands on two articles, the first with two images, one attempt each. "rates": a reader, a process, 2 snapshots, 2 pages | the timer drains; slots are bounded; a circle of waiting calls has a ruling on a replacement in it or a request that names an image of what another one buys; calls end; pages share a snapshot |
| `browser` | part "tab": two accounts, two sessions, 2 calls. "favorites": 3 tabs, 2 items, 2 events in flight. "listings": 2 readers, lists of 3 batches and of 1, 2 workers, 2 jobs. "images": one image, one order, one completion, one worker, one fault | nothing private is on show to another account; reloads are kept; a late sign-in changes nothing; a revoked session leaves the screen; tabs agree; nobody is cut off; what rows name can be read; the rest is swept; due images are archived |
| `frozen_exit` (violation) | one free physical listing, seller and buyer, 2 orders | not every frozen order of a rejected listing can be closed |
| `sweep_steady` (violation) | 1 process, pages of 2, 3 orders | under steady load a repaired order is not met again |
| `order_client_refused` (violation) | one command, 3 sends | a refused retry is reported as a failure while the first delivery is carried out |
| `freeze_drill` (violation) | the drills of 3 nodes, lease of 4 ticks, one order | without a watchdog a primary whose manager is frozen goes on beside its successor |


Why the bounds are enough. Every guard of the market mentions one order, its
listing and the listing it replaces, and a second order matters only through the
stock of the same listing. Two orders show a copy that is sold, refunded,
restored and sold again with late actions on the first order; two listings show
a replacement pair and a cart; two buyers and a seller give each role to
different accounts. One or two deliveries are enough because guards only ask
whether there is one. Two deliveries of one key show the waiting duplicate, the
second attempt shows a retry, a third body the mismatch. Three nodes are the
cluster of `infra/ha`; two faults show a failure during the handling of another
one. One fault of a media step shows every place a crash can leave behind; the
next pass of the worker begins from scratch. Six commands contain every pair of
lock plans of the code. The 8 arrivals of an outage give each of
two slots a create, its replay, a cancellation and its replay; the scripts
go round more often.

Fairness. `Market`, `OrderClient`, `Cluster`, `Identities` and the other safety
models state none. `OrderSweep`: the interval timer calls a sweep again
(`order-expiry.ts` 38, weak fairness of `Begin` and `Finish`), and a candidate
reached again and again is not struck by an error each time (strong fairness of
`Attempt`); nothing is assumed of buyers, repairs or restarts, and `CalmDrains`
says what it needs of them. `OrderTxn`: the standby applies what it has
received, and a delivery that can go on does (weak). `RowLocks`: the same of a
call. `Media`: clocks move, completions are carried on and a scheduler keeps
the worker's loop running (weak); faults are bounded in number. `Tab`: the page
stays open and visible, so it renders, takes answers and polls (weak), and not
all of its reads are lost (strong fairness of `ServeRead`). Nothing is assumed of
a user.

### What the violations show

- `frozen_exit`: `resolveAffectedOrder` asks for a payment record of every
  order that is past payment (LR 255-259) and writes a refund record of the
  snapshot's price (LR 263-266), which the database refuses for zero. A free
  order never has a payment record (OC 319). When its listing is rejected while
  the order is frozen past payment, no handler takes it any more: participants
  and the dispute ruling refuse a frozen order, the timer takes unpaid ones,
  and a review needs a paused listing. The order keeps its stock for good.
  `resolveDispute` has the exception for free orders that this handler lacks.
- `sweep_steady`: the cursor returns to the start only after a page with no
  candidate at all. `backend/README.md` 95-96 says the scan starts over after
  it has reached the end and that a repaired order is processed again; as long as
  every sweep finds an order after its cursor this does not happen. Of the orders
  that become overdue between two sweeps `skip: 1` may drop one, so that the page
  is empty after all; it does not drop two.
- `order_client_refused`: `run` drops the pending command and its key on any 4xx
  (`use-order-command.ts` 126-134), also when the 4xx answers a retry while the
  first delivery is still on its way; that delivery may be carried out after the
  hook has reported a failure, and the user's next attempt gets a fresh key.
  `backend/README.md` 118 says that a retry keeps its request and key because an
  error response does not prove that nothing was committed.
- `freeze_drill`: `check-postgres-ha-auto.mjs` 588-592 asserts that a frozen Patroni
  has fenced PostgreSQL before the lease of its leader is over. The nodes it asserts
  this of run without a watchdog (`infra/compose.ha-auto.yaml` 44, 48, 52), so nothing
  does: the lease ends, a standby is elected, and two nodes take writes.
  `infra/HA.md` 351-370 reports the drill failing in this way, with every confirmed
  order kept, which is `RowsKept` of the primary the gateways choose
  (`DrillsStand`) and `ConfirmedKept`. With the watchdog required `OneWriter` holds.

### Observations

Met while modelling, without a run, as nothing in the repository says
otherwise:

- Replacement is judged pair by pair: if B replaces A and is later rejected, and
  C replaces B, A may be resumed although C is cleared (LR 169-189).
  `ReplacementExclusive` is about pairs, as the code is.
- The order page offers a seller "deliver" in `pending_acceptance`
  (`frontend/src/lib/order-api.ts` 117), which the API refuses (OC 335), and goes on
  offering `request-refund` after the request; the dispute page does not look
  at the pause of an order. `HandledWasOffered` is therefore stated one way: what
  is handled was offered.
- The seller's list has published listings only: a withdrawn listing under
  source review cannot be answered from the UI, and a withdrawn one cannot be
  published again there. The review queue ends after 100 rows.
- The order page reads its history again only when it sees the status change or
  after a command of its own. Its first reads are unordered, so a commit between
  them may leave records older than the status until the next change;
  `HistoryFollows` is about the pages that have seen a change. `retry` does not
  reload the balances (`me/orders/[id]/page.tsx` 246-250).
- The editor keeps its draft across page turns while `save` sends the version
  of the row read last (`backend-listings.tsx` 70), so an edit from another
  device can be overwritten unseen.
- Changing a stored access commitment to files leaves `updatesIncluded` and
  `sourceFilesIncluded` undefined: the browser lets it through and the API
  refuses it until both boxes are clicked. A quantity over 999, an overlong text,
  a duration over 1200 or a URL that is not public passes `commitmentReady` and
  not the API. `FormsAccepted` names these exceptions (`Unforeseen`).
- The publish form has no idempotency key: a lost answer and a second submission
  make two listings.
- The cart page clears the cart when a retried command that was not the cart's
  succeeds (`cart/page.tsx` 238-244).
- After a failed first page of a new filter the catalogue can turn to page 2
  without a quote, which the API refuses.
- `useLocalStorage` writes from the value it has, so a change of another tab
  whose event has not arrived is lost; the tabs agree all the same.
- The bound of 32 pending uploads (`media.service.ts` 31) and the count that
  decides whether a new one-off listing is reviewed (LS 220) are read without a
  lock; concurrent requests can pass them.
- `v2-seed.mjs` names the listing of index 2 "Zero price free sample", but the free one
  is index 0.
- After a quorum recovery of `Cluster` an elected node may promote itself with
  an expired lease; it has every confirmed order, and the next renewal decides.

## 4. Proofs

| Theorem | Statement | Argument |
|---|---|---|
| `MarketProofs!TypeCorrect` | `Spec => []TypeOK` | each action writes rows of the declared types; inductive as it stands |
| `MarketProofs!LedgerHolds` | `Spec => []StockLedger` | inductive together with `TypeOK` |
| `MarketProofs!MarketImplementsTrade` | `Spec => ImplementsTrade` | the ledger gives the guards of `Trade` |
| `MarketProofs!EscrowHolds` | `Spec => []EscrowMatchesStatus` | inductive with `TypeOK`, together with `ChildRowsAgree` |
| `MarketProofs!ChildRowsHold` | `Spec => []ChildRowsAgree` | the same invariant `RecordsInv` |
| `MarketProofs!FrozenHolds` | `Spec => []FrozenUnderReview` | inductive relative to `StockLedger` |
| `MarketProofs!ClosedIsFinal` | `Spec => TerminalIsFinal` | every kind of step spares closed orders |
| `MarketProofs!FrozenStands` | `Spec => FrozenOrderStands` | from `FrozenUnderReview` |
| `MarketProofs!ReplacementHolds` | `Spec => []ReplacementExclusive` | `ReplacementInv`: what drafts and replacements name was sold once before |
| `MarketProofs!HandledHolds` | `Spec => HandledWasOffered` | `Distinct`: an order's buyer is never its seller |
| `DeskProofs!BooksHold` | `DeskSpec => []BooksClose` | from `EscrowMatchesStatus` and `TerminalIsFinal` |
| `DeskProofs!HistoryFollowsHolds` | `V!Spec => []HistoryFollows` | `ViewInv`: a record that is behind is due, under way or read since |
| `DeskProofs!FormsAcceptedHolds` | `F!Spec => []FormsAccepted` | `PublishingInv`: a form is of one type in all that hangs on the type |
| `DeskProofs!BoughtAsShownHolds` | `F!Spec => []BoughtAsShown` | `PublishingInv`: a version has one content |
| `OrderTxnProofs!TypeCorrect` | `Spec => []TypeOK` | inductive as it stands |
| `OrderTxnProofs!OneRunHolds` | `Spec => []OneRun` | from `IInv` |
| `OrderTxnProofs!AckedDurableHolds` | `Spec => []AckedDurable` | from `IInv` |
| `OrderTxnProofs!TxnImplementsLog` | `Spec => ImplementsLog` | `IInv` gives each commit its key's one effect; the log of `CommandLog` is what the standby has applied |
| `OrderEndsProofs!TypeCorrect` | `Spec => []TypeOK` | inductive as it stands |
| `OrderEndsProofs!OneWriterHolds` | `Spec => []OneWriter` | `WriterInv`: a primary is alone in the `/sync` key or has a timer that runs out first |
| `OrderEndsProofs!ConfirmedHolds` | `Spec => []ConfirmedKept` | `KeptInv`: who may be elected is bounded by the `/sync` key |
| `OrderEndsProofs!DrillsHold` | `ThreeNodes`: `DrillSpec => []DrillsStand` | `DrillInv`: what a script knows of the nodes it broke while it waits, and that a primary that is not astray holds the key (`Keyed`), over `KeptInv` |
| `OrderEndsProofs!DoubtHolds` | `P!PagesSpec => []DoubtKept` | `DoubtInv`: the open request of the current owner is the only one it is in doubt of |
| `OrderEndsProofs!ConfirmedOrdersHold` | `P!PagesSpec => OrderedAsConfirmed` | `PagesInv`: one check at most is still wanted of a page, and its owner is idle |
| `IdentityProofs!ClaimsHold` | `Spec => []ClaimsAgree` | inductive with `TypeInv` |
| `IdentityProofs!OneMailboxHolds` | `Spec => []OneMailbox` | from `ClaimsAgree` |
| `IdentityProofs!SessionsHold` | `S!Spec => []SessionsCurrent` | inductive with `SignInInv`: a live session was issued on the password of its account |
| `IdentityProofs!ProofsHoldAlways` | `S!Spec /\ C!Spec /\ L!Spec => []ProofsHold` | `RateInv`, `CodesInv` and `LinkInv`, one for each of the three components |
| `MediaProofs!TypeCorrect` | `Spec => []TypeOK` | part of `IInv`, which says what a key under way is |
| `MediaProofs!ImagesHold` | `Spec => []ImagesKept` | `IInv`: nothing that is deleted is named or will be |
| `MediaProofs!EvidenceHolds` | `Spec => EvidenceFixed` | a digest is written while an image is not ready, and ordered images are |
| `SettlingProofs!WorkBoundedHolds` | `A!Spec => []WorkBounded` | inductive: accepted requests are those in work, finite, and taken below the limit |
| `SettlingProofs!CirclesHaveCauseHolds` | `L!Spec => []CirclesHaveCause` | `LocksInv`: all but rulings climb, what they hold comes before what they have still to lock; a share is of an image of a listing that is held |
| `DeskProofs!WritesHold` | `PartSpec => []WritesAccounted` | `WorkInv`: the books of the API agree (`Books`), each record is one of a planned request (`Traced`), the client was told what is on record (`Spoken`); and how far each workload is |
| `SettlingProofs!PagesShareRatesHolds` | `E!Spec => PagesShareRates` | `PagesInv`: a request for a later page names the quote that is kept |
| `BrowserProofs!ShownIsOwnHolds` | `T!Spec => []ShownIsOwn` | `TabInv`: an answer is its token's |
| `BrowserProofs!ReloadKeptHolds` | `T!Spec => []ReloadKept` | `TabInv`: no reload is scheduled while a read is in flight |
| `BrowserProofs!NoLateSignInHolds` | `T!Spec => NoLateSignIn` | `TabInv`: a sign-in that is not marked late is the latest |
| `BrowserProofs!TabsAgreeHolds` | `F!Spec => []TabsAgree` | inductive with the types |
| `BrowserProofs!NobodyCutOffHolds` | `R!Spec => []NobodyCutOff` | `ListingsInv`: the map names no job that was cut off |

Each theorem is about its component by itself, for every value of the constants that the
named assumptions allow. `MCOrderDesk`, `MCOrderEnds`, `MCSettling`, `MCRaces` and
`MCBrowser` run several components that share no state; the theorems speak of each one's
own specification (`V!Spec`, `F!Spec`, `DrillSpec`, `P!PagesSpec`, `A!Spec`, `E!Spec`,
`S!Spec`, `C!Spec`, `L!Spec`, `T!Spec`, `R!Spec`) and of the property under the name the
run checks; `WritesHold` is about the whole specification of its run (`PartSpec`).
`ProofsHold` is a conjunction over three components, so the theorem assumes the three
specifications, which have no variable in common. The instances `G` and `R` of
`IdentityForms` differ from `L` in the values of its constants only.

Assumptions. `MarketAssumption`, `ItemsAssumption`, `InitialAssumption`,
`PolicyAssumption`: kinds and sellers are functions, the null values are no ids, a cart
has a line. `OrdersFinite`: a balance is a sum over a finite table. `TxnAssumption`,
`ClusterAssumption` and `SettlingAssumption`: bounds are numbers, the lease is positive.
`AddressAssumption`: normalising an address twice is normalising it once, and a Google
subject has a Gmail mailbox. `MediaAssumption`: one worker (below). `RacesAssumption`:
limits and bounds are numbers, a window lets one attempt pass at least, a code is no
Google attempt. `LocksAssumption`: finitely many calls; an order and an edit name one
listing, a publication replaces at most one, the worker retires one image at a time;
images of a listing are sequences of ids; ids compare as numbers.
`WorkloadAssumption`: there is a buyer, bounds are numbers, no request is the null
value. `EndsAssumption`: no account and no pending command is the null value, bounds are
numbers. `NamesApart` and `NoRow`: the null values and the names of the states of a page
are no sessions, accounts, answers or rows. TLC evaluates all of them. `ThreeNodes` is a
hypothesis of one theorem, as the other theorems about the cluster hold for any nodes;
the scripts run on the three of `haDataNodes`.

The ledger. `StockLedger` is a conjunction: `OrdersListed` (an order's listing
exists, so a new listing has no orders), `HolderOwnsStock` (a row off the shelf
is held by an order of that listing whose status explains it) and
`ClaimsHoldStock` (an open or completed order is the holder). The parts need
each other: that the stock of a closing order is its own is the third part, that
no other order claims it is the third part for the other order, and that the
row stays explained is the second. The proof first sorts every handler into
six kinds of step by what it does to the stock (`Still`, `Pays`, `Closes`, the
restore, the reservation of fresh orders, a new listing; lemma `NextSorted`)
and then shows that each kind preserves the ledger. `ResolveAffectedOrder` does
not look at the stock row it overwrites; it is a `Closes` step, whose order is
open, so by the ledger it is the holder.

The refinement. The same six kinds are each a step of `Trade` or a stutter. The
ledger supplies what the code does not check in one place: the closing order
owns its article, and an article on the shelf has no owner when a cart opens its
orders. A new listing is a stutter because it has no orders.

The records. `RecordsInv` says row by row that settlement records, reservation,
issue, refund request and deliveries agree with the status. A handler writes one
row (lemma `OneRow`), so each case is about that row. The two properties are
proved as one invariant since a ruling's guard on one record is what the other
needs.

Freezing. The steps are sorted by what they do to orders and reviews (`Writes`,
`Freezes`, checkout, `Spares`; lemma `NextFreeze`). An order that may stay open
after a step was not frozen, hence its listing is clear by the invariant; a
review takes exactly the open orders along. The ledger is needed for a new
listing that starts paused: it has no orders to freeze. The two action
properties follow from the same sorting.

Replacement. `create` reads the replaced listing without a lock, and nothing
holds the pair together but the checks of the transaction and of the review.
`ReplacementInv` adds what they rely on. `DraftsOrdered` and `ReplacedOrdered`:
what a draft or a listing replaces is a one-off listing that has been ordered,
which stays so for good (`OrdersStay`) and takes the seller's edits and
replacements of its own off it. `ReplacedOnce`: a listing is replaced at most
once. A step writes one listing row (`OneListingMoves`), so either side of a pair
changes alone: the replacement becomes clear only where the code looks at the
other side, and the other side is out of trade (`OutOfTrade`), where no step but a
restore that asks for the replacement brings it back.

The books. A balance is a difference of sums over settlement records. By
`EscrowMatchesStatus` the records of a buyer split into what was spent and what
came back, disjoint finite sets, so their cardinalities add. A rating is written
for a completed order, and a completed order is final.

The page of an order. `Follows` says of each record that it is either as new as the
status the page shows, or marked due, or under way since that status was read. A
commit never makes a read record worse, for what is read goes up only;
`OneRequest` ties the request in flight to the marks it was started for.

Forms. `FormFits`: type, category, way of selling and the shape of the
commitment belong together through every switch, choice and refill
(`RefilledFits`). `Stored`: what `parseCommitment` keeps parses to itself
(`ParsedStored`), so it opens ready. `SightsTrue`: a sight of the present version
is of the present content, because every accepted edit is a version of its own
(`NextRow`); the lookup and the lock compare versions only.

The offers. What a handler asks of a row its page asks too, but in another order: the
page of an order takes the account for the buyer before it takes it for the seller.
Nothing is missed only because the two differ (`Distinct`), which checkout sees to and
no other action undoes.

Transactions. `OneRun` (a key has at most one run in the log) is not inductive:
that a second delivery does not run rests on who may hold a key. `IInv` of
`OrderTxnProofs` adds `Origins` (every commit of the log repeats the order of a
run of its key, at or before it), `Holders` (one delivery at a time holds a key;
while it works the log has no run of the key, and a delivery that replays finds
one), `Waiters` (what waits for its acknowledgement has its own commit in the
log, with the order it will name) and `AckedDurable` itself. A
promotion cuts the log at what is applied; what was acknowledged is below the
cut. For the refinement an effect exists once its run is applied: `Apply` is the
step of `CommandLog` that makes one, `Acknowledge` the step that tells a caller,
and everything else stutters, promotions included.

The cluster. `OneWriter` is about time. A primary is `Guarded`: its watchdog
runs out within `Timeout`, and it is either `Alone` (the `/sync` key names it without a
standby, so that nobody else can be elected) or holds the leader key and runs out before
the lease does. Its manager may be frozen between renewing the lease and feeding the
watchdog; the timer that still runs then has the whole `Margin` to go before the
lease. A node that was elected `Waits`: it may not go on while another is primary. With the
watchdog off the property fails and the theorem does not claim it.
`ConfirmedKept` is about the key and holds with either. A primary that is frozen,
replaced and not reset goes on confirming while its standby streams from it;
`Electors` says that while it does nobody else than the two may be elected.
`Slipped` is the case of a standby that is promoted after the old primary has
got the leader key back: it is alone in `/sync` and has confirmed nothing of its
own.

The drills. A step of a drill is a step of the cluster or none (`StepIsCluster`), so
`KeptInv` holds in drills too, which have no watchdog. What is left is what stays true
between two steps of a script, while everything that is not broken goes on: no
node rises that was killed and none begins to take writes without a majority, so
nothing is confirmed (`Bereft`, `Dark`); and whoever takes writes and is not `Astray`
holds the leader key (`Keyed`). That is where the managers being `Prompt` is needed:
a lease ends only for one that is frozen, since one that runs renews it or becomes a
replica, cut off from etcd or not. Two primaries would both hold the key, so outside
the freeze drill there is one. A frozen primary may go on beside its successor, which
the run `freeze_drill` shows; the theorem says of that drill that the successor has
every confirmed order. `Bereft` needs that there is no third replica; `ThreeNodes` says so.

The hook. `DoubtKept` is not inductive: an outcome drops the pending command, and other
requests in doubt could have had the same key. `DoubtInv` says that an open request of
the current owner is the only one of that owner, that the owner is busy with it and has
its command, and that an owner holds what its account has saved; earlier owners are told
nothing. So the outcome of one request decides every one with its key, whose sender has
been told with it, and whatever else is in doubt is another account's.

The pages. A check (the read of prices between a click and the order) outlives its dialog
and its page. `ChecksInv` numbers pages and sessions of the dialog: a purchase that is
still wanted is the only check of its session, its dialog is open and
its owner idle. `KeysSent` (every key that is held was sent before) makes a request with
a key of its own one that nothing was pending for; retries repeat what was
confirmed earlier and are not spoken of.

Identities. A transaction locks its account and its key, but the claims table
decides: `ClaimsAgree` (a claim names the account that its identities back, and
every backed mailbox has its claim) is inductive with the types and `Proven` (a
transaction is bound to the mailbox it has proven, and binds it to an account
that exists). The locks are not used by the proof: they order waiting, and
the unique constraints do the excluding. `OneMailbox` is the plain reading.

Signing in. The password is checked without a lock, so a live session says nothing
about the present password by itself. The invariant says it of the version each
session was issued on: `Issue` looks again in the transaction that inserts the
session, and `Reset` ends every session of the account in the one that changes the
version. `Window`: while a window is open, its row counts exactly what it let pass,
so a limit on the row is a limit on what passed, also when rows are deleted between.

Codes. That a code is new is the first thing to prove: `Numbered` says that the
codes ever made for a mailbox are numbered without a gap, so the next number
(`Numbers`) is nobody's, although the row remembers only the last code. `Counted` then ties
the row to the history of its own code, tries and all, and says that a spent row
was accepted or its mail failed. `Spent` does the same for a Google attempt, which at
most one callback holds.

Linking. `LinkInv` follows who proved himself through two requests. The row of a
code and an attempt name the account (`CodesProven`, `TripsProven`); a request under way
acts for an account only from a form that links, about an address that was typed
(`Asked`), whatever other tabs do to the cookie. The rest is types: a session named by
a cookie, a page or an attempt is one that was issued, and stays so as sessions are
appended (`Grow`).

Media. The difficulty is that deletions are decided before they are carried
out. `IInv` has one part per actor. `Completion(r)`: until a completion is over its
own final key has no name but the one it will write, and afterwards it writes nothing.
`Working(w)`: an archive in progress knows the object it has put and verified;
an object that is about to be erased is `Free`, that is, named by no row and by none
to come. `FreeLasts` is the lemma the proof turns on: no later step can name a
free key. It needs a single worker: between the second look of a sweep and its
deletion another worker could archive to the same key, and no lock of the code is
held over both. The deployment starts one worker, which `MediaAssumption` states.

The slots. A request that hangs up keeps its slot until its handler has ended, and
one that needs none never holds one: accepted are exactly those in work.

The row locks. `Climbs` says of every call but a ruling that its plan ascends (listings
before images, each by number) and that what it holds is below what is left of it, but
for the shares that a purchase takes in between. `Rightful` ties a share to an image of a
listing that its holder holds, and a listing is held by one call: so whoever locks that
image for update, or waits to, without the listing has named an image of what another
buys (`Misnames`), or is the worker, which waits for one row and holds none
(`ShareMeetsAsset`). Where neither is in the way, whoever stands in the way waits for a
row above the one it blocks (`BlockerHigher`), and a chain of waiting calls never comes
back to its beginning unless a ruling or such a request is in it. Both exceptions are
needed: TLC finds a circle of either kind without the other. Without the shares rulings
would be the only ones. The
chain (`WaitsFor`) and the sorting (`Sorted`) are functions on numbers of any size. The
library's induction theorems cannot be used (they take an operator), so both are argued by the
least counterexample: that a set of numbers has a least element (`LeastNumber`), and a
finite one a greatest, follows from the library's fact that finite sets are well
founded under inclusion.

The workloads. `Books` relates the idempotency records, the orders and what holds the
items: each order was made under a key of its own, at most one key ended it, and it holds
its item until then. `Traced` and `Spoken` tie the records to what was planned and what
was told. The argument is then about one request that runs, whenever that is: if its key
is on record it changes nothing and its answer is what it would have made; if not, its
item is free, or the order it ends is open. That needs the keys to say what is asked
(`ToldApart`) and, for the item, a reason of each workload's own: in an outage and in a
script of sales every key has an item of its own (`ItemsApart`); in the rounds, which
share one, a round is sent only when all before it were answered, so the order of every
earlier group has its cancellation on record (`RoundFree`), and a copy that runs late
finds its own key there; in the race the two rivals share one on purpose, and the slower
is refused (`RaceRefused`). At the end nothing is on record that was not told.

The pages. What a page shows is the answer to its request in flight (`fetch`).
`Sought`: if that is for a later page under converted prices, it names the quote
that is kept, for nothing is kept anew between the request and its answer.
`Quoted`: a call that names a snapshot is answered from it or refused, and
never joins a refresh, whose result would be another snapshot.

The tab. `TabInv` says that an answer in flight is the one of its token
(`AnswersOwn`), sessions that are alive have an owner, a sign-in is current only
while it is the latest call (`LatestCurrent`), and no reload is scheduled while
a read is in flight (`OneAtATime`), so that a queued one is started when the
answer is taken. Favorites: a tab that was not told of a change has made it, or
nothing changed. Shared reads of listings: `Mapped` and `Served` say that the map
names only jobs that are going on and not cut off, and that a component that waits is
among the subscribers of its job.

`MarketProofs!ClosedIsFinal`, `OneRunHolds`, `OneMailboxHolds` and the theorems
named `TypeCorrect` other than the market's are proved only; `EvidenceFixed` is
run under the composition `MCRaces`. The other theorems state properties that
runs check.

Only model-checked. `JourneysStand` asks whether the API takes a step (`ENABLED`), of three
finite scripts, for which a run is the whole answer (`FrozenOrderHasExit`, which its run
refutes, asks it of an order). Liveness (`CalmDrains`, `CallsEnd`, `Answered`, `LitterSwept`, `ArchivedInTime`,
`StaleViewEnds`) rests on fairness. The prover handles neither.

## 5. Not modelled, and why

- Parsing, rounding and error mapping (`common/*`): functions without state.
  The one parser whose verdict a page depends on, that of the product commitment,
  is in `Publishing`.
- The immutability triggers of the migrations: no handler meets them.
- Sorting and wording of searches; rendering and styles of the front end;
  telemetry, which only writes log lines.
- Image inspection is a choice of good and bad contents.
- Gateways and proxies of the cluster, backups and restores, capacity
  measurements, environment checks, start-up scripts: they configure, copy or
  measure. Deadlines of drills are not checked.
- Two media workers at once, see above.

## 6. Plan

The models are complete to the extent section 5 says, and the market, the desk, the
transactions, the row locks, the write workloads, the cluster and its drills, the
hook and its pages, media, identities and the browser have their theorems.
Left, in order of worth:

1. The hook over `OrderTxn`: that a key found with its command, and an effect that
   is durable under its key, make one effect of every command. Each half is proved.
2. Two media workers, once a lock between them exists in the code.
