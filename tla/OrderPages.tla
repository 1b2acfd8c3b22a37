----------------------------- MODULE OrderPages -----------------------------
(***************************************************************************)
(* The pages that send order commands: the cart, the dialog that buys one  *)
(* listing, and the page of an order. Each mounts the hook of OrderClient; *)
(* a purchase is confirmed, looked up once more at the server, and only    *)
(* then sent, while carts, dialogs and accounts go on changing.            *)
(***************************************************************************)
EXTENDS OrderClient, FiniteSets

CONSTANTS
  Line,      \* listings at a version and price
  Basket,    \* Basket[cmd]: the lines it orders; none for an order action
  MinItems,  \* cartMinItems
  MaxItems,  \* cartMaxItems
  MaxDialog  \* bound: sessions of the dialog

VARIABLES
  page,      \* "cart", "listing" or "order"
  mount,     \* the owner.gen with which it was opened
  cart,      \* useCartStore
  dialog,    \* BuyModal: open, and sessionRef.current.generation
  checks     \* purchases confirmed and being looked up

pageVars == <<page, mount, cart, dialog, checks>>
allVars == <<vars, pageVars>>

Check == [kind : {"cart", "buy"}, mount : Nat, gen : Nat,
          account : Account, cmd : Command]

PagesTypeOK ==
  /\ TypeOK
  /\ page \in {"cart", "listing", "order"} /\ mount \in Nat
  /\ cart \in [owner : Account \cup {None}, items : SUBSET Line]
  /\ Cardinality(cart.items) <= MaxItems
  /\ dialog \in [open : BOOLEAN, gen : 0..MaxDialog]
  /\ checks \subseteq Check

EmptyCart == [owner |-> None, items |-> {}]

PagesInit ==
  /\ Init
  /\ page = "order" /\ mount = 0
  /\ cart = EmptyCart
  /\ dialog = [open |-> FALSE, gen |-> 0]
  /\ checks = {}

-----------------------------------------------------------------------------
Items == IF cart.owner = view THEN cart.items ELSE {}

Visit(p) ==
  /\ page # p
  /\ Remount
  /\ page' = p /\ mount' = owner'.gen
  /\ dialog' = [dialog EXCEPT !.open = FALSE]
  /\ UNCHANGED <<cart, checks>>

(* add replaces the cart of another account.                               *)
Add(l) ==
  /\ view # None /\ page # "cart" /\ l \notin Items
  /\ Cardinality(Items) < MaxItems
  /\ cart' = [owner |-> view, items |-> Items \cup {l}]
  /\ UNCHANGED <<vars, page, mount, dialog, checks>>

Remove(l) ==
  /\ view # None /\ page = "cart" /\ l \in Items
  /\ cart' = [cart EXCEPT !.items = @ \ {l}]
  /\ UNCHANGED <<vars, page, mount, dialog, checks>>

Clear(a) == cart' = IF cart.owner = a THEN EmptyCart ELSE cart

(* Another account, or none, is a new session of an open dialog.           *)
Rekey ==
  /\ dialog.gen < MaxDialog
  /\ dialog' = IF dialog.open THEN [dialog EXCEPT !.gen = @ + 1] ELSE dialog

Account_(a) ==
  /\ SignIn(a) \/ (a = view /\ SignOut)
  /\ Rekey
  /\ UNCHANGED <<page, mount, cart, checks>>

Toggle ==
  /\ page = "listing" /\ view # None
  /\ dialog.gen < MaxDialog
  /\ dialog' = [open |-> ~dialog.open, gen |-> dialog.gen + 1]
  /\ UNCHANGED <<vars, page, mount, cart, checks>>

-----------------------------------------------------------------------------
(* Orders. *)

Ready == view # None /\ owner.account = view /\ ~owner.busy /\ owner.pending = None

Confirm(kind, cmd) ==
  /\ Ready
  /\ ~\E c \in checks : c.kind = kind /\ c.mount = mount /\ c.gen = dialog.gen
  /\ checks' = checks \cup {[kind |-> kind, mount |-> mount, gen |-> dialog.gen,
                             account |-> view, cmd |-> cmd]}
  /\ UNCHANGED <<vars, page, mount, cart, dialog>>

Checkout(cmd) ==
  /\ page = "cart"
  /\ Cardinality(Items) \in MinItems..MaxItems
  /\ Basket[cmd] = Items
  /\ Confirm("cart", cmd)

Buy(cmd) ==
  /\ page = "listing" /\ dialog.open
  /\ Cardinality(Basket[cmd]) = 1
  /\ Confirm("buy", cmd)

(* The lookup found a change, or the page no longer wants its answer.      *)
Abandon(c) ==
  /\ c \in checks
  /\ checks' = checks \ {c}
  /\ UNCHANGED <<vars, page, mount, cart, dialog>>

(* Fault: only the account is looked at again.                             *)
StillWantedByAccount(c) == view = c.account

(* What the cart and the dialog look at again after the lookup.            *)
StillWanted(c) ==
  /\ view = c.account
  /\ IF c.kind = "cart" THEN cart = [owner |-> c.account, items |-> Basket[c.cmd]]
                        ELSE dialog.gen = c.gen

(* The lookup agrees with the page: the command is run by the hook of the  *)
(* page that asked, if that is still the page shown.                       *)
Proceed(c) ==
  /\ c \in checks
  /\ StillWanted(c)
  /\ mount = c.mount
  /\ Run(c.cmd)
  /\ checks' = checks \ {c}
  /\ UNCHANGED <<page, mount, cart, dialog>>

Act(cmd) ==
  /\ page = "order" /\ Basket[cmd] = {}
  /\ Ready
  /\ Run(cmd)
  /\ UNCHANGED pageVars

(* Every page offers to retry the pending command, whatever it is.         *)
RetryPending ==
  /\ owner.pending # None
  /\ Run(owner.pending.cmd)
  /\ UNCHANGED pageVars

(* What a page does with the result of the command it ran or retried.      *)
Done(i) ==
  /\ Succeed(i)
  /\ IF page = "cart" THEN Clear(sent[i].account) ELSE UNCHANGED cart
  /\ dialog' = [dialog EXCEPT !.open = @ /\ page # "listing"]
  /\ UNCHANGED <<page, mount, checks>>

Unseen(i) ==
  /\ GiveUp(i) \/ Ignore(i) \/ Doubt(i) \/ Server(i)
  /\ UNCHANGED pageVars

Expelled(i) ==
  /\ Invalidate(i)
  /\ Rekey
  /\ UNCHANGED <<page, mount, cart, checks>>

-----------------------------------------------------------------------------
PagesNext ==
  \/ \E p \in {"cart", "listing", "order"} : Visit(p)
  \/ \E l \in Line : Add(l) \/ Remove(l)
  \/ \E a \in Account : Account_(a)
  \/ Toggle
  \/ \E cmd \in Command : Checkout(cmd) \/ Buy(cmd) \/ Act(cmd)
  \/ \E c \in checks : Abandon(c) \/ Proceed(c)
  \/ RetryPending
  \/ \E i \in DOMAIN sent : Done(i) \/ Unseen(i) \/ Expelled(i)

PagesSpec == PagesInit /\ [][PagesNext]_allVars

-----------------------------------------------------------------------------
Ordered == Len(sent') > Len(sent) /\ sent'[Len(sent')].key = Len(sent')
Request == sent'[Len(sent')]

(* A new checkout orders what is in the cart of its account at the moment  *)
(* it is sent, not what was there when it was confirmed; a new purchase is *)
(* sent only by the session of the dialog in which it was confirmed, so    *)
(* that closing it or changing accounts, even back, withdraws it           *)
(* (cart page 102-114, buy-modal.tsx 119-123).                             *)
AsShown == cart = [owner |-> Request.account, items |-> Basket[Request.cmd]]

AsConfirmed ==
  /\ dialog.open
  /\ \E c \in checks \ checks' : /\ c.gen = dialog.gen
                                 /\ c.account = Request.account
                                 /\ c.cmd = Request.cmd

OrderedAsConfirmed ==
  [][Ordered => /\ page = "cart" => AsShown
                /\ page = "listing" => AsConfirmed]_allVars
=============================================================================
