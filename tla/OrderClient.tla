---------------------------- MODULE OrderClient ----------------------------
(***************************************************************************)
(* The order command hook of the browser (use-order-command.ts) with the   *)
(* request layer below it (authenticated-api.ts) and the network: requests *)
(* are answered late or never, accounts change, pages are left and opened  *)
(* again. The server is what OrderTxn implements: a key is carried out at  *)
(* most once, a refusal leaves nothing behind, an error proves nothing.    *)
(***************************************************************************)
EXTENDS Naturals, Sequences

CONSTANTS
  Account,
  Command,    \* path and body
  None,       \* no account, no pending command; outside Account
  MaxSends,   \* bound: requests sent
  MaxMounts   \* bound: owners of the hook

VARIABLES
  view,       \* the signed-in account (useAuthStore)
  token,      \* its CSRF token
  owner,      \* ownerRef.current; gen tells one owner object from another
  saved,      \* saved[a]: the pending command of a in sessionStorage
  storage,    \* sessionStorage accepts writes
  sent,       \* the requests so far: sender, reply, and the fetch
  effects,    \* keys whose command the server has carried out
  givenUp,    \* keys dropped after a 4xx
  answered    \* keys whose success the hook has returned

vars == <<view, token, owner, saved, storage, sent, effects, givenUp, answered>>

Key == 1..MaxSends
Pending == [cmd : Command, key : Key]
Replies == {"wire", "ok", "refused", "auth", "error"}

TypeOK ==
  /\ view \in Account \cup {None}
  /\ token \in Nat
  /\ owner \in [gen : 0..MaxMounts, account : Account \cup {None},
                pending : Pending \cup {None}, busy : BOOLEAN]
  /\ owner.account = view
  /\ saved \in [Account -> Pending \cup {None}]
  /\ storage \in BOOLEAN
  /\ sent \in Seq([gen : 0..MaxMounts, token : Nat, account : Account,
                   cmd : Command, key : Key, reply : Replies, open : BOOLEAN])
  /\ effects \subseteq Key /\ givenUp \subseteq Key /\ answered \subseteq Key

Init ==
  /\ view = None /\ token = 0
  /\ owner = [gen |-> 0, account |-> None, pending |-> None, busy |-> FALSE]
  /\ saved = [a \in Account |-> None]
  /\ storage \in BOOLEAN
  /\ sent = <<>>
  /\ effects = {} /\ givenUp = {} /\ answered = {}

-----------------------------------------------------------------------------
(* The hook. *)

(* resetOwner: a new owner object, with the saved command of the account.  *)
ResetOwner(a) ==
  /\ owner.gen < MaxMounts
  /\ owner' = [gen |-> owner.gen + 1, account |-> a, busy |-> FALSE,
               pending |-> IF a = None THEN None ELSE saved'[a]]

(* setItem and removeItem may throw, and the hook goes on.                 *)
Save(a, p) == saved' = IF storage THEN [saved EXCEPT ![a] = p] ELSE saved

(* Fault: the account alone says whether an answer is still wanted.        *)
IsCurrentByAccount(i) == owner.account = sent[i].account /\ view = sent[i].account

IsCurrent(i) == owner.gen = sent[i].gen /\ view = sent[i].account

(* The page is left and one with the hook is opened again.                 *)
Remount ==
  /\ UNCHANGED <<view, token, saved, storage, sent, effects, givenUp, answered>>
  /\ ResetOwner(view)

SignIn(a) ==
  /\ view # a
  /\ view' = a
  /\ token' = token + 1
  /\ UNCHANGED <<saved, storage, sent, effects, givenUp, answered>>
  /\ ResetOwner(a)

SignOut ==
  /\ view # None
  /\ view' = None
  /\ UNCHANGED <<token, saved, storage, sent, effects, givenUp, answered>>
  /\ ResetOwner(None)

NewKey == 1 + Len(sent)

(* run: the pending command with its key, or a new one if there is none.   *)
Run(cmd) ==
  /\ view # None /\ owner.account = view
  /\ ~owner.busy
  /\ (owner.pending # None) => (owner.pending.cmd = cmd)
  /\ Len(sent) < MaxSends
  /\ LET command == IF owner.pending # None THEN owner.pending
                    ELSE [cmd |-> cmd, key |-> NewKey]
     IN  /\ owner' = [owner EXCEPT !.busy = TRUE, !.pending = command]
         /\ Save(view, command)
         /\ sent' = Append(sent, [gen |-> owner.gen, token |-> token, account |-> view,
                                  cmd |-> cmd, key |-> command.key,
                                  reply |-> "wire", open |-> TRUE])
  /\ UNCHANGED <<view, token, storage, effects, givenUp, answered>>

Close(i) == sent' = [sent EXCEPT ![i].open = FALSE]
Idle(i) == owner' = IF owner.gen = sent[i].gen THEN [owner EXCEPT !.busy = FALSE] ELSE owner
Drop == owner' = [owner EXCEPT !.busy = FALSE, !.pending = None]

(* The answer reaches an owner that is no longer the current one.          *)
Ignore(i) ==
  /\ sent[i].open /\ sent[i].reply # "wire"
  /\ ~IsCurrent(i)
  /\ sent[i].reply = "auth" => token # sent[i].token \/ view = None
  /\ Close(i) /\ Idle(i)
  /\ UNCHANGED <<view, token, saved, storage, effects, givenUp, answered>>

Succeed(i) ==
  /\ sent[i].open /\ sent[i].reply = "ok"
  /\ IsCurrent(i)
  /\ Close(i) /\ Drop
  /\ Save(view, None)
  /\ answered' = answered \cup {sent[i].key}
  /\ UNCHANGED <<view, token, storage, effects, givenUp>>

(* A 4xx counts as the outcome of the command.                             *)
GiveUp(i) ==
  /\ sent[i].open /\ sent[i].reply = "refused"
  /\ IsCurrent(i)
  /\ Close(i) /\ Drop
  /\ Save(view, None)
  /\ givenUp' = givenUp \cup {sent[i].key}
  /\ UNCHANGED <<view, token, storage, effects, answered>>

(* A 5xx, or the connection breaks with the request still on its way: the  *)
(* command stays pending.                                                  *)
Doubt(i) ==
  /\ sent[i].open /\ sent[i].reply \in {"wire", "error"}
  /\ Close(i) /\ Idle(i)
  /\ UNCHANGED <<view, token, saved, storage, effects, givenUp, answered>>

(* 401 and 403 end the session the request was sent in, if it is still     *)
(* that one; the owner is reset before the hook sees the failure.          *)
Invalidate(i) ==
  /\ sent[i].open /\ sent[i].reply = "auth"
  /\ view # None /\ token = sent[i].token
  /\ view' = None
  /\ Close(i)
  /\ UNCHANGED <<token, saved, storage, effects, givenUp, answered>>
  /\ ResetOwner(None)

-----------------------------------------------------------------------------
(* The server. *)

Reply(i, r) == sent[i].reply = "wire" /\ sent' = [sent EXCEPT ![i].reply = r]

Carry(i) ==
  /\ Reply(i, "ok")
  /\ effects' = effects \cup {sent[i].key}

Refuse(i) ==
  /\ sent[i].key \notin effects
  /\ Reply(i, "refused")
  /\ UNCHANGED effects

Reject(i) == Reply(i, "auth") /\ UNCHANGED effects

Fail(i) ==
  /\ Reply(i, "error")
  /\ effects' \in {effects, effects \cup {sent[i].key}}

Server(i) ==
  /\ Carry(i) \/ Refuse(i) \/ Reject(i) \/ Fail(i)
  /\ UNCHANGED <<view, token, owner, saved, storage, givenUp, answered>>

-----------------------------------------------------------------------------
Browser(i) == Succeed(i) \/ GiveUp(i) \/ Ignore(i) \/ Doubt(i) \/ Invalidate(i)

Next ==
  \/ Remount \/ SignOut
  \/ \E a \in Account : SignIn(a)
  \/ \E cmd \in Command : Run(cmd)
  \/ \E i \in DOMAIN sent : Browser(i) \/ Server(i)

Spec == Init /\ [][Next]_vars

-----------------------------------------------------------------------------
(* A command that was sent and whose outcome the hook has not been told    *)
(* can still be found with its key: in sessionStorage, or, where that does *)
(* not work, in the owner that sent it. No late answer, account change or  *)
(* return to the page makes the hook forget it (use-order-command.ts 94).  *)
Undecided(i) == sent[i].key \notin answered \cup givenUp

DoubtKept ==
  \A i \in DOMAIN sent :
    Undecided(i) =>
      LET kept == [cmd |-> sent[i].cmd, key |-> sent[i].key]
      IN  IF storage THEN saved[sent[i].account] = kept
          ELSE owner.gen = sent[i].gen => owner.pending = kept

(* A command the hook reports as failed has no effect, now or later: the   *)
(* answer proves the outcome (use-order-command.ts 126-135).               *)
RefusalIsFinal == givenUp \cap effects = {}
=============================================================================
