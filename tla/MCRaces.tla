------------------------------- MODULE MCRaces -------------------------------
(***************************************************************************)
(* Five components that share no state, each of which many requests, tabs  *)
(* and workers race for. A behaviour picks one of them and leaves the rest *)
(* where they begin, so one run explores them one after another.           *)
(***************************************************************************)
EXTENDS Identities, Naturals, TLC

CONSTANTS
  Junk,
  p, pd, q, h, g1, g2,   \* addresses and Google subjects
  a1, i1, m1, b1, o1, w1,
  t1, t2, u1, u2, v1, v2, \* pairs of the same kind, in every part one or more
  \* SignIn:
  Signer, Desktop, Submission, Limit, MaxHashes, MaxResets, MaxSessions,
  \* Codes:
  Mailbox, Holder, Sender, Attempt, Device, Redirect, MaxTries, MaxSends,
  \* IdentityForms:
  Tab, Of, Linker, WithPassword, Linked, Trip, Purpose,
  MaxForms, MaxCodes, MaxOpened

(* An attempt counts in a window that lets one pass at least; a code is no *)
(* Google attempt, and neither is None.                                    *)
ASSUME RacesAssumption ==
  /\ Limit.ip \in Nat \ {0} /\ Limit.name \in Nat \ {0}
  /\ MaxResets \in Nat /\ MaxTries \in Nat /\ MaxSends \in Nat
  /\ None \notin Attempt
  /\ (Attempt \cup {None}) \cap (Mailbox \X (1..MaxSends)) = {}

VARIABLES
  part,
  password, session, cookie, bucket, hashes, login, passed,            \* SignIn
  challenge, sender, mailed, failed, attempt, callback, wrong, accepted, \* Codes
  asset, listed, snap, store, completion, worker, faults,              \* Media
  held, via, mailbox, trip, opened, jar, tab, proofs, bound            \* IdentityForms

(* Two people; a dotted spelling of one address; a login name not yet      *)
(* moved to an address; two Google subjects, one of the dotted spelling.   *)
Keys == (p :> p) @@ (pd :> p) @@ (q :> q)
Moves == (p :> p) @@ (pd :> pd) @@ (q :> q) @@ (h :> q)
Profiles == (g1 :> pd) @@ (g2 :> q)

(* Two sign-ins at once, a gate for one hash, one reset of the password.   *)
Limits == [ip |-> 3, name |-> 2]
S == INSTANCE SignIn WITH
  Account <- Signer, Browser <- Desktop, Request <- Submission, request <- login

(* One mailbox, two requests for codes, two callbacks of one attempt.      *)
C == INSTANCE Codes WITH
  Account <- Holder, Browser <- Device, Callback <- Redirect

(* Two completions of one image, with two contents to choose from.         *)
M == INSTANCE Media WITH
  Asset <- {a1}, Order <- {o1}, Request <- {t1, t2}, Worker <- {w1},
  Byte <- {u1, u2}, MaxFaults <- 0, request <- completion

(* Two people with passwords link one mailbox from two browsers; or Google *)
(* from one, whose other tab changes the cookie; or somebody without a     *)
(* password registers by a code, and links the mailbox again.              *)
TwoBrowsers == [t \in {t1, t2} |-> t]
L == INSTANCE IdentityForms WITH
  Account <- Linker, Address <- Linked, Attempt <- Trip, MaxSessions <- MaxOpened,
  email <- held, google <- via, challenge <- mailbox, attempt <- trip,
  session <- opened
G == INSTANCE IdentityForms WITH
  Tab <- {t1, t2}, Of <- [t \in {t1, t2} |-> b1], WithPassword <- Account,
  Address <- {}, Attempt <- {i1}, Purpose <- {"bind", "login"},
  MaxForms <- 1, MaxCodes <- 1, MaxSessions <- 3,
  email <- held, google <- via, challenge <- mailbox, attempt <- trip,
  session <- opened
R == INSTANCE IdentityForms WITH
  Account <- {a1, w1}, Tab <- {t1, t2}, Of <- [t \in {t1, t2} |-> b1],
  WithPassword <- {a1}, Address <- {m1}, Attempt <- {},
  Purpose <- {"bind", "register"}, MaxForms <- 1, MaxCodes <- 1, MaxSessions <- 3,
  email <- held, google <- via, challenge <- mailbox, attempt <- trip,
  session <- opened

sVars == <<password, session, cookie, bucket, hashes, login, passed>>
cVars == <<challenge, sender, mailed, failed, attempt, callback, wrong, accepted>>
mVars == <<asset, listed, snap, store, completion, worker, faults>>
fVars == <<held, via, mailbox, trip, opened, jar, tab, proofs, bound>>
allVars == <<part, vars, sVars, cVars, mVars, fVars>>

RacesInit ==
  /\ part \in {"identities", "sign-in", "codes", "media",
              "mailbox", "google", "registers"}
  /\ Init /\ S!Init /\ C!Init /\ M!Init
  /\ CASE part = "registers" -> R!Init [] part = "google" -> G!Init [] OTHER -> L!Init

RacesNext ==
  /\ UNCHANGED part
  /\ \/ part = "identities" /\ Next /\ UNCHANGED <<sVars, cVars, mVars, fVars>>
     \/ part = "sign-in" /\ S!Next /\ UNCHANGED <<vars, cVars, mVars, fVars>>
     \/ part = "codes" /\ C!Next /\ UNCHANGED <<vars, sVars, mVars, fVars>>
     \/ part = "media" /\ M!Next /\ UNCHANGED <<vars, sVars, cVars, fVars>>
     \/ /\ \/ part = "mailbox" /\ L!Next
           \/ part = "google" /\ G!Next
           \/ part = "registers" /\ R!Next
        /\ UNCHANGED <<vars, sVars, cVars, mVars>>

RacesSpec == RacesInit /\ [][RacesNext]_allVars

Twins ==
  Permutations({t1, t2}) \cup Permutations({u1, u2}) \cup Permutations({v1, v2})

-----------------------------------------------------------------------------
(* No live session was issued on a password that has been reset since.     *)
SessionsCurrent == S!SessionsCurrent

(* What counts or proves holds: no window of the rate buckets lets more    *)
(* attempts pass than its limit; a code or a Google attempt signs in once, *)
(* takes so many wrong guesses, and is spoiled by nothing else; and it     *)
(* links an identity to the account that proved itself for it.             *)
ProofsHold ==
  /\ S!RateHeld /\ C!ProofsSpent
  /\ L!BoundAsProven

(* The image of an order is never exchanged for another.                   *)
EvidenceFixed == M!EvidenceFixed
=============================================================================
