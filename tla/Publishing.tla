----------------------------- MODULE Publishing -----------------------------
(***************************************************************************)
(* What a listing says, from the form its seller fills in to the order it  *)
(* is copied into: the publish form and the editor of a listing, what the  *)
(* API takes of them, edits from elsewhere, and a buyer who has the        *)
(* listing on show. A required answer of the commitment counts as missing  *)
(* when both ends refuse it, and as excessive when only the API does: a    *)
(* text too long, a quantity over 999, a duration over 1200, a URL that is *)
(* not public.                                                             *)
(***************************************************************************)
EXTENDS Naturals

CONSTANTS
  MaxVersion,  \* bound: versions of a listing
  None

VARIABLES
  form,    \* PublishForm or the editor of BackendListings, and its fields
  row,     \* the Listing row
  listed,  \* the row as the seller's list has read it
  shown,   \* the version and the content on a buyer's page
  asked,   \* a purchase under way: what its buyer was shown
  orders   \* what was shown and what was copied, of each order

vars == <<form, row, listed, shown, asked, orders>>

Answer == {"missing", "given", "excessive"}
Held == Answer \cup {"absent"}
Flag == {"updatesIncluded", "sourceFilesIncluded"}

PhysicalCommitment == [common : Answer]
DigitalCommitment ==
  [common : Answer, exclusions : BOOLEAN, noOtherRestrictions : BOOLEAN,
   mode : {"file", "access"}, file : Held, flags : SUBSET Flag, access : Held]
ProductCommitment == PhysicalCommitment \cup DigitalCommitment

SaleMode == {"one_off", "repeatable"}
Type == {"physical", "digital"}

Form ==
  [for : {"new", "edit"}, type : Type, category : Type, saleMode : SaleMode,
   replacement : BOOLEAN, commitment : ProductCommitment]
Row ==
  [type : Type, saleMode : SaleMode, commitment : ProductCommitment \cup {None},
   published : BOOLEAN, version : 1..MaxVersion, content : 1..MaxVersion]
Shown == [version : 1..MaxVersion, content : 1..MaxVersion]

TypeOK ==
  /\ form \in Form \cup {None} /\ row \in Row \cup {None} /\ listed \in Row \cup {None}
  /\ shown \in Shown \cup {None} /\ asked \in Shown \cup {None}
  /\ orders \subseteq [shown : 1..MaxVersion, copied : 1..MaxVersion]

-----------------------------------------------------------------------------
(* lib/commitment.ts *)
initialPhysicalCommitment == [common |-> "missing"]
initialDigitalCommitment ==
  [ common |-> "missing", exclusions |-> FALSE, noOtherRestrictions |-> FALSE,
    mode |-> "file", file |-> "missing", flags |-> Flag, access |-> "absent" ]
Initial(type) ==
  IF type = "physical" THEN initialPhysicalCommitment ELSE initialDigitalCommitment

IsDigital(c) == "mode" \in DOMAIN c

(* The answers that the chosen way of delivery asks for.                   *)
Asked(c) ==
  {c.common} \cup (IF IsDigital(c) THEN {IF c.mode = "file" THEN c.file ELSE c.access} ELSE {})

commitmentReady(c) ==
  /\ Asked(c) \subseteq {"given", "excessive"}
  /\ IsDigital(c) => c.noOtherRestrictions \/ c.exclusions

(* product-commitment.ts, parseCommitment: what it takes and what it keeps *)
(* of it.                                                                  *)
Parses(type, c) ==
  /\ Asked(c) = {"given"}
  /\ IsDigital(c) = (type = "digital")
  /\ IsDigital(c) => /\ c.noOtherRestrictions # c.exclusions
                     /\ c.mode = "file" => c.flags = Flag

Parsed(c) ==
  CASE ~IsDigital(c) -> c
    [] IsDigital(c) /\ c.mode = "file" -> [c EXCEPT !.access = "absent"]
    [] OTHER -> [c EXCEPT !.file = "absent", !.flags = {}]

-----------------------------------------------------------------------------
(* The forms. *)
NewForm(type) ==
  [ for |-> "new", type |-> type, category |-> type,
    saleMode |-> IF type = "physical" THEN "one_off" ELSE "repeatable",
    replacement |-> FALSE, commitment |-> Initial(type) ]

Init ==
  /\ form = NewForm("physical")
  /\ row = None /\ listed = None /\ shown = None /\ asked = None /\ orders = {}

OpenNew ==
  /\ form = None /\ row = None
  /\ form' = NewForm("physical")
  /\ UNCHANGED <<row, listed, shown, asked, orders>>

(* Fault: the tab leaves the way of selling as it was.                     *)
SwitchedKeepingMode(f, type) ==
  [NewForm(type) EXCEPT !.replacement = f.replacement, !.saleMode = f.saleMode]

(* A tab sets what hangs on the type; the id of a replaced listing stays.  *)
Switched(f, type) == [NewForm(type) EXCEPT !.replacement = f.replacement]

SwitchTab(type) ==
  /\ form # None /\ form.for = "new" /\ form.type # type
  /\ form' = Switched(form, type)
  /\ UNCHANGED <<row, listed, shown, asked, orders>>

Choose ==
  /\ form # None /\ form.for = "new"
  /\ \/ form.type = "digital" /\ \E m \in SaleMode : form' = [form EXCEPT !.saleMode = m]
     \/ form.saleMode = "one_off" /\ \E b \in BOOLEAN : form' = [form EXCEPT !.replacement = b]
  /\ UNCHANGED <<row, listed, shown, asked, orders>>

(* CommitmentEditor: the fields it shows for c, each with a new answer.    *)
Opened(held) == IF held = "absent" THEN "missing" ELSE held

Refilled(c) ==
  {[c EXCEPT !.common = a] : a \in Answer}
    \cup (IF ~IsDigital(c) THEN {} ELSE
       {[c EXCEPT !.mode = m, !.access = Opened(@)] : m \in {"file", "access"}}
       \cup {[c EXCEPT !.noOtherRestrictions = b, !.exclusions = FALSE] : b \in BOOLEAN}
       \cup {[c EXCEPT !.exclusions = b] : b \in {b \in BOOLEAN : ~c.noOtherRestrictions}}
       \cup {[c EXCEPT !.file = a] : a \in {a \in Answer : c.mode = "file"}}
       \cup {[c EXCEPT !.flags = @ \cup {g}] : g \in {g \in Flag : c.mode = "file"}}
       \cup {[c EXCEPT !.access = a] : a \in {a \in Answer : c.mode = "access"}})

Fill ==
  /\ form # None
  /\ \E c \in Refilled(form.commitment) : form' = [form EXCEPT !.commitment = c]
  /\ UNCHANGED <<row, listed, shown, asked, orders>>

(* publishSchema, of the fields that are not texts.                        *)
publishSchema(f) ==
  /\ f.category = f.type
  /\ f.type = "physical" => f.saleMode = "one_off"

(* onSubmit: the body of POST /listings.                                   *)
BodyOf(f) ==
  [ type |-> f.type, saleMode |-> f.saleMode, category |-> f.category,
    commitment |-> f.commitment,
    supplyMode |-> CASE f.type = "physical" -> None
                     [] f.type = "digital" /\ f.saleMode = "one_off" -> "single"
                     [] OTHER -> "unlimited",
    replacementOf |-> f.saleMode = "one_off" /\ f.replacement,
    terms |-> f.type = "digital" ]

(* create, before its transaction.                                         *)
Consistent(b) ==
  /\ b.type = "physical" => b.saleMode = "one_off" /\ b.supplyMode = None /\ ~b.terms
  /\ b.type = "digital" => b.terms /\ (b.supplyMode = "single") = (b.saleMode = "one_off")
  /\ b.replacementOf => b.saleMode = "one_off"
  /\ b.category = b.type

CreateTakes(b) == Consistent(b) /\ Parses(b.type, b.commitment)

Submit ==
  /\ form # None /\ form.for = "new"
  /\ publishSchema(form) /\ commitmentReady(form.commitment)
  /\ CreateTakes(BodyOf(form))
  /\ row = None
  /\ row' = [ type |-> form.type, saleMode |-> form.saleMode,
              commitment |-> Parsed(form.commitment),
              published |-> TRUE, version |-> 1, content |-> 1 ]
  /\ form' = None
  /\ UNCHANGED <<listed, shown, asked, orders>>

(* A listing of before the commitments, or of a client that sends none.    *)
Earlier ==
  /\ row = None /\ form = None
  /\ \E type \in Type :
       row' = [ type |-> type, saleMode |-> NewForm(type).saleMode, commitment |-> None,
                published |-> TRUE, version |-> 1, content |-> 1 ]
  /\ UNCHANGED <<form, listed, shown, asked, orders>>

-----------------------------------------------------------------------------
(* BackendListings: the list is read when it is opened, turned or reloaded *)
(* and the editor stays open over it.                                      *)
ReadListed ==
  /\ row # None
  /\ listed' = IF row.published THEN row ELSE None
  /\ UNCHANGED <<form, row, shown, asked, orders>>

Editable(l) == l.saleMode # "one_off" \/ orders = {}

Draft(l) == IF l.commitment = None THEN Initial(l.type) ELSE l.commitment

OpenEdit ==
  /\ form = None /\ listed # None
  /\ Editable(listed)
  /\ form' = [NewForm(listed.type) EXCEPT !.for = "edit", !.saleMode = listed.saleMode,
                                          !.commitment = Draft(listed)]
  /\ UNCHANGED <<row, listed, shown, asked, orders>>

Close ==
  /\ form # None
  /\ form' = None
  /\ UNCHANGED <<row, listed, shown, asked, orders>>

(* Fault: an edit leaves the version as it was.                            *)
EditedQuietly(content) ==
  row' = [row EXCEPT !.content = @ + 1, !.commitment = content]

(* ListingCommands.edit: every accepted edit is a version of its own.      *)
Edited(content) ==
  row' = [row EXCEPT !.version = @ + 1, !.content = @ + 1, !.commitment = content]

Save ==
  /\ form # None /\ form.for = "edit" /\ listed # None
  /\ commitmentReady(form.commitment)
  /\ Parses(row.type, form.commitment)
  /\ listed.version = row.version /\ row.version < MaxVersion
  /\ Editable(row)
  /\ Edited(Parsed(form.commitment))
  /\ form' = None
  /\ UNCHANGED <<listed, shown, asked, orders>>

(* The seller from elsewhere: texts, price or images; or off the market    *)
(* and back, which is a version too.                                       *)
EditElsewhere ==
  /\ row # None /\ row.version < MaxVersion
  /\ \/ Editable(row) /\ Edited(row.commitment)
     \/ row' = [row EXCEPT !.version = @ + 1, !.published = ~@]
  /\ UNCHANGED <<form, listed, shown, asked, orders>>

-----------------------------------------------------------------------------
(* A buyer's page of the listing, or a line of the cart.                   *)
Sight == [version |-> row.version, content |-> row.content]

Show ==
  /\ row # None /\ row.published
  /\ shown' = Sight
  /\ UNCHANGED <<form, row, listed, asked, orders>>

(* listingChanged and lineState, of the listing as it is looked up.        *)
Confirm ==
  /\ shown # None /\ asked = None
  /\ row.published /\ row.commitment # None
  /\ row.version = shown.version
  /\ asked' = shown
  /\ UNCHANGED <<form, row, listed, shown, orders>>

(* createOne: the row is locked and copied into the snapshot.              *)
Purchase ==
  /\ asked # None
  /\ row.published /\ row.commitment # None
  /\ row.version = asked.version
  /\ row.saleMode = "one_off" => orders = {}
  /\ orders' = orders \cup {[shown |-> asked.content, copied |-> row.content]}
  /\ asked' = None
  /\ UNCHANGED <<form, row, listed, shown>>

Refuse ==
  /\ asked # None
  /\ asked' = None
  /\ UNCHANGED <<form, row, listed, shown, orders>>

Next ==
  \/ OpenNew \/ Choose \/ Fill \/ Submit \/ Earlier
  \/ \E type \in Type : SwitchTab(type)
  \/ ReadListed \/ OpenEdit \/ Close \/ Save \/ EditElsewhere
  \/ Show \/ Confirm \/ Purchase \/ Refuse

Spec == Init /\ [][Next]_vars

-----------------------------------------------------------------------------
(* The forms and the API fit together, whatever was typed, chosen and      *)
(* switched before: a field that is out of sight never blocks the publish  *)
(* form nor makes its body inconsistent; what the API would take the form  *)
(* lets through; and what the form lets through the API takes, but for an  *)
(* excessive answer and the two boxes that a switch from access to files   *)
(* leaves undefined. What was stored opens ready in the editor, and can be *)
(* saved untouched (publish-form.tsx, commitment-editor.tsx,               *)
(* backend-listings.tsx and commitmentReady beside create and              *)
(* parseCommitment).                                                       *)
Unforeseen(c) == "excessive" \in Asked(c) \/ (c.mode = "file" /\ c.flags # Flag)

FormsAccepted ==
  /\ form # None =>
       LET c == form.commitment
       IN  /\ form.for = "new" => publishSchema(form) /\ Consistent(BodyOf(form))
           /\ Parses(form.type, c) => commitmentReady(c)
           /\ commitmentReady(c) => Parses(form.type, c) \/ Unforeseen(c)
  /\ row # None /\ row.commitment # None =>
       LET c == row.commitment
       IN  commitmentReady(c) /\ Parses(row.type, c) /\ Parsed(c) = c

(* An order says what its buyer was shown when confirming it, whatever the *)
(* seller edits in the meantime and from wherever: the lookup, the version *)
(* of the request and the lock leave no gap (buy-modal.tsx submit,         *)
(* createOne, ListingCommands.edit).                                       *)
BoughtAsShown == \A o \in orders : o.shown = o.copied
=============================================================================
