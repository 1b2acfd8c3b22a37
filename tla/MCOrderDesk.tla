---------------------------- MODULE MCOrderDesk ----------------------------
(***************************************************************************)
(* A small market with its desks, the page of one order, and a listing on  *)
(* its way from the form to an order. The three share no state: a          *)
(* behaviour picks one and leaves the others where they begin.             *)
(***************************************************************************)
EXTENDS OrderDesk, MCMarket

CONSTANTS
  MaxSteps, MaxPolls, Unread, Failed,  \* OrderView
  MaxVersion, None                     \* Publishing

(* Names that the code tells apart: no answer and a failed one from a      *)
(* commit of an order.                                                     *)
ASSUME NamesApart ==
  /\ MaxSteps \in Nat /\ MaxPolls \in Nat /\ MaxVersion \in Nat
  /\ {Unread, Failed} \cap (0..MaxSteps) = {} /\ Unread # Failed

VARIABLES
  part,
  rows, request, result, previous, changed, command, polls,  \* OrderView
  form, row, listed, shown, asked, orders                    \* Publishing

V == INSTANCE OrderView
F == INSTANCE Publishing

(* No row is a row of no listing.                                          *)
Sold ==
  [ type : F!Type, saleMode : F!SaleMode, commitment : F!ProductCommitment \cup {None},
    published : BOOLEAN, version : Nat, content : Nat ]

ASSUME NoRow == None \notin Sold

viewVars == <<rows, request, result, previous, changed, command, polls>>
formVars == <<form, row, listed, shown, asked, orders>>

PartsInit ==
  /\ part \in {"desk", "page", "forms"}
  /\ DeskInit /\ V!Init /\ F!Init

PartsNext ==
  /\ UNCHANGED part
  /\ \/ part = "desk" /\ Desk(FirmNext) /\ UNCHANGED <<viewVars, formVars>>
     \/ part = "page" /\ V!Next /\ UNCHANGED <<deskVars, formVars>>
     \/ part = "forms" /\ F!Next /\ UNCHANGED <<deskVars, viewVars>>

PartsSpec == PartsInit /\ [][PartsNext]_<<part, deskVars, viewVars, formVars>>

-----------------------------------------------------------------------------
(* The records of a page are no older than the status they stand under.    *)
HistoryFollows == V!HistoryFollows

(* The forms and the API fit together.                                     *)
FormsAccepted == F!FormsAccepted

(* An order says what its buyer was shown.                                 *)
BoughtAsShown == F!BoughtAsShown
=============================================================================
