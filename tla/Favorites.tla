----------------------------- MODULE Favorites -----------------------------
(***************************************************************************)
(* The favorites of a browser: a list in localStorage of which every tab   *)
(* keeps a copy, told of the changes of other tabs by storage events.      *)
(***************************************************************************)
EXTENDS Naturals, FiniteSets, SequencesExt

CONSTANTS
  BrowserTab, Favorite,
  Unset,    \* the value of a tab that has not read the list yet
  MaxEvents \* bound: events that a tab has still to handle

VARIABLES
  saved,  \* localStorage
  value,  \* useLocalStorage.valueRef of each tab
  events  \* storage events each tab has still to handle, by their new value

vars == <<saved, value, events>>

TypeOK ==
  /\ saved \subseteq Favorite
  /\ \A t \in BrowserTab : /\ value[t] = Unset \/ value[t] \subseteq Favorite
                           /\ Len(events[t]) <= MaxEvents
                           /\ \A i \in DOMAIN events[t] : events[t][i] \subseteq Favorite

Init ==
  /\ saved = {}
  /\ value = [t \in BrowserTab |-> Unset]
  /\ events = [t \in BrowserTab |-> <<>>]

Mounted(t) == value[t] # Unset

(* The effect reads what is saved and begins to listen.                    *)
Mount(t) ==
  /\ ~Mounted(t)
  /\ value' = [value EXCEPT ![t] = saved]
  /\ UNCHANGED <<saved, events>>

Unmount(t) ==
  /\ Mounted(t)
  /\ value' = [value EXCEPT ![t] = Unset]
  /\ events' = [events EXCEPT ![t] = <<>>]
  /\ UNCHANGED saved

Tell(t, v) ==
  events' = [u \in BrowserTab |->
    IF u # t /\ Mounted(u) THEN Append(events[u], v) ELSE events[u]]

Set(t, v) ==
  /\ \A u \in BrowserTab : Len(events[u]) < MaxEvents
  /\ saved' = v
  /\ value' = [value EXCEPT ![t] = v]
  /\ IF v = saved THEN UNCHANGED events ELSE Tell(t, v)

Toggle(t, i) ==
  /\ Mounted(t)
  /\ Set(t, IF i \in value[t] THEN value[t] \ {i} ELSE value[t] \cup {i})

(* Fault: the event's own value is taken for the list.                     *)
HearValue(t) ==
  /\ events[t] # <<>>
  /\ value' = [value EXCEPT ![t] = Head(events[t])]
  /\ events' = [events EXCEPT ![t] = Tail(@)]
  /\ UNCHANGED saved

Hear(t) ==
  /\ events[t] # <<>>
  /\ value' = [value EXCEPT ![t] = saved]
  /\ events' = [events EXCEPT ![t] = Tail(@)]
  /\ UNCHANGED saved

Next ==
  \E t \in BrowserTab :
    \/ Mount(t) \/ Unmount(t) \/ Hear(t)
    \/ \E i \in Favorite : Toggle(t, i)

Spec == Init /\ [][Next]_vars

-----------------------------------------------------------------------------
(* A tab that has heard of every change shows what is saved, in whatever   *)
(* order the tabs wrote over each other's lists.                           *)
TabsAgree ==
  \A t \in BrowserTab : Mounted(t) /\ events[t] = <<>> => value[t] = saved
=============================================================================
