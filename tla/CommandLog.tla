----------------------------- MODULE CommandLog -----------------------------
(***************************************************************************)
(* What order commands promise to whoever sends them: a command, named by  *)
(* its idempotency key, takes effect at most once, an effect stays, and    *)
(* every caller that is told "ok" is told of that one effect.              *)
(***************************************************************************)
EXTENDS Naturals

CONSTANTS
  Call,    \* deliveries of commands
  KeyOf,   \* KeyOf[c]: the idempotency key c carries
  BodyOf,  \* BodyOf[c]: the request hash of c
  NoCall

VARIABLES
  effect,  \* effect[k]: the delivery that carried out command k
  told     \* told[c]: the effect that the answer to c names

Keys == {KeyOf[c] : c \in Call}

Init ==
  /\ effect = [k \in Keys |-> NoCall]
  /\ told = [c \in Call |-> NoCall]

Execute(c) ==
  /\ effect[KeyOf[c]] = NoCall
  /\ effect' = [effect EXCEPT ![KeyOf[c]] = c]
  /\ UNCHANGED told

Tell(c) ==
  /\ told[c] = NoCall
  /\ effect[KeyOf[c]] # NoCall
  /\ BodyOf[effect[KeyOf[c]]] = BodyOf[c]
  /\ told' = [told EXCEPT ![c] = effect[KeyOf[c]]]
  /\ UNCHANGED effect

Next == \E c \in Call : Execute(c) \/ Tell(c)

Spec == Init /\ [][Next]_<<effect, told>>
=============================================================================
