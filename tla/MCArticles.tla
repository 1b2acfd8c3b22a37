----------------------------- MODULE MCArticles -----------------------------
(***************************************************************************)
(* Two scenes over the same two one-off listings. "article": one of them   *)
(* and at most two orders, under every handler. "carts": both, with carts  *)
(* of two lines against single orders, disputes and the timer, while no    *)
(* listing is reported, withdrawn or edited.                               *)
(***************************************************************************)
EXTENDS MCMarket, Shopfront

VARIABLE scene

SceneInit == Init /\ scene \in {"article", "carts"}

SecondStands == listing'[l2] = listing[l2] /\ inventory'[l2] = inventory[l2]
TwoOrders == Cardinality({o \in Order : order'[o].status # "none"}) <= 2

SceneNext ==
  /\ UNCHANGED scene
  /\ \/ scene = "article" /\ Next /\ SecondStands /\ TwoOrders
     \/ scene = "carts" /\ QuietNext

sceneVars == <<vars, scene>>

SceneSpec == SceneInit /\ [][SceneNext]_sceneVars
=============================================================================
