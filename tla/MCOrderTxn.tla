----------------------------- MODULE MCOrderTxn -----------------------------
(* Two deliveries of one command, a third with its key but another body,   *)
(* and one of a command of its own.                                        *)
EXTENDS OrderTxn, TLC

CONSTANTS c1, c2, c3, c4, k1, k2, b1, b2

Keyed == [c \in Call |-> IF c = c4 THEN k2 ELSE k1]
OneOdd == [c \in Call |-> IF c = c3 THEN b2 ELSE b1]
=============================================================================
