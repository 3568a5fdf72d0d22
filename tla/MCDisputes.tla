----------------------------- MODULE MCDisputes -----------------------------
(* Values of the constants of Disputes for TLC. *)
EXTENDS Disputes

CONSTANTS w1, w2, a1, g1, g2, t1, x1, x2

(* Every dispute is about one transaction, which the first provider holds. *)
SameTx == [f \in Filing |-> t1]
FirstProvider == [t \in Tx |-> x1]

(* Two bulk requests name the providers in opposite orders.                *)
Opposite == [g \in Toggle |-> IF g = g1 THEN <<x1, x2>> ELSE <<x2, x1>>]
=============================================================================
