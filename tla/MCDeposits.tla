----------------------------- MODULE MCDeposits -----------------------------
(* Values of the constants of Deposits for TLC. *)
EXTENDS Deposits

CONSTANTS r1, r2, k1, major, p911

OneKey == [r \in Request |-> k1]
NoKeys == [r \in Request |-> NoKey]
KindOf == [p \in Provider |-> IF p = p911 THEN "911pay" ELSE "MajorPay"]
=============================================================================
