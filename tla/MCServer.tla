------------------------------ MODULE MCServer ------------------------------
(* Instances of Server.                                                    *)
EXTENDS Server, TLC

CONSTANTS init, six, twin, u1, c1

Versions == init :> 1 @@ six :> 6 @@ twin :> 6
Links == u1 :> c1
Deployed == {{init, six}, {init, six, twin}}
Amounts == {-1, 1}
=============================================================================
