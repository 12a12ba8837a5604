---------------------------- MODULE MCDeployment -----------------------------
(* Values of the constants of module Deployment for TLC.                   *)
EXTENDS Deployment, TLC

CONSTANTS d1, d2, v1, v2, c1, c2

OneVm    == d1 :> v1
TwoVms   == d1 :> v1 @@ d2 :> v2
AnyOp    == [c \in Callers |-> Ops]
AnyState == L!States
=============================================================================
