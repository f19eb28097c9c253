------------------------------- MODULE DataPlane -------------------------------
(***************************************************************************)
(* The data plane and its clients: requests through the gateway, or, in    *)
(* the scene "client", the life of one handle of an SDK.                   *)
(***************************************************************************)
EXTENDS Gateway, Handle

vars == <<gatewayVars, handleVars>>

TypeOK == GatewayTypeOK /\ HandleTypeOK

Init == GatewayInit /\ HandleInit

Next ==
  \/ scene # "client" /\ GatewayNext /\ UNCHANGED handleVars
  \/ scene = "client" /\ HandleNext /\ UNCHANGED gatewayVars

Spec == Init /\ [][Next]_vars
=============================================================================
