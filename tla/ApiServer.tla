------------------------------ MODULE ApiServer ------------------------------
(***************************************************************************)
(* jdix-server's API: requests to create sandboxes and to warm templates,  *)
(* handled side by side over one store.                                    *)
(***************************************************************************)
EXTENDS CreateSandbox, Warmup

ASSUME KindsAssumption == Creates \cap (Asks \cup Reviews) = {}

vars == <<handlerVars, createVars, warmupVars>>

TypeOK == HandlersTypeOK /\ CreateTypeOK /\ WarmupTypeOK

Init == HandlersInit /\ CreateInit /\ WarmupInit

Restart == HandlersRestart /\ CreateRestart /\ WarmupRestart

Next ==
  \/ CreateStep /\ UNCHANGED warmupVars
  \/ WarmupStep /\ UNCHANGED createVars
  \/ \E r \in Requests : Depart(r) /\ UNCHANGED <<createVars, warmupVars>>
  \/ Restart

Spec == Init /\ [][Next]_vars
=============================================================================
