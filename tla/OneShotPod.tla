----------------------------- MODULE OneShotPod -----------------------------
(***************************************************************************)
(* What the platform promises about a Pod (docs/DESIGN.md: one Sandbox has *)
(* a Pod to itself, and the Pod goes with it; labels.go: a bound Pod "will *)
(* never be reused").  A Pod is handed to one Sandbox, once; its execd     *)
(* serves that Sandbox and no other, from one bind; a Pod on its way out   *)
(* is never handed to anyone.                                              *)
(***************************************************************************)
CONSTANTS Sandboxes, Pods, None

VARIABLES
  owner,    \* the Sandbox each Pod was handed to
  serves,   \* the Sandbox the Pod's execd was bound for
  retired   \* Pods that are being or have been removed

vars == <<owner, serves, retired>>

Init ==
  /\ owner = [p \in Pods |-> None]
  /\ serves = [p \in Pods |-> None]
  /\ retired = {}

Assign(p, s) ==
  /\ p \notin retired
  /\ owner[p] = None
  /\ owner' = [owner EXCEPT ![p] = s]
  /\ UNCHANGED <<serves, retired>>

Serve(p) ==
  /\ owner[p] # None /\ serves[p] = None
  /\ serves' = [serves EXCEPT ![p] = owner[p]]
  /\ UNCHANGED <<owner, retired>>

Retire(p) ==
  /\ retired' = retired \cup {p}
  /\ UNCHANGED <<owner, serves>>

Next ==
  \E p \in Pods : (\E s \in Sandboxes : Assign(p, s)) \/ Serve(p) \/ Retire(p)

Spec == Init /\ [][Next]_vars
=============================================================================
