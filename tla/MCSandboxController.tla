------------------------ MODULE MCSandboxController ------------------------
(* Small instances of SandboxController for TLC. *)
EXTENDS SandboxController, TLC

CONSTANTS s1, s2, p1, p2

\* Every node meets the template's floor.
AllMeet == [p \in Pods |-> "meets"]

\* Pods that land on the second node measure below the floor.
SecondBelow == [p \in Pods |-> IF p = p2 THEN "below" ELSE "meets"]

SandboxSymmetry == Permutations(Sandboxes)
=============================================================================
