---------------------------- MODULE MCControlPlane ----------------------------
EXTENDS ControlPlane

CONSTANTS s1, p1, p2, p3, p4, p5, p6

AllMeet == [p \in Pods |-> "meets"]
FirstBelow == [p \in Pods |-> IF p = p1 THEN "below" ELSE "meets"]
=============================================================================
