------------------------------- MODULE MCExecd -------------------------------
EXTENDS Execd

CONSTANTS c1, c2

\* The second request is a retry of the first.
SameSandbox == [c \in Calls |-> "s1"]

SomeAsks == {-2, 1}

ShortTTL == [c \in Calls |-> 1]
MixedTTL == [c \in Calls |-> IF c = c1 THEN 1 ELSE 0]
=============================================================================
