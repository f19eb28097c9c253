------------------------------- MODULE MCReaper -------------------------------
EXTENDS Reaper

CONSTANTS j1, j2, j3, j4, p1, p2, p3

\* One command, one terminal, and orphans.
OneOfEach == [j \in Jobs |-> CASE j = j1 -> "started" [] j = j2 -> "adopted" [] OTHER -> "orphan"]

SomeOrphans == [j \in Jobs |-> IF j = j1 THEN "started" ELSE "orphan"]
=============================================================================
