---------------------------- MODULE OneShotExecd ----------------------------
(***************************************************************************)
(* What execd promises (pkg/execd/server.go): "A Pod serves exactly one    *)
(* sandbox for its whole life."  It is free until a bind succeeds, serves  *)
(* what that bind asked for, and is spent once the sandbox is torn down,   *)
(* or once it was told to go while still free.                             *)
(***************************************************************************)
CONSTANTS Calls, NoCall

VARIABLES
  serving,   \* the bind request whose sandbox is served
  spent      \* nothing is served any more, nor ever will be

vars == <<serving, spent>>

Init == serving = NoCall /\ spent = FALSE

Bind(c) ==
  /\ serving = NoCall /\ ~spent
  /\ serving' = c
  /\ UNCHANGED spent

Expire ==
  /\ serving' = NoCall
  /\ spent' = TRUE

Next == (\E c \in Calls : Bind(c)) \/ Expire

Spec == Init /\ [][Next]_vars
=============================================================================
