------------------------------- MODULE Handlers -------------------------------
(***************************************************************************)
(* What the handlers of pkg/apiserver have in common.  A handler is cut at *)
(* every call it makes to the store or to Kubernetes.  The calls carry the *)
(* request's context, so once the client has gone they fail; MemStore's    *)
(* ignore it.  The audit log is written and never read, and is left out.   *)
(***************************************************************************)
EXTENDS Integers, FiniteSets

CONSTANTS
  Requests,      \* every request, retries included
  Mixes,         \* the sets of requests that are made together
  Stores,        \* the stores the server is run with
  MaxInFlight,   \* bound: requests handled at a time
  MaxFaults,     \* bound: failed calls, departed clients and restarts
  FaultKinds,    \* the faults there are
  None

ASSUME RequestAssumption ==
  IsFiniteSet(Requests) /\ None \notin Requests /\ Mixes \subseteq SUBSET Requests
ASSUME StoreAssumption == Stores \subseteq {"memory", "postgres"}
ASSUME HandlerBounds == MaxInFlight \in Nat \ {0} /\ MaxFaults \in Nat

VARIABLES
  store,      \* the store the server was started with
  at,         \* per request: the next call of its handler
  answer,     \* per request: the response
  departed,   \* requests in flight whose client has gone
  faults

handlerVars == <<store, at, answer, departed, faults>>

Steps == {"new", "concurrent", "rate", "create", "record", "save", "poll", "polled",
          "reject", "budget", "tenant", "pool", "approve", "done"}
Responses == {"none", "ok", "blank", "refused", "not_found", "mismatch", "quota_concurrent",
              "quota_create_rate", "already_reviewed", "budget_exceeded", "error", "lost"}

HandlersTypeOK ==
  /\ store \in Stores
  /\ at \in [Requests -> Steps]
  /\ answer \in [Requests -> Responses]
  /\ departed \subseteq Requests
  /\ faults \in 0..MaxFaults

HandlersInit ==
  /\ store \in Stores
  /\ \E mix \in Mixes : at = [r \in Requests |-> IF r \in mix THEN "new" ELSE "done"]
  /\ answer = [r \in Requests |-> "none"]
  /\ departed = {}
  /\ faults = 0

InFlight == {r \in Requests : at[r] \notin {"new", "done"}}

Fault(kind) == kind \in FaultKinds /\ faults < MaxFaults /\ faults' = faults + 1

Goto(r, step) ==
  /\ at' = [at EXCEPT ![r] = step]
  /\ UNCHANGED <<answer, departed>>

Answer(r, a) ==
  /\ at' = [at EXCEPT ![r] = "done"]
  /\ answer' = [answer EXCEPT ![r] = IF r \in departed THEN "lost" ELSE a]
  /\ departed' = departed \ {r}

Arrives(r) == at[r] = "new" /\ Cardinality(InFlight) < MaxInFlight

\* A query of r goes through, or fails.
StoreWorks(r) == (store = "postgres" => r \notin departed) /\ UNCHANGED faults

StoreFails(r) ==
  /\ store = "postgres"
  /\ (r \in departed /\ UNCHANGED faults) \/ Fault("store")

\* A write to Kubernetes: it succeeds, fails without effect, or its effect
\* stands and the answer is lost.
KubeWorks(r) == r \notin departed /\ UNCHANGED faults
KubeFails(r) == (r \in departed /\ UNCHANGED faults) \/ Fault("kube")

Depart(r) ==
  /\ r \in InFlight \ departed
  /\ Fault("depart")
  /\ departed' = departed \cup {r}
  /\ UNCHANGED <<store, at, answer>>

\* The process ends with every handler it runs.
HandlersRestart ==
  /\ Fault("restart")
  /\ at' = [r \in Requests |-> IF r \in InFlight THEN "done" ELSE at[r]]
  /\ answer' = [r \in Requests |-> IF r \in InFlight THEN "lost" ELSE answer[r]]
  /\ departed' = {}
  /\ UNCHANGED store
=============================================================================
