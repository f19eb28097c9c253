------------------------------- MODULE Cluster -------------------------------
(***************************************************************************)
(* The part of Kubernetes the controllers of pkg/controller run against:   *)
(* the API server's Sandbox and Pod objects, the two watch streams, and    *)
(* the informer caches the controllers read from.  None of it is code of   *)
(* this repository; it is modelled from how pkg/controller uses it.        *)
(*                                                                         *)
(* Every write bumps the object's resourceVersion and appends the new      *)
(* object to the stream of its kind.  A stream is delivered in order, one  *)
(* object at a time, so a cache is always a past state of its kind, and    *)
(* the two caches are past by different amounts.                           *)
(***************************************************************************)
EXTENDS Integers, Sequences, FiniteSets

CONSTANTS
  Sandboxes,   \* names of Sandbox objects, each used once
  Pods,        \* names of Pods (GenerateName: each used once)
  None,        \* no Sandbox, no Pod, no token
  Specs,       \* kinds of Sandbox the tenants ask for
  TemplateStates,  \* admission states the template moves through
  NodeTier,    \* what probing each Pod's node measures
  MaxEdits,    \* bound: edits that change the template's hash
  MaxLag,      \* bound: undelivered objects per watch stream
  MaxFaults    \* bound: failed calls, lost answers and restarts

ASSUME NoneAssumption == None \notin Sandboxes \cup Pods \cup Nat
ASSUME SpecsAssumption == Specs \subseteq {"bounded", "permanent", "refused"}
ASSUME TemplateAssumption ==
  /\ TemplateStates \subseteq {"approved", "pending", "rejected", "missing"}
  /\ "approved" \in TemplateStates
ASSUME NodeTierAssumption == NodeTier \in [Pods -> {"meets", "below"}]
ASSUME MaxLagAssumption == MaxLag \in Nat \ {0} /\ MaxEdits \in Nat /\ MaxFaults \in Nat

VARIABLES
  sandboxes,   \* Sandbox objects on the API server
  pods,        \* Pod objects on the API server
  sbxCache,    \* what the Sandbox informer has delivered
  podCache,    \* what the Pod informer has delivered
  sbxWatch,    \* Sandbox objects written and not yet delivered
  podWatch,    \* Pod objects written and not yet delivered
  template,    \* the SandboxTemplate, as both controllers read it
  faults       \* number of faults so far

sandboxVars == <<sandboxes, sbxCache, sbxWatch>>
podVars == <<pods, podCache, podWatch>>
clusterVars == <<sandboxVars, podVars>>

\* "deleting" is an object with a deletionTimestamp that still exists.
Existence == {"absent", "live", "deleting", "gone"}

\* SandboxPhase; the empty phase and Pending take the same branch everywhere.
Phases == {"Pending", "Binding", "Running", "Expired", "Failed"}
Terminal == {"Expired", "Failed"}

(***************************************************************************)
(* A Sandbox: its spec (with a deadline, without one, or with a filesystem *)
(* that execd refuses), its deletion state, whether it carries             *)
(* FinalizerSandbox, and the status fields the control flow depends on.  A *)
(* token is the number of the bind that minted it.                         *)
(***************************************************************************)
SandboxObject ==
  [spec: {"bounded", "permanent", "refused"}, st: Existence, fin: BOOLEAN,
   phase: Phases, pod: Pods \cup {None}, token: Nat \cup {None}, rv: Nat]

(***************************************************************************)
(* A Pod.  LabelState = bound, LabelSandboxID and the controller reference *)
(* are only ever written together, so one field, owner, stands for the     *)
(* three; None is StateIdle.  ready folds the Pod phase, the Ready         *)
(* condition and the presence of a Pod IP; tier is LabelIsolationTier      *)
(* against the template's floor ("" is unmeasured); hash is                *)
(* LabelTemplateHash, numbered in the order the template's versions come.  *)
(***************************************************************************)
Tiers == {"unmeasured", "meets", "below"}

PodObject ==
  [st: Existence, owner: Sandboxes \cup {None}, pool: BOOLEAN,
   ready: {"starting", "ready", "dead"}, tier: Tiers, hash: Nat, rv: Nat]

AbsentSandbox ==
  [spec |-> "bounded", st |-> "absent", fin |-> FALSE, phase |-> "Pending",
   pod |-> None, token |-> None, rv |-> 0]

AbsentPod ==
  [st |-> "absent", owner |-> None, pool |-> FALSE, ready |-> "starting",
   tier |-> "unmeasured", hash |-> 0, rv |-> 0]

Exists(obj) == obj.st \in {"live", "deleting"}

ClusterTypeOK ==
  /\ sandboxes \in [Sandboxes -> SandboxObject]
  /\ pods \in [Pods -> PodObject]
  /\ sbxCache \in [Sandboxes -> SandboxObject]
  /\ podCache \in [Pods -> PodObject]
  /\ sbxWatch \in Seq([key: Sandboxes, obj: SandboxObject])
  /\ podWatch \in Seq([key: Pods, obj: PodObject])
  /\ template \in [st: TemplateStates, hash: Nat]
  /\ faults \in Nat

(***************************************************************************)
(* Writes.  The object written gets the next resourceVersion of its key.   *)
(***************************************************************************)
WriteSandbox(s, obj) ==
  LET new == [obj EXCEPT !.rv = sandboxes[s].rv + 1]
  IN  /\ Len(sbxWatch) < MaxLag
      /\ sandboxes' = [sandboxes EXCEPT ![s] = new]
      /\ sbxWatch' = Append(sbxWatch, [key |-> s, obj |-> new])
      /\ UNCHANGED sbxCache

WritePod(p, obj) ==
  LET new == [obj EXCEPT !.rv = pods[p].rv + 1]
  IN  /\ Len(podWatch) < MaxLag
      /\ pods' = [pods EXCEPT ![p] = new]
      /\ podWatch' = Append(podWatch, [key |-> p, obj |-> new])
      /\ UNCHANGED podCache

\* Optimistic concurrency: an Update is refused when the object has moved on.
SandboxCurrent(s, seen) == seen.rv = sandboxes[s].rv
PodCurrent(p, seen) == seen.rv = pods[p].rv

\* Delete carries no precondition; it only marks the Pod, and is idempotent.
DeletePod(p) ==
  IF pods[p].st = "live"
  THEN WritePod(p, [pods[p] EXCEPT !.st = "deleting"])
  ELSE UNCHANGED podVars

\* A Pod can answer while it exists and its containers run.
Answers(p) == Exists(pods[p]) /\ pods[p].ready = "ready"

\* A call that fails, or a process that dies.
Fault ==
  /\ faults < MaxFaults
  /\ faults' = faults + 1

\* An edit of the template, its deletion, or a new admission verdict.
ChangeTemplate ==
  \E st \in TemplateStates, edit \in {0, 1} :
    /\ template' = [st |-> st, hash |-> template.hash + edit]
    /\ template' # template
    /\ template.hash + edit <= MaxEdits
=============================================================================
