----------------------------- MODULE ControlPlane -----------------------------
(***************************************************************************)
(* jdix-controller: SandboxReconciler and PoolReconciler in one process,   *)
(* over one set of informer caches.  They share the Pods: the pool makes   *)
(* and removes them, Sandboxes take them.                                  *)
(***************************************************************************)
EXTENDS SandboxController, PoolController

allVars == <<vars, poolVars>>

ControlPlaneTypeOK == TypeOK /\ PoolTypeOK

ControlPlaneInit == Init /\ PoolInit

SandboxStep == Work /\ UNCHANGED poolVars

PoolStep == PoolWork /\ UNCHANGED <<execd, due, controllerVars>>

\* The process restarts: no pass of the pool survives either.
ProcessRestart == Restart /\ pool' = NoPass /\ UNCHANGED <<replicas, age>>

ControlPlaneNext == SandboxStep \/ PoolStep \/ ProcessRestart

ControlPlaneSpec == ControlPlaneInit /\ [][ControlPlaneNext]_allVars

(***************************************************************************)
(* For liveness the names of Pods must not run out: a name is used again   *)
(* once nothing refers to the Pod that had it.                             *)
(***************************************************************************)
ForgetPod(p) ==
  /\ pods[p].st = "gone" /\ pods[p].owner = None
  /\ podCache[p] = pods[p]
  /\ p \notin pool.idle \cup pool.pending \cup pool.stale \cup pool.expired \cup pool.stuck
  /\ \A w \in pool.unmeasured : w.pod # p
  /\ pods' = [pods EXCEPT ![p] = AbsentPod]
  /\ podCache' = [podCache EXCEPT ![p] = AbsentPod]
  /\ age' = [age EXCEPT ![p] = "fresh"]
  /\ UNCHANGED <<sandboxVars, podWatch, template, faults, execd, due, controllerVars,
                 replicas, pool>>

(***************************************************************************)
(* The pool is reconciled again and again (poolResync); a scale or an edit *)
(* may never come.                                                         *)
(***************************************************************************)
RecyclingSpec ==
  /\ ControlPlaneInit
  /\ [][ControlPlaneNext \/ \E p \in Pods : ForgetPod(p)]_allVars
  /\ WF_allVars(SandboxStep /\ DeliverPod)
  /\ WF_allVars(PoolStep /\ PoolReconcile)
  /\ \A p \in Pods : /\ WF_allVars(SandboxStep /\ (KubeletStarts(p) \/ KubeletRemoves(p)))
                     /\ WF_allVars(ForgetPod(p))

-----------------------------------------------------------------------------
(* Properties.                                                             *)

\* Pods a Sandbox could be given at once.
Supply ==
  {p \in Pods : /\ pods[p].st = "live" /\ pods[p].pool /\ pods[p].owner = None
                /\ pods[p].ready = "ready" /\ pods[p].tier = "meets"
                /\ pods[p].hash = template.hash}

\* After every rollout, and every overshoot from a list that did not show the
\* Pods just created, the pool comes back to its target, unless it is scaled
\* for ever or its Pods keep outliving the timeouts (Reconcile, poolResync).
PoolRefills ==
  \/ []<>(Cardinality(Supply) = desiredReplicas)
  \/ []<><<Scale>>_replicas
  \/ []<><<\E p \in Pods : GrowOlder(p)>>_age

\* A Pod the pool takes for an orphan belonged to a Sandbox that is really
\* gone, although classify reads the Pod and the Sandbox from two caches that
\* lag by different amounts (sandboxMissing).
OrphansAreOrphans ==
  \A p \in pool.orphans :
    pods[p].owner # None /\ sandboxes[pods[p].owner].st = "gone"

-----------------------------------------------------------------------------
(* What comments of the code say and lagging caches refute.                *)

\* PoolReconciler: a controller that deletes a bound Pod "out from under a
\* tenant" is what bare Pods are there to avoid.
PoolSparesTenants ==
  [][\A p \in Pods :
       PoolStep /\ pods'[p].st = "deleting" /\ pods[p].st = "live" =>
         pods[p].owner = None \/ sandboxes[pods[p].owner].st = "gone"]_allVars

\* SandboxPoolStatus: "a Pod only counts for a template whose
\* minIsolationTier its node can actually meet".
IdleMeetsFloor == \A p \in pool.idle : NodeTier[p] = "meets"

\* Reconcile: "Replace stale Pods before adding new ones, so a rollout
\* converges instead of doubling the pool first": at most the surge on top.
RolloutBounded ==
  Cardinality({p \in Pods : pods[p].st = "live" /\ pods[p].pool /\ pods[p].owner = None})
    <= surge + Max(Targets)

AgeRank(a) == CASE a = "fresh" -> 0 [] a = "late" -> 1 [] OTHER -> 2

\* Reconcile: "Trim, oldest first".
TrimsOldestFirst ==
  \A p \in pool.trimmed, q \in pool.idle \ pool.trimmed :
    AgeRank(age[p]) >= AgeRank(age[q])
=============================================================================
