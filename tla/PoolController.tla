---------------------------- MODULE PoolController ----------------------------
(***************************************************************************)
(* PoolReconciler of pkg/controller/pool_controller.go, for one pool.      *)
(*                                                                         *)
(* A pass lists the pool's Pods from the cache once and works from that    *)
(* list to the end: it measures, deletes, creates and trims, one API call  *)
(* at a time, while tenants' claims, deliveries and kubelets go on.  The   *)
(* pass is repeated for ever (poolResync, and events on the pool's Pods).  *)
(* The list has no order (an informer's store is a map), so "the first n"  *)
(* of it are any n.                                                        *)
(***************************************************************************)
EXTENDS Cluster, FiniteSetsExt

CONSTANTS
  Targets,      \* values spec.replicas is given
  MinReplicas,
  MaxReplicas,
  MaxSurge,
  Aging         \* Pods that may grow older than the pool's timeouts

ASSUME TargetsAssumption == Targets \subseteq Nat /\ Targets # {}
ASSUME ReplicasAssumption ==
  MinReplicas \in Nat /\ MaxReplicas \in Nat /\ MaxSurge \in Nat
ASSUME AgingAssumption == Aging \subseteq Pods

VARIABLES
  replicas,     \* spec.replicas of the pool
  pool,         \* the Reconcile in flight
  age           \* per Pod: younger than NotReadyTimeout, than IdleTTL, or older

poolVars == <<replicas, pool, age>>

Ages == {"fresh", "late", "old"}

\* The poolState of a pass, and what is left of it to act on.  unmeasured
\* holds Pods still to be probed with the version the list has of them.
PoolPass ==
  [working: BOOLEAN, want: Nat, hash: Nat,
   unmeasured: SUBSET [pod: Pods, rv: Nat],
   idle: SUBSET Pods, pending: SUBSET Pods, stale: SUBSET Pods,
   expired: SUBSET Pods, stuck: SUBSET Pods, orphans: SUBSET Pods,
   created: Nat, trimmed: SUBSET Pods]

NoPass ==
  [working |-> FALSE, want |-> 0, hash |-> 0, unmeasured |-> {},
   idle |-> {}, pending |-> {}, stale |-> {}, expired |-> {}, stuck |-> {},
   orphans |-> {}, created |-> 0, trimmed |-> {}]

PoolTypeOK ==
  /\ replicas \in Targets
  /\ pool \in PoolPass
  /\ age \in [Pods -> Ages]

PoolInit ==
  /\ replicas \in Targets
  /\ pool = NoPass
  /\ age = [p \in Pods |-> "fresh"]

\* desiredReplicas; a MaxReplicas of zero is no ceiling.
desiredReplicas ==
  LET floor == IF replicas < MinReplicas THEN MinReplicas ELSE replicas
  IN  IF MaxReplicas > 0 /\ floor > MaxReplicas THEN MaxReplicas ELSE floor

-----------------------------------------------------------------------------
(* classify.                                                               *)

\* Mutant: a Sandbox that is being deleted counts as missing.
SandboxLeaving(s) == sbxCache[s].st # "live"

SandboxMissing(s) == ~Exists(sbxCache[s])

\* The pool's Pods as the cache lists them, without those being deleted.
Listed == {p \in Pods : podCache[p].st = "live" /\ podCache[p].pool}
Free == {p \in Listed : podCache[p].owner = None}
Ready == {p \in Free : podCache[p].ready = "ready"}
Current == {p \in Ready : podCache[p].hash = template.hash}
Unexpired == {p \in Current : age[p] # "old"}

\* How many stale Pods one pass retires.
surge == IF MaxSurge > 0 THEN MaxSurge ELSE 3

\* The list, and everything classify says of it without a probe.
ListPods ==
  /\ ~pool.working
  /\ template.st = "approved"
  /\ \E stale \in SUBSET (Ready \ Current) :
       /\ Cardinality(stale) = Min({surge, Cardinality(Ready \ Current)})
       /\ pool' =
            [NoPass EXCEPT
               !.working = TRUE,
               !.want = desiredReplicas,
               !.hash = template.hash,
               !.unmeasured = {[pod |-> p, rv |-> podCache[p].rv] :
                                 p \in {q \in Unexpired : podCache[q].tier = "unmeasured"}},
               !.idle = {p \in Unexpired : podCache[p].tier # "unmeasured"},
               !.pending = {p \in Free : podCache[p].ready = "starting" /\ age[p] = "fresh"},
               !.stale = stale,
               !.expired = Current \ Unexpired,
               !.stuck = {p \in Free : \/ podCache[p].ready = "dead"
                                       \/ podCache[p].ready = "starting" /\ age[p] # "fresh"},
               !.orphans = {p \in Listed \ Free : SandboxMissing(podCache[p].owner)}]
  /\ UNCHANGED <<clusterVars, template, faults, replicas, age>>

\* measure: a failed probe leaves the Pod pending; a failed Update is ignored.
Measure(w) ==
  LET p == w.pod IN
  /\ w \in pool.unmeasured
  /\ \/ /\ \/ ~Answers(p) /\ UNCHANGED faults
           \/ Fault
        /\ pool' = [pool EXCEPT !.unmeasured = @ \ {w}, !.pending = @ \cup {p}]
        /\ UNCHANGED podVars
     \/ /\ Answers(p)
        /\ \/ /\ w.rv = pods[p].rv
              /\ WritePod(p, [pods[p] EXCEPT !.tier = NodeTier[p]])
              /\ UNCHANGED faults
           \/ /\ \/ w.rv # pods[p].rv /\ UNCHANGED faults
                 \/ Fault
              /\ UNCHANGED podVars
        /\ pool' = IF NodeTier[p] = "meets"
                   THEN [pool EXCEPT !.unmeasured = @ \ {w}, !.idle = @ \cup {p}]
                   ELSE [pool EXCEPT !.unmeasured = @ \ {w}, !.stuck = @ \cup {p}]
  /\ UNCHANGED <<sandboxVars, template, replicas, age>>

-----------------------------------------------------------------------------
(* The rest of Reconcile.                                                  *)

\* delete carries no precondition, and its error is ignored.
PoolDelete(p) ==
  \/ DeletePod(p) /\ UNCHANGED faults
  \/ UNCHANGED podVars /\ Fault

Classified == pool.working /\ pool.unmeasured = {}

\* Stale Pods go first, then the expired, the stuck and the orphans.
Retire(p) ==
  /\ Classified
  /\ \/ p \in pool.stale /\ pool' = [pool EXCEPT !.stale = @ \ {p}]
     \/ pool.stale = {} /\ p \in pool.expired /\ pool' = [pool EXCEPT !.expired = @ \ {p}]
     \/ /\ pool.stale \cup pool.expired = {} /\ p \in pool.stuck
        /\ pool' = [pool EXCEPT !.stuck = @ \ {p}]
     \/ /\ pool.stale \cup pool.expired \cup pool.stuck = {} /\ p \in pool.orphans
        /\ pool' = [pool EXCEPT !.orphans = @ \ {p}]
  /\ PoolDelete(p)
  /\ UNCHANGED <<sandboxVars, template, replicas, age>>

Swept ==
  Classified /\ pool.stale \cup pool.expired \cup pool.stuck \cup pool.orphans = {}

\* Mutant: the loop that creates stops one early.
HaveOneMore == Cardinality(pool.idle) + Cardinality(pool.pending) + pool.created + 1

Have == Cardinality(pool.idle) + Cardinality(pool.pending) + pool.created

IdlePod == [AbsentPod EXCEPT !.st = "live", !.pool = TRUE, !.hash = pool.hash]

\* A Create that fails ends the loop.
Fill ==
  /\ Swept
  /\ Have < pool.want
  /\ \/ \E p \in Pods :
          /\ pods[p].st = "absent"
          /\ WritePod(p, IdlePod)
          /\ pool' = [pool EXCEPT !.created = @ + 1]
          /\ UNCHANGED faults
     \/ /\ \/ (\A p \in Pods : pods[p].st # "absent") /\ UNCHANGED faults
           \/ Fault
        /\ pool' = [pool EXCEPT !.created = pool.want]
        /\ UNCHANGED podVars
  /\ UNCHANGED <<sandboxVars, template, replicas, age>>

Surplus == Cardinality(pool.idle) - pool.want - Cardinality(pool.trimmed)

Trim(p) ==
  /\ Swept /\ Have >= pool.want
  /\ Surplus > 0
  /\ p \in pool.idle \ pool.trimmed
  /\ pool' = [pool EXCEPT !.trimmed = @ \cup {p}]
  /\ PoolDelete(p)
  /\ UNCHANGED <<sandboxVars, template, replicas, age>>

\* The status is a report; the pass ends whether or not it is written.
PublishStatus ==
  /\ Swept /\ Have >= pool.want /\ Surplus <= 0
  /\ pool' = NoPass
  /\ UNCHANGED <<clusterVars, template, faults, replicas, age>>

\* An operator, or a reviewed warm-up request, changes spec.replicas.
Scale ==
  /\ \E n \in Targets \ {replicas} : replicas' = n
  /\ UNCHANGED <<clusterVars, template, faults, pool, age>>

GrowOlder(p) ==
  /\ p \in Aging /\ Exists(pods[p]) /\ age[p] # "old"
  /\ age' = [age EXCEPT ![p] = IF @ = "fresh" THEN "late" ELSE "old"]
  /\ UNCHANGED <<clusterVars, template, faults, replicas, pool>>

PoolReconcile ==
  \/ ListPods \/ Fill \/ PublishStatus
  \/ \E w \in pool.unmeasured : Measure(w)
  \/ \E p \in Pods : Retire(p) \/ Trim(p)

PoolWork == PoolReconcile \/ Scale \/ \E p \in Pods : GrowOlder(p)
=============================================================================
