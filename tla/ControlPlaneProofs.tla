-------------------------- MODULE ControlPlaneProofs --------------------------
(***************************************************************************)
(* What SandboxControllerProofs shows of the Sandbox controller alone      *)
(* still holds when the pool controller works on the same Pods, from its   *)
(* own stale lists.                                                        *)
(***************************************************************************)
EXTENDS ControlPlane, SandboxControllerProofs

\* A step of the pool writes, at most, one Pod, and gives or takes no owner.
LEMMA PoolPodEffect ==
  ASSUME Inv, PoolTypeOK, PoolWork
  PROVE  PodEffect
<1> USE DEF clusterVars
<1>1. \A p \in Pods : pods[p] \in PodObject
  BY DEF Inv, TypeOK, ClusterTypeOK
<1>2. ASSUME NEW p \in Pods, PoolDelete(p) PROVE PodEffect
  BY <1>2, DeletePodEffect, SMTT(30) DEF PoolDelete, PodEffect, Inv
<1>3. CASE ListPods \/ PublishStatus \/ Scale \/ (\E p \in Pods : GrowOlder(p))
  BY <1>3, Zenon DEF ListPods, PublishStatus, Scale, GrowOlder, PodEffect
<1>4. ASSUME NEW w \in pool.unmeasured, Measure(w) PROVE PodEffect
  <2>1. w.pod \in Pods
    BY DEF PoolTypeOK, PoolPass
  <2> DEFINE obj == [pods[w.pod] EXCEPT !.tier = NodeTier[w.pod]]
  <2>2. NodeTier[w.pod] \in Tiers
    BY <2>1, NodeTierAssumption DEF Tiers
  <2>3. obj \in PodObject /\ obj.owner = pods[w.pod].owner /\ obj.st = pods[w.pod].st
    BY <1>1, <2>1, <2>2 DEF PodObject
  <2>4. KeepsOwner(w.pod, obj)
    BY <2>1, <2>3 DEF KeepsOwner, Retired, Inv, Coherent, PodsCoherent
  <2>5. UNCHANGED podVars \/ WritePod(w.pod, obj)
    BY <1>4 DEF Measure
  <2> HIDE DEF obj
  <2> QED
    BY <2>1, <2>3, <2>4, <2>5, WritePodEffect DEF PodEffect
<1>5. ASSUME NEW p \in Pods, Retire(p) \/ Trim(p) PROVE PodEffect
  BY <1>2, <1>5 DEF Retire, Trim
<1>6. CASE Fill
  <2>1. CASE UNCHANGED podVars
    BY <2>1 DEF PodEffect
  <2>2. ASSUME NEW p \in Pods, pods[p].st = "absent", WritePod(p, IdlePod) PROVE PodEffect
    <3>1. pool.hash \in Nat
      BY DEF PoolTypeOK, PoolPass
    <3>2. IdlePod \in PodObject /\ IdlePod.owner = None /\ IdlePod.st = "live"
      BY <3>1, Zenon DEF IdlePod, AbsentPod, PodObject, Existence, Tiers
    <3>3. pods[p].owner = None
      BY <2>2 DEF Inv, Coherent, PodsCoherent
    <3>4. KeepsOwner(p, IdlePod)
      BY <2>2, <3>2, <3>3 DEF KeepsOwner, Retired
    <3> QED
      BY <2>2, <3>2, <3>4, WritePodEffect
  <2> QED
    BY <1>6, <2>1, <2>2 DEF Fill
<1> QED
  BY <1>3, <1>4, <1>5, <1>6 DEF PoolWork, PoolReconcile

\* It leaves every Sandbox, execd and pass of the Sandbox controller alone.
LEMMA PoolLeavesAlone ==
  ASSUME PoolStep
  PROVE  UNCHANGED <<sandboxVars, template, execd, due, controllerVars>> /\ (UNCHANGED faults \/ Fault)
<1> USE DEF PoolStep, clusterVars
<1>1. CASE ListPods \/ PublishStatus \/ Scale \/ (\E p \in Pods : GrowOlder(p))
  BY <1>1, Zenon DEF ListPods, PublishStatus, Scale, GrowOlder
<1>2. ASSUME NEW w \in pool.unmeasured, Measure(w)
      PROVE  UNCHANGED <<sandboxVars, template>> /\ (UNCHANGED faults \/ Fault)
  BY <1>2 DEF Measure
<1>3. ASSUME NEW p \in Pods, Retire(p) \/ Trim(p)
      PROVE  UNCHANGED <<sandboxVars, template>> /\ (UNCHANGED faults \/ Fault)
  BY <1>3 DEF Retire, Trim, PoolDelete
<1>4. CASE Fill
  BY <1>4 DEF Fill
<1> QED
  BY <1>1, <1>2, <1>3, <1>4 DEF PoolWork, PoolReconcile

\* A step of the pool preserves the Sandbox controller's invariant.
LEMMA PoolInv ==
  ASSUME Inv, PoolTypeOK, PoolStep
  PROVE  Inv' /\ PodEffect /\ ExecdEffect
<1>1. PodEffect
  BY PoolPodEffect DEF PoolStep
<1>2. PodsType' /\ PodsCoherent' /\ OwnersKept
  BY <1>1, PodEffectCoherent DEF Inv, Coherent
<1>3. ExecdEffect /\ SandboxEffect
  BY PoolLeavesAlone DEF ExecdEffect, SandboxEffect
<1>4. ExecdType' /\ ExecdCoherent' /\ ExecdKept
  BY <1>2, <1>3, ExecdEffectCoherent DEF Inv, Coherent
<1>5. SandboxesType' /\ CopiesKept
  BY <1>3, SandboxEffectKeeps
<1>6. SandboxesCoherent' /\ RunningIsServed'
  BY <1>2, <1>3, <1>4, SandboxEffectCoherent
<1>7. rec' = rec /\ rec \in [Sandboxes -> Pass]
  BY PoolLeavesAlone DEF controllerVars, Inv, TypeOK
<1>8. \A s \in Sandboxes : PassCoherent(s, rec[s])'
  <2>1. \A s \in Sandboxes : PassOK(s, rec[s], sandboxes', pods', execd')
    BY <1>2, <1>4, <1>5, <1>7, PassKept DEF Inv, Coherent
  <2> QED
    BY <1>7, <2>1 DEF PassOK, PassCoherent, PodIsOf
<1>9. QueueType'
  BY PoolLeavesAlone DEF QueueType, Inv, TypeOK, ClusterTypeOK, controllerVars, Fault
<1>10. TypeOK'
  BY <1>2, <1>4, <1>5, <1>7, <1>9
     DEF TypeOK, ClusterTypeOK, PodsType, ExecdType, SandboxesType, QueueType
<1> QED
  BY <1>1, <1>2, <1>3, <1>4, <1>6, <1>8, <1>10 DEF Inv, Coherent

-----------------------------------------------------------------------------
(* Typing of the pool's own variables.                                     *)

\* desiredReplicas is a number.
LEMMA DesiredType ==
  ASSUME replicas \in Targets
  PROVE  desiredReplicas \in Nat
BY TargetsAssumption, ReplicasAssumption DEF desiredReplicas

\* A list classifies Pods of the pool.
LEMMA ListPodsType ==
  ASSUME Inv, PoolTypeOK, ListPods
  PROVE  pool' \in PoolPass
<1> DEFINE versions == {[pod |-> p, rv |-> podCache[p].rv] :
                          p \in {q \in Unexpired : podCache[q].tier = "unmeasured"}}
<1>1. \A p \in Pods : podCache[p].rv \in Nat
  BY DEF Inv, TypeOK, ClusterTypeOK, PodObject
<1>2. versions \in SUBSET [pod: Pods, rv: Nat]
  BY <1>1 DEF Unexpired, Current, Ready, Free, Listed
<1>3. desiredReplicas \in Nat /\ template.hash \in Nat
  BY DesiredType DEF Inv, TypeOK, ClusterTypeOK, PoolTypeOK
<1> DEFINE idle == {p \in Unexpired : podCache[p].tier # "unmeasured"}
           pending == {p \in Free : podCache[p].ready = "starting" /\ age[p] = "fresh"}
           expired == Current \ Unexpired
           stuck == {p \in Free : \/ podCache[p].ready = "dead"
                                  \/ podCache[p].ready = "starting" /\ age[p] # "fresh"}
           orphans == {p \in Listed \ Free : SandboxMissing(podCache[p].owner)}
<1>4. PICK stale \in SUBSET (Ready \ Current) :
        pool' = [NoPass EXCEPT !.working = TRUE, !.want = desiredReplicas,
                               !.hash = template.hash, !.unmeasured = versions,
                               !.idle = idle, !.pending = pending, !.stale = stale,
                               !.expired = expired, !.stuck = stuck, !.orphans = orphans]
  BY Zenon DEF ListPods
<1>5. /\ idle \in SUBSET Pods /\ pending \in SUBSET Pods /\ stale \in SUBSET Pods
      /\ expired \in SUBSET Pods /\ stuck \in SUBSET Pods /\ orphans \in SUBSET Pods
  BY DEF Unexpired, Current, Ready, Free, Listed
<1> DEFINE fresh == [NoPass EXCEPT !.working = TRUE, !.want = desiredReplicas,
                                   !.hash = template.hash, !.unmeasured = versions,
                                   !.idle = idle, !.pending = pending, !.stale = stale,
                                   !.expired = expired, !.stuck = stuck, !.orphans = orphans]
<1> HIDE DEF versions, idle, pending, expired, stuck, orphans
<1>6. fresh \in PoolPass
  BY <1>2, <1>3, <1>5, Zenon DEF NoPass, PoolPass
<1>7. pool' = fresh
  BY <1>4
<1> HIDE DEF fresh
<1> QED
  BY <1>6, <1>7

\* The pool's variables keep their types.
LEMMA PoolType ==
  ASSUME Inv, PoolTypeOK, PoolWork
  PROVE  PoolTypeOK'
<1> pool \in PoolPass /\ replicas \in Targets /\ age \in [Pods -> Ages]
  BY SMTT(30) DEF PoolTypeOK
<1>1. CASE ListPods
  BY <1>1, ListPodsType, Zenon DEF ListPods, PoolTypeOK
<1>2. ASSUME NEW w \in pool.unmeasured, Measure(w) PROVE PoolTypeOK'
  <2>1. w.pod \in Pods
    BY DEF PoolPass
  <2> DEFINE p == w.pod
  <2>a. pool.unmeasured \ {w} \in SUBSET [pod: Pods, rv: Nat]
    BY DEF PoolPass
  <2>b. [pool EXCEPT !.unmeasured = @ \ {w}, !.pending = @ \cup {p}] \in PoolPass
    BY <2>1, <2>a, Zenon DEF PoolPass
  <2>c. [pool EXCEPT !.unmeasured = @ \ {w}, !.idle = @ \cup {p}] \in PoolPass
    BY <2>1, <2>a, Zenon DEF PoolPass
  <2>d. [pool EXCEPT !.unmeasured = @ \ {w}, !.stuck = @ \cup {p}] \in PoolPass
    BY <2>1, <2>a, Zenon DEF PoolPass
  <2>2. pool' \in PoolPass
    BY <1>2, <2>b, <2>c, <2>d DEF Measure
  <2> QED
    BY <1>2, <2>2 DEF Measure, PoolTypeOK
<1>3. ASSUME NEW p \in Pods, Retire(p) PROVE PoolTypeOK'
  <2>1. pool' \in PoolPass
    BY <1>3 DEF Retire, PoolPass
  <2> QED
    BY <1>3, <2>1 DEF Retire, PoolTypeOK
<1>4. CASE Fill
  <2>1. pool.created + 1 \in Nat /\ pool.want \in Nat
    BY DEF PoolPass
  <2>2. pool' \in PoolPass
    BY <1>4, <2>1 DEF Fill, PoolPass
  <2> QED
    BY <1>4, <2>2 DEF Fill, PoolTypeOK
<1>5. ASSUME NEW p \in Pods, Trim(p) PROVE PoolTypeOK'
  <2>1. pool' \in PoolPass
    BY <1>5 DEF Trim, PoolPass
  <2> QED
    BY <1>5, <2>1 DEF Trim, PoolTypeOK
<1>6. CASE PublishStatus
  BY <1>6 DEF PublishStatus, NoPass, PoolPass, PoolTypeOK
<1>7. CASE Scale \/ (\E p \in Pods : GrowOlder(p))
  BY <1>7 DEF Scale, GrowOlder, PoolTypeOK, Ages
<1> QED
  BY <1>1, <1>2, <1>3, <1>4, <1>5, <1>6, <1>7 DEF PoolWork, PoolReconcile

-----------------------------------------------------------------------------
(* The theorems.                                                           *)

ControlPlaneInv == Inv /\ PoolTypeOK

\* The invariant of the composition holds initially.
LEMMA ControlPlaneInitInv == ControlPlaneInit => ControlPlaneInv
<1> SUFFICES ASSUME ControlPlaneInit PROVE ControlPlaneInv
  OBVIOUS
<1>1. PoolTypeOK
  BY DEF ControlPlaneInit, PoolInit, PoolTypeOK, NoPass, PoolPass, Ages
<1> QED
  BY <1>1, InitInv DEF ControlPlaneInit, ControlPlaneInv

\* Steps of either controller, and a restart of both, preserve it.
LEMMA ControlPlaneNextInv ==
  ASSUME ControlPlaneInv, [ControlPlaneNext]_allVars
  PROVE  ControlPlaneInv' /\ [OneShot!Next]_(OneShot!vars)
<1> Inv /\ PoolTypeOK
  BY DEF ControlPlaneInv
<1>1. CASE PoolStep
  BY <1>1, PoolInv, PoolType, OneShotStep DEF PoolStep, ControlPlaneInv
<1>2. CASE SandboxStep
  <2>1. Inv' /\ PodEffect /\ ExecdEffect
    BY <1>2, NextInv, NextPodEffect, NextExecdEffect DEF SandboxStep, Next, Inv
  <2>2. PoolTypeOK'
    BY <1>2 DEF SandboxStep, poolVars, PoolTypeOK
  <2> QED
    BY <2>1, <2>2, OneShotStep DEF ControlPlaneInv
<1>3. CASE ProcessRestart
  <2>1. Inv' /\ PodEffect /\ ExecdEffect
    BY <1>3, NextInv, NextPodEffect, NextExecdEffect DEF ProcessRestart, Next, Inv
  <2>2. PoolTypeOK'
    BY <1>3 DEF ProcessRestart, PoolTypeOK, NoPass, PoolPass
  <2> QED
    BY <2>1, <2>2, OneShotStep DEF ControlPlaneInv
<1>4. CASE UNCHANGED allVars
  <2>1. UNCHANGED vars /\ UNCHANGED poolVars
    BY <1>4 DEF allVars
  <2>2. Inv'
    BY <2>1, StutterInv
  <2>3. UNCHANGED OneShot!vars
    BY <2>1 DEF vars, clusterVars, podVars, OneShot!vars
  <2> QED
    BY <2>1, <2>2, <2>3 DEF poolVars, PoolTypeOK, ControlPlaneInv
<1> QED
  BY <1>1, <1>2, <1>3, <1>4 DEF ControlPlaneNext

\* Types, the coherence of every copy, and the agreement of a Running Sandbox
\* with its execd survive the pool controller.
THEOREM ControlPlaneInvariance ==
  ControlPlaneSpec => [](ControlPlaneTypeOK /\ Coherent /\ RunningIsServed)
<1>1. ControlPlaneInv => ControlPlaneTypeOK /\ Coherent /\ RunningIsServed
  BY DEF ControlPlaneInv, ControlPlaneTypeOK, Inv
<1>2. ControlPlaneInv /\ [ControlPlaneNext]_allVars => ControlPlaneInv'
  BY ControlPlaneNextInv
<1> QED
  BY <1>1, <1>2, ControlPlaneInitInv, PTL DEF ControlPlaneSpec

\* Both controllers' variables, the passes in flight included, keep their types.
THEOREM ControlPlaneTyped == ControlPlaneSpec => []ControlPlaneTypeOK
BY ControlPlaneInvariance, PTL

\* With the pool controller at work a Pod is still handed over once, served
\* to its owner only, and never handed over on its way out.
THEOREM ControlPlaneRefinement == ControlPlaneSpec => ImplementsOneShotPod
<1>1. ControlPlaneInit => OneShot!Init
  BY DEF ControlPlaneInit, Init, OneShot!Init, Unbound, WarmPod, AbsentPod
<1>2. ControlPlaneInv /\ [ControlPlaneNext]_allVars => ControlPlaneInv' /\ [OneShot!Next]_(OneShot!vars)
  BY ControlPlaneNextInv
<1> QED
  BY <1>1, <1>2, ControlPlaneInitInv, PTL
     DEF ControlPlaneSpec, ImplementsOneShotPod, OneShot!Spec

-----------------------------------------------------------------------------
(* Orphans.  A Pod is only ever given to a Sandbox the Sandbox cache has   *)
(* shown, the cache never goes back behind that, and an object that is     *)
(* gone is not written again: so a Sandbox the cache does not have, and a  *)
(* Pod is labelled with, is gone.                                          *)

Known(s) == sbxCache[s].st # "absent"

SandboxLives ==
  /\ \A s \in Sandboxes : Known(s) => sandboxes[s].st # "absent"
  /\ \A s \in Sandboxes : sbxCache[s].st = "gone" => sandboxes[s].st = "gone"
  /\ \A i \in 1..Len(sbxWatch) :
       /\ sbxWatch[i].obj.st # "absent" /\ sandboxes[sbxWatch[i].key].st # "absent"
       /\ sbxWatch[i].obj.st = "gone" => sandboxes[sbxWatch[i].key].st = "gone"

\* What a pass that will write has in its hands.
PassLives == \A s \in Sandboxes :
  rec[s].at \notin {"idle", "label"} => Exists(rec[s].obj) /\ Known(s)

OwnersKnown == \A p \in Pods : pods[p].owner # None => Known(pods[p].owner)

OrphanInv == SandboxLives /\ PassLives /\ OwnersKnown /\ OrphansAreOrphans

\* What a step may do to the lives of Sandboxes.
LifeEffect ==
  \/ UNCHANGED sandboxVars
  \/ \E s \in Sandboxes, obj \in SandboxObject :
       obj.st # "absent" /\ sandboxes[s].st # "gone" /\ WriteSandbox(s, obj)
  \/ SandboxDelivered
  \/ SandboxesListed

LivesKept == \A s \in Sandboxes :
  /\ Known(s) => sbxCache'[s].st # "absent"
  /\ sandboxes[s].st = "gone" => sandboxes'[s].st = "gone"

\* Such an effect takes no Sandbox back from what is known of it.
LEMMA LifeEffectKeeps ==
  ASSUME Inv, SandboxLives, LifeEffect
  PROVE  SandboxLives' /\ LivesKept
<1> SandboxesType
  BY DEF Inv, TypeOK, ClusterTypeOK, SandboxesType
<1>1. CASE UNCHANGED sandboxVars
  BY <1>1 DEF sandboxVars, SandboxLives, LivesKept, Known
<1>2. ASSUME NEW s \in Sandboxes, NEW obj \in SandboxObject, obj.st # "absent",
             sandboxes[s].st # "gone", WriteSandbox(s, obj)
      PROVE  SandboxLives' /\ LivesKept
  <2> DEFINE new == [obj EXCEPT !.rv = sandboxes[s].rv + 1]
  <2>1. /\ sandboxes' = [sandboxes EXCEPT ![s] = new] /\ sbxCache' = sbxCache
        /\ sbxWatch' = Append(sbxWatch, [key |-> s, obj |-> new])
    BY <1>2 DEF WriteSandbox
  <2>2. new.st = obj.st /\ new \in SandboxObject
    <3>1. sandboxes[s].rv + 1 \in Nat
      BY DEF SandboxesType, SandboxObject
    <3> QED
      BY <3>1 DEF SandboxObject
  <2> HIDE DEF new
  <2>3. LivesKept /\ \A t \in Sandboxes : sandboxes[t].st # "absent" => sandboxes'[t].st # "absent"
    BY <1>2, <2>1, <2>2 DEF LivesKept, Known, SandboxesType
  <2>4. \A i \in 1..Len(sbxWatch') :
          \/ i \in 1..Len(sbxWatch) /\ sbxWatch'[i] = sbxWatch[i] /\ sbxWatch[i].key \in Sandboxes
          \/ sbxWatch'[i] = [key |-> s, obj |-> new]
    <3>1. [key |-> s, obj |-> new] \in [key: Sandboxes, obj: SandboxObject]
      BY <2>2
    <3> DEFINE W == [key: Sandboxes, obj: SandboxObject]
               x == [key |-> s, obj |-> new]
    <3>2. sbxWatch \in Seq(W) /\ x \in W /\ sbxWatch' = Append(sbxWatch, x)
      BY <2>1, <3>1 DEF SandboxesType
    <3>3. \A e \in W : e.key \in Sandboxes
      OBVIOUS
    <3> HIDE DEF W, x
    <3>4. \A i \in 1..Len(sbxWatch') :
            \/ i \in 1..Len(sbxWatch) /\ sbxWatch'[i] = sbxWatch[i] /\ sbxWatch[i] \in W
            \/ sbxWatch'[i] = x
      BY <3>2, AppendFacts
    <3> QED
      BY <3>3, <3>4 DEF x
  <2>5. sandboxes'[s] = new
    BY <2>1 DEF SandboxesType
  <2>6. ASSUME NEW i \in 1..Len(sbxWatch')
        PROVE  /\ sbxWatch'[i].obj.st # "absent" /\ sandboxes'[sbxWatch'[i].key].st # "absent"
               /\ sbxWatch'[i].obj.st = "gone" => sandboxes'[sbxWatch'[i].key].st = "gone"
    <3>1. CASE /\ i \in 1..Len(sbxWatch) /\ sbxWatch'[i] = sbxWatch[i]
               /\ sbxWatch[i].key \in Sandboxes
      BY <2>3, <3>1 DEF SandboxLives, LivesKept
    <3>2. CASE sbxWatch'[i] = [key |-> s, obj |-> new]
      BY <1>2, <2>2, <2>5, <3>2
    <3> QED
      BY <2>4, <3>1, <3>2
  <2>7. \A t \in Sandboxes : /\ Known(t)' => sandboxes'[t].st # "absent"
                             /\ sbxCache'[t].st = "gone" => sandboxes'[t].st = "gone"
    BY <2>1, <2>3 DEF SandboxLives, LivesKept, Known
  <2> QED
    BY <2>3, <2>6, <2>7 DEF SandboxLives, Known
<1>3. CASE SandboxDelivered
  <2>1. /\ Head(sbxWatch) = sbxWatch[1] /\ 1 \in 1..Len(sbxWatch)
        /\ \A i \in 1..Len(Tail(sbxWatch)) :
             i + 1 \in 1..Len(sbxWatch) /\ Tail(sbxWatch)[i] = sbxWatch[i + 1]
    BY <1>3, HeadTailFacts DEF SandboxDelivered, SandboxesType
  <2>2. \A s \in Sandboxes :
          sbxCache'[s] = sbxCache[s] \/ (s = sbxWatch[1].key /\ sbxCache'[s] = sbxWatch[1].obj)
    BY <1>3, <2>1 DEF SandboxDelivered, SandboxesType
  <2> QED
    BY <1>3, <2>1, <2>2 DEF SandboxDelivered, SandboxLives, LivesKept, Known
<1>4. CASE SandboxesListed
  BY <1>4 DEF SandboxesListed, SandboxLives, LivesKept, Known
<1> QED
  BY <1>1, <1>2, <1>3, <1>4 DEF LifeEffect

\* A write the API server accepts from a pass is of an object that exists.
LEMMA AcceptedLife ==
  ASSUME Inv, PassLives, NEW s \in Sandboxes, NEW obj \in SandboxObject,
         rec[s].at \notin {"idle", "label"}, Accepted(s, obj), obj.st \in {rec[s].obj.st, "gone"}
  PROVE  LifeEffect
<1>1. rec[s].obj = sandboxes[s]
  BY CurrentPass DEF Accepted
<1>2. obj.st # "absent" /\ sandboxes[s].st # "gone"
  BY <1>1 DEF PassLives, Exists
<1> QED
  BY <1>2 DEF Accepted, LifeEffect

\* Every step of the Sandbox controller's world is such an effect.
LEMMA NextLife ==
  ASSUME Inv, SandboxLives, PassLives, Next
  PROVE  LifeEffect
<1> USE DEF clusterVars
<1>a. SandboxesType
  BY DEF Inv, TypeOK, ClusterTypeOK, SandboxesType
<1>1. ASSUME NEW s \in Sandboxes, Reconcile(s) PROVE LifeEffect
  <2>a. rec[s] \in Pass /\ rec[s].obj \in SandboxObject
    BY DEF Inv, TypeOK, Pass
  <2>1. CASE UNCHANGED sandboxVars
    BY <2>1 DEF LifeEffect
  <2>2. CASE AddFinalizer(s) /\ SandboxCurrent(s, sbxCache[s])
             /\ WriteSandbox(s, [sbxCache[s] EXCEPT !.fin = TRUE])
    <3>1. sbxCache[s] = sandboxes[s] /\ sandboxes[s].st = "live" /\ sandboxes[s] \in SandboxObject
      BY <1>a, <2>2 DEF AddFinalizer, Inv, Coherent, SandboxesCoherent, SandboxCopy, SandboxCurrent,
                        SandboxesType
    <3>2. /\ [sandboxes[s] EXCEPT !.fin = TRUE] \in SandboxObject
          /\ [sandboxes[s] EXCEPT !.fin = TRUE].st = "live"
      BY <3>1, Zenon DEF SandboxObject
    <3> QED
      BY <2>2, <3>1, <3>2, Zenon DEF LifeEffect
  <2>3. CASE RecordBinding(s)
    <3> DEFINE obj == [rec[s].obj EXCEPT !.phase = "Binding", !.pod = rec[s].pod]
    <3>1. rec[s].pod \in Pods
      BY <2>3 DEF RecordBinding, Inv, Coherent, PassCoherent
    <3>2. obj \in SandboxObject /\ obj.st = rec[s].obj.st
      BY <2>a, <3>1, Zenon DEF SandboxObject, Phases
    <3>3. rec[s].at = "record" /\ (Accepted(s, obj) \/ UNCHANGED sandboxVars)
      BY <2>3 DEF RecordBinding, Refused
    <3> HIDE DEF obj
    <3> QED
      BY <2>1, <3>2, <3>3, AcceptedLife
  <2>4. CASE RecordRunning(s)
    <3> DEFINE obj == [rec[s].obj EXCEPT !.phase = "Running", !.token = rec[s].token]
    <3>2. obj \in SandboxObject /\ obj.st = rec[s].obj.st
      BY <2>a, Zenon DEF SandboxObject, Phases, Pass
    <3>3. rec[s].at = "running" /\ (Accepted(s, obj) \/ UNCHANGED sandboxVars)
      BY <2>4 DEF RecordRunning, Refused
    <3> HIDE DEF obj
    <3> QED
      BY <2>1, <3>2, <3>3, AcceptedLife
  <2>5. CASE RecordFailed(s) \/ RecordExpired(s)
    <3>1. PICK ph \in {"Failed", "Expired"} :
            \/ Accepted(s, [rec[s].obj EXCEPT !.phase = ph, !.token = None])
            \/ UNCHANGED sandboxVars
      BY <2>5 DEF RecordFailed, RecordExpired, Refused
    <3> DEFINE obj == [rec[s].obj EXCEPT !.phase = ph, !.token = None]
    <3>2. obj \in SandboxObject /\ obj.st = rec[s].obj.st
      BY <2>a, Zenon DEF SandboxObject, Phases
    <3>3. rec[s].at \in {"fail", "expired"} /\ (Accepted(s, obj) \/ UNCHANGED sandboxVars)
      BY <2>5, <3>1 DEF RecordFailed, RecordExpired
    <3> HIDE DEF obj
    <3> QED
      BY <2>1, <3>2, <3>3, AcceptedLife
  <2>6. CASE RemoveFinalizer(s)
    <3> DEFINE obj == [rec[s].obj EXCEPT !.st = "gone", !.fin = FALSE]
    <3>2. obj \in SandboxObject /\ obj.st = "gone"
      BY <2>a, Zenon DEF SandboxObject, Existence
    <3>3. rec[s].at = "release" /\ (Accepted(s, obj) \/ UNCHANGED sandboxVars)
      BY <2>6 DEF RemoveFinalizer, Refused
    <3> HIDE DEF obj
    <3> QED
      BY <2>1, <3>2, <3>3, AcceptedLife
  <2>7. \/ UNCHANGED sandboxVars \/ RecordBinding(s) \/ RecordRunning(s) \/ RecordFailed(s)
        \/ RecordExpired(s) \/ RemoveFinalizer(s)
        \/ AddFinalizer(s) /\ SandboxCurrent(s, sbxCache[s])
           /\ WriteSandbox(s, [sbxCache[s] EXCEPT !.fin = TRUE])
    BY <1>1, Zenon DEF Reconcile, ReconcileNothing, AddFinalizer, AcquireFails, Adopt, ClaimWarmPod,
                ClaimErrs, CreatePod, BindFails, BindWaits, BindBelowFloor, BindSucceeds, BindErrs,
                DropPod, LabelTier, WatchExpiry, Expire, Finalize
  <2> QED
    BY <2>1, <2>2, <2>3, <2>4, <2>5, <2>6, <2>7
<1>2. ASSUME NEW s \in Sandboxes, UserCreate(s) PROVE LifeEffect
  <2>1. PICK spec \in Specs : WriteSandbox(s, [AbsentSandbox EXCEPT !.st = "live", !.spec = spec])
    BY <1>2, Zenon DEF UserCreate
  <2>2. sandboxes[s].st = "absent"
    BY <1>2 DEF UserCreate, AbsentSandbox
  <2>3. /\ [AbsentSandbox EXCEPT !.st = "live", !.spec = spec] \in SandboxObject
        /\ [AbsentSandbox EXCEPT !.st = "live", !.spec = spec].st = "live"
    BY SpecsAssumption, Zenon DEF AbsentSandbox, SandboxObject, Existence, Phases
  <2> QED
    BY <2>1, <2>2, <2>3, Zenon DEF LifeEffect
<1>3. ASSUME NEW s \in Sandboxes, UserDelete(s) PROVE LifeEffect
  <2>1. PICK st \in {"deleting", "gone"} : WriteSandbox(s, [sandboxes[s] EXCEPT !.st = st])
    BY <1>3 DEF UserDelete
  <2>2. sandboxes[s] \in SandboxObject /\ sandboxes[s].st = "live"
    BY <1>3, <1>a DEF SandboxesType, UserDelete
  <2>3. [sandboxes[s] EXCEPT !.st = st] \in SandboxObject /\ [sandboxes[s] EXCEPT !.st = st].st = st
    BY <2>2 DEF SandboxObject, Existence
  <2> QED
    BY <2>1, <2>2, <2>3, Zenon DEF LifeEffect
<1>4. CASE DeliverSandbox \/ Restart
  BY <1>4, SMTT(30) DEF DeliverSandbox, Restart, LifeEffect, SandboxDelivered, SandboxesListed
<1>5. \/ UNCHANGED sandboxVars \/ DeliverSandbox \/ Restart
      \/ \E s \in Sandboxes : Reconcile(s) \/ UserCreate(s) \/ UserDelete(s)
  BY Zenon DEF Next, Work, DeadlinePasses, TimerFires, Kubelet, KubeletStarts, KubeletStops,
         KubeletRemoves, CollectGarbage, ExecdExpires, EditTemplate, DeliverPod
<1> QED
  BY <1>1, <1>2, <1>3, <1>4, <1>5 DEF LifeEffect

\* Writing one Pod changes no other's owner.
LEMMA WriteOwner ==
  ASSUME TypeOK, NEW q \in Pods, NEW obj \in PodObject, WritePod(q, obj), NEW p \in Pods
  PROVE  pods'[p].owner = IF p = q THEN obj.owner ELSE pods[p].owner
<1> DEFINE new == [obj EXCEPT !.rv = pods[q].rv + 1]
<1>1. pods' = [pods EXCEPT ![q] = new]
  BY DEF WritePod
<1>2. new.owner = obj.owner
  BY DEF PodObject
<1> HIDE DEF new
<1> QED
  BY <1>1, <1>2 DEF TypeOK, ClusterTypeOK

\* Delete changes no owner.
LEMMA DeleteOwner ==
  ASSUME TypeOK, NEW q \in Pods, DeletePod(q), NEW p \in Pods
  PROVE  pods'[p].owner = pods[p].owner
<1>1. CASE pods[q].st = "live"
  <2> DEFINE obj == [pods[q] EXCEPT !.st = "deleting"]
  <2>1. pods[q] \in PodObject
    BY DEF TypeOK, ClusterTypeOK
  <2>2. obj \in PodObject /\ obj.owner = pods[q].owner /\ WritePod(q, obj)
    BY <1>1, <2>1 DEF DeletePod, PodObject, Existence
  <2> HIDE DEF obj
  <2> QED
    BY <2>2, WriteOwner
<1> QED
  BY <1>1 DEF DeletePod, podVars

OwnersGiven ==
  \A p \in Pods : pods'[p].owner # None =>
    pods'[p].owner = pods[p].owner \/ (pods'[p].owner \in Sandboxes /\ Known(pods'[p].owner))

\* A pass that dispatches works on a Sandbox that exists and the cache knows.
LEMMA DispatchLives ==
  ASSUME PassLives, NEW s \in Sandboxes, NEW ph, Dispatch(s, ph)
  PROVE  Exists(View(s)) /\ Known(s)
BY DEF Dispatch, Starts, View, PassLives, Exists, Known

\* Only a pass that knows its Sandbox gives it a Pod.
LEMMA ReconcileOwners ==
  ASSUME Inv, PassLives, NEW s \in Sandboxes, Reconcile(s)
  PROVE  OwnersGiven
<1> USE DEF clusterVars
<1> TypeOK
  BY DEF Inv
<1>1. CASE UNCHANGED podVars
  BY <1>1 DEF podVars, OwnersGiven
<1>2. ASSUME NEW q \in Pods, DeletePod(q) PROVE OwnersGiven
  BY <1>2, DeleteOwner DEF OwnersGiven
<1>3. ASSUME NEW q \in Pods, NEW obj \in PodObject, WritePod(q, obj), obj.owner = s, Known(s)
      PROVE  OwnersGiven
  BY <1>3, WriteOwner DEF OwnersGiven
<1>4. CASE ClaimWarmPod(s)
  <2>1. PICK q \in Claimable : WritePod(q, [podCache[q] EXCEPT !.owner = s])
    BY <1>4 DEF ClaimWarmPod
  <2> DEFINE obj == [podCache[q] EXCEPT !.owner = s]
  <2>2. q \in Pods /\ podCache[q] \in PodObject
    BY DEF Claimable, Candidates, TypeOK, ClusterTypeOK
  <2>3. obj \in PodObject /\ obj.owner = s
    BY <2>2 DEF PodObject
  <2> HIDE DEF obj
  <2> QED
    BY <1>3, <1>4, <2>1, <2>2, <2>3, DispatchLives, ZenonT(30) DEF ClaimWarmPod, obj
<1>5. CASE CreatePod(s)
  <2>1. UNCHANGED podVars \/ \E q \in Pods : WritePod(q, ColdPod(s))
    BY <1>5, Zenon DEF CreatePod
  <2>2. ColdPod(s) \in PodObject /\ ColdPod(s).owner = s
    BY Zenon DEF ColdPod, AbsentPod, PodObject, Existence, Tiers, TypeOK, ClusterTypeOK
  <2>3. Known(s)
    BY <1>5, DispatchLives, Zenon DEF CreatePod
  <2> QED
    BY <1>1, <1>3, <2>1, <2>2, <2>3
<1>6. CASE DropPod(s)
  <2>1. rec[s].obj.pod \in Pods
    BY <1>6, SMTT(30) DEF DropPod, Inv, TypeOK, Pass, SandboxObject, Coherent, PassCoherent, SandboxCopy
  <2> QED
    BY <1>1, <1>2, <1>6, <2>1, SMTT(30) DEF DropPod
<1>7. CASE LabelTier(s)
  <2> DEFINE q == rec[s].pod
             obj == [pods[q] EXCEPT !.tier = NodeTier[q]]
  <2>1. q \in Pods
    BY <1>7 DEF LabelTier, Inv, Coherent, PassCoherent
  <2>2. pods[q] \in PodObject /\ NodeTier[q] \in Tiers
    BY <2>1, NodeTierAssumption DEF TypeOK, ClusterTypeOK, Tiers
  <2>3. obj \in PodObject /\ obj.owner = pods[q].owner
    BY <2>2 DEF PodObject
  <2>4. UNCHANGED podVars \/ WritePod(q, obj)
    BY <1>7 DEF LabelTier
  <2> HIDE DEF obj, q
  <2> QED
    BY <1>1, <2>1, <2>3, <2>4, WriteOwner DEF OwnersGiven
<1>8. ASSUME NEW obj \in SandboxObject, ReleasePod(obj) PROVE OwnersGiven
  BY <1>1, <1>2, <1>8 DEF ReleasePod, HasPod, SandboxObject
<1>9. CASE Expire(s) \/ Finalize(s)
  <2>1. View(s) \in SandboxObject /\ sbxCache[s] \in SandboxObject
    BY ViewType, SMTT(30) DEF TypeOK, ClusterTypeOK
  <2> QED
    BY <1>1, <1>8, <1>9, <2>1 DEF Expire, Finalize, ReleaseErrs
<1>10. \/ UNCHANGED podVars \/ ClaimWarmPod(s) \/ CreatePod(s) \/ DropPod(s) \/ LabelTier(s)
       \/ Expire(s) \/ Finalize(s)
  BY Zenon DEF Reconcile, ReconcileNothing, AddFinalizer, AcquireFails, Adopt, ClaimErrs,
         RecordBinding, BindFails, BindWaits, BindBelowFloor, BindSucceeds, BindErrs,
         RecordRunning, RecordFailed, WatchExpiry, RecordExpired, RemoveFinalizer
<1> QED
  BY <1>1, <1>4, <1>5, <1>6, <1>7, <1>9, <1>10

\* Nothing else gives owners.
LEMMA NextOwners ==
  ASSUME Inv, PassLives, Next
  PROVE  OwnersGiven
<1> USE DEF clusterVars
<1> TypeOK
  BY DEF Inv
<1>1. CASE UNCHANGED pods
  BY <1>1 DEF OwnersGiven
<1>2. ASSUME NEW p \in Pods, Kubelet(p) PROVE OwnersGiven
  <2>1. pods[p] \in PodObject
    BY DEF TypeOK, ClusterTypeOK
  <2>2. /\ [pods[p] EXCEPT !.ready = "ready"] \in PodObject
        /\ [pods[p] EXCEPT !.ready = "ready"].owner = pods[p].owner
    BY <2>1 DEF PodObject
  <2>3. /\ [pods[p] EXCEPT !.ready = "dead"] \in PodObject
        /\ [pods[p] EXCEPT !.ready = "dead"].owner = pods[p].owner
    BY <2>1 DEF PodObject
  <2>4. /\ [pods[p] EXCEPT !.st = "gone", !.ready = "dead"] \in PodObject
        /\ [pods[p] EXCEPT !.st = "gone", !.ready = "dead"].owner = pods[p].owner
    BY <2>1, Zenon DEF PodObject, Existence
  <2>5. \E obj \in PodObject : obj.owner = pods[p].owner /\ WritePod(p, obj)
    BY <1>2, <2>2, <2>3, <2>4, Zenon DEF Kubelet, KubeletStarts, KubeletStops, KubeletRemoves
  <2> QED
    BY <2>5, WriteOwner DEF OwnersGiven
<1>3. ASSUME NEW p \in Pods, CollectGarbage(p) PROVE OwnersGiven
  BY <1>3, DeleteOwner, SMTT(30) DEF CollectGarbage, OwnersGiven
<1>4. \/ UNCHANGED pods \/ (\E s \in Sandboxes : Reconcile(s))
      \/ \E p \in Pods : Kubelet(p) \/ CollectGarbage(p)
  BY ZenonT(30) DEF Next, Work, Restart, UserCreate, UserDelete, DeadlinePasses, TimerFires, ExecdExpires,
         EditTemplate, DeliverSandbox, DeliverPod, podVars
<1> QED
  BY <1>1, <1>2, <1>3, <1>4, ReconcileOwners

\* A pass goes on only with a Sandbox that existed when it was read.
LEMMA ReconcilePass ==
  ASSUME Inv, PassLives, NEW s \in Sandboxes, Reconcile(s)
  PROVE  \A t \in Sandboxes : rec'[t].at \notin {"idle", "label"} =>
           rec'[t] = rec[t] \/ (t = s /\ Exists(rec'[t].obj) /\ Known(t))
<1> DEFINE Good(r) == r.at \notin {"idle", "label"} => Exists(r.obj) /\ Known(s)
<1>a. rec \in [Sandboxes -> Pass] /\ SandboxesType
  BY DEF Inv, TypeOK, ClusterTypeOK, SandboxesType
<1>b. Good(Idle)
  BY DEF Idle
<1>c. ASSUME NEW o, Exists(o), Known(s)
      PROVE  /\ Good(Failing(o)) /\ Good([Idle EXCEPT !.at = "drop", !.obj = o])
             /\ Good([Idle EXCEPT !.at = "expired", !.obj = o])
             /\ Good([Idle EXCEPT !.at = "release", !.obj = o])
             /\ Good([Idle EXCEPT !.at = "dispatch", !.obj = o])
             /\ \A p : Good([Idle EXCEPT !.at = "record", !.obj = o, !.pod = p])
             /\ \A p, k, l : Good([at |-> "running", obj |-> o, pod |-> p, token |-> k, label |-> l])
  BY <1>c DEF Idle, Failing
<1>d. \A p, l : Good([Idle EXCEPT !.at = "label", !.pod = p, !.label = l])
  BY DEF Idle
<1>1. CASE rec' = [rec EXCEPT ![s] = Idle]
  BY <1>1, <1>b
<1>2. ASSUME NEW ph, Dispatch(s, ph) PROVE Exists(View(s)) /\ Known(s)
  BY <1>2, DispatchLives
<1>3. CASE AcquireFails(s) \/ Adopt(s) \/ ClaimWarmPod(s) \/ CreatePod(s) \/ BindFails(s)
  <2>1. \E r : Good(r) /\ rec' = [rec EXCEPT ![s] = r]
    BY <1>2, <1>3, <1>c, Zenon
       DEF AcquireFails, Adopt, ClaimWarmPod, CreatePod, BindFails, Goto
  <2> QED
    BY <2>1, <1>a, SMTT(30)
<1>4. CASE BindBelowFloor(s) \/ BindSucceeds(s) \/ BindErrs(s) \/ Expire(s)
  <2>1. \E r : Good(r) /\ rec' = [rec EXCEPT ![s] = r]
    BY <1>2, <1>4, <1>b, <1>c, Zenon
       DEF BindBelowFloor, BindSucceeds, BindErrs, BindProceeds, Expire, ReleaseErrs, Goto, Requeue
  <2> QED
    BY <2>1, <1>a
<1>5. CASE DropPod(s) \/ Finalize(s) \/ RecordRunning(s)
  <2>1. CASE DropPod(s)
    <3>1. Exists(rec[s].obj) /\ Known(s) /\ rec' = [rec EXCEPT ![s] = Failing(rec[s].obj)]
      BY <2>1 DEF DropPod, PassLives, Goto
    <3> QED
      BY <1>a, <1>c, <3>1
  <2>2. CASE Finalize(s)
    <3>1. Exists(sbxCache[s]) /\ Known(s)
      BY <2>2 DEF Finalize, Exists, Known
    <3>2. \/ rec' = [rec EXCEPT ![s] = [Idle EXCEPT !.at = "release", !.obj = sbxCache[s]]]
          \/ rec' = [rec EXCEPT ![s] = Idle]
      BY <2>2 DEF Finalize, Goto, ReleaseErrs, Requeue
    <3> QED
      BY <1>1, <1>a, <1>c, <3>1, <3>2, Zenon
  <2>3. CASE RecordRunning(s)
    <3>1. PICK r : Good(r) /\ rec' = [rec EXCEPT ![s] = r]
      BY <1>b, <1>d, <2>3, Zenon DEF RecordRunning, Goto, Refused, Requeue
    <3> QED
      BY <1>a, <3>1
  <2> QED
    BY <1>5, <2>1, <2>2, <2>3
<1>6. CASE AddFinalizer(s)
  <2>1. Known(s) /\ sbxCache[s].st = "live"
    BY <1>6 DEF AddFinalizer, Known
  <2>2. CASE WriteSandbox(s, [sbxCache[s] EXCEPT !.fin = TRUE])
             /\ rec' = [rec EXCEPT ![s] = [Idle EXCEPT !.at = "dispatch", !.obj = sandboxes'[s]]]
    <3> DEFINE obj == [sbxCache[s] EXCEPT !.fin = TRUE]
    <3>1. obj \in SandboxObject /\ obj.st = "live"
      BY <1>a, <2>1, Zenon DEF SandboxesType, SandboxObject
    <3>2. sandboxes'[s] = [obj EXCEPT !.rv = sandboxes[s].rv + 1]
      BY <1>a, <2>2 DEF WriteSandbox, SandboxesType
    <3>3. [obj EXCEPT !.rv = sandboxes[s].rv + 1].st = obj.st
      BY <3>1 DEF SandboxObject
    <3>4. Exists(sandboxes'[s])
      BY <3>1, <3>2, <3>3 DEF Exists
    <3> QED
      BY <1>a, <1>c, <2>1, <2>2, <3>4
  <2> QED
    BY <1>1, <1>6, <2>2 DEF AddFinalizer, Goto, Requeue
<1>7. CASE ~(\/ AcquireFails(s) \/ Adopt(s) \/ ClaimWarmPod(s) \/ CreatePod(s) \/ BindFails(s)
             \/ BindBelowFloor(s) \/ BindSucceeds(s) \/ BindErrs(s) \/ Expire(s) \/ DropPod(s)
             \/ Finalize(s) \/ RecordRunning(s) \/ AddFinalizer(s))
  <2>1. rec' = [rec EXCEPT ![s] = Idle]
    BY <1>7, Zenon DEF Reconcile, ReconcileNothing, ClaimErrs, RecordBinding, BindWaits, LabelTier,
                RecordFailed, WatchExpiry, RecordExpired, RemoveFinalizer, Refused, Return, Requeue
  <2> QED
    BY <1>1, <2>1
<1> QED
  BY <1>3, <1>4, <1>5, <1>6, <1>7, Zenon

\* A step of the Sandbox controller's world keeps what is known of lives.
LEMMA NextLives ==
  ASSUME Inv, SandboxLives, PassLives, OwnersKnown, Next
  PROVE  SandboxLives' /\ PassLives' /\ OwnersKnown' /\ LivesKept /\ OwnersKept
<1>1. SandboxLives' /\ LivesKept
  BY NextLife, LifeEffectKeeps
<1>2. OwnersKnown'
  <2>1. \A p \in Pods : pods[p].owner \in Sandboxes \cup {None}
    BY DEF Inv, TypeOK, ClusterTypeOK, PodObject
  <2> QED
    BY <1>1, <2>1, NextOwners DEF OwnersGiven, OwnersKnown, LivesKept, Known
<1>3. PassLives'
  <2>1. ASSUME NEW s \in Sandboxes, Reconcile(s) PROVE PassLives'
    BY <1>1, <2>1, ReconcilePass DEF PassLives, LivesKept, Known
  <2>2. CASE UNCHANGED rec
    BY <1>1, <2>2 DEF PassLives, LivesKept, Known
  <2>3. CASE Restart
    <3>1. Idle.at = "idle"
      BY SMTT(30) DEF Idle
    <3> QED
      BY <2>3, <3>1 DEF Restart, PassLives
  <2>4. UNCHANGED rec \/ Restart \/ \E s \in Sandboxes : Reconcile(s)
    BY Zenon DEF Next, Work, UserCreate, UserDelete, DeadlinePasses, TimerFires, Kubelet, KubeletStarts,
           KubeletStops, KubeletRemoves, CollectGarbage, ExecdExpires, EditTemplate, DeliverSandbox,
           DeliverPod, controllerVars
  <2> QED
    BY <2>1, <2>2, <2>3, <2>4
<1>4. OwnersKept
  BY NextPodEffect, PodEffectCoherent DEF Inv, Coherent
<1> QED
  BY <1>1, <1>2, <1>3, <1>4

\* An orphan stays one while its owner does and what is gone stays gone.
LEMMA OrphansStay ==
  ASSUME Inv, OrphansAreOrphans, PoolTypeOK, LivesKept, OwnersKept, pool'.orphans \subseteq pool.orphans
  PROVE  OrphansAreOrphans'
<1>1. \A p \in pool.orphans : p \in Pods /\ pods[p].owner \in Sandboxes \cup {None}
  BY SMTT(30) DEF PoolTypeOK, PoolPass, Inv, TypeOK, ClusterTypeOK, PodObject
<1> QED
  BY <1>1 DEF OrphansAreOrphans, LivesKept, OwnersKept

\* classify finds orphans only among Pods whose Sandbox is gone.
LEMMA ListOrphans ==
  ASSUME Inv, PoolTypeOK, SandboxLives, OwnersKnown, ListPods
  PROVE  OrphansAreOrphans'
<1>1. pool'.orphans = {p \in Listed \ Free : SandboxMissing(podCache[p].owner)}
  BY DEF ListPods, NoPass
<1>2. ASSUME NEW p \in Pods, podCache[p].owner # None, ~Exists(sbxCache[podCache[p].owner])
      PROVE  pods[p].owner # None /\ sandboxes[pods[p].owner].st = "gone"
  <2>1. pods[p].owner = podCache[p].owner
    BY <1>2 DEF Inv, Coherent, PodsCoherent, PodCopy
  <2>2. pods[p].owner \in Sandboxes
    BY <1>2, <2>1 DEF Inv, TypeOK, ClusterTypeOK, PodObject
  <2>3. sbxCache[pods[p].owner].st \in Existence
    BY <2>2 DEF Inv, TypeOK, ClusterTypeOK, SandboxObject
  <2>4. Known(pods[p].owner)
    BY <1>2, <2>1 DEF OwnersKnown
  <2>5. sbxCache[pods[p].owner].st = "gone"
    BY <1>2, <2>1, <2>3, <2>4 DEF Exists, Existence, Known
  <2> QED
    BY <1>2, <2>1, <2>2, <2>5 DEF SandboxLives
<1>3. UNCHANGED <<pods, sandboxes>>
  BY DEF ListPods, clusterVars, podVars, sandboxVars
<1> QED
  BY <1>1, <1>2, <1>3 DEF OrphansAreOrphans, Listed, Free, SandboxMissing

\* A step of the pool keeps all of it.
LEMMA PoolOrphans ==
  ASSUME Inv, PoolTypeOK, OrphanInv, PoolStep
  PROVE  OrphanInv'
<1>1. UNCHANGED sandboxVars /\ UNCHANGED rec
  BY PoolLeavesAlone DEF controllerVars
<1>2. OwnersKept
  BY PoolPodEffect, PodEffectCoherent DEF PoolStep, Inv, Coherent
<1>3. LivesKept /\ SandboxLives' /\ PassLives'
  BY <1>1 DEF sandboxVars, LivesKept, OrphanInv, SandboxLives, PassLives, Known
<1>4. OwnersKnown'
  <2>1. \A p \in Pods : pods'[p].owner = pods[p].owner
    <3> TypeOK
      BY DEF Inv
    <3>1. ASSUME NEW q \in Pods, PoolDelete(q), NEW p \in Pods
          PROVE  pods'[p].owner = pods[p].owner
      BY <3>1, DeleteOwner DEF PoolDelete, podVars
    <3>2. ASSUME NEW w \in pool.unmeasured, Measure(w), NEW p \in Pods
          PROVE  pods'[p].owner = pods[p].owner
      <4> DEFINE obj == [pods[w.pod] EXCEPT !.tier = NodeTier[w.pod]]
      <4>1. w.pod \in Pods
        BY DEF PoolTypeOK, PoolPass
      <4>2. pods[w.pod] \in PodObject /\ NodeTier[w.pod] \in Tiers
        BY <4>1, NodeTierAssumption DEF TypeOK, ClusterTypeOK, Tiers
      <4>3. obj \in PodObject /\ obj.owner = pods[w.pod].owner
        BY <4>2 DEF PodObject
      <4>4. UNCHANGED podVars \/ WritePod(w.pod, obj)
        BY <3>2 DEF Measure
      <4> HIDE DEF obj
      <4> QED
        BY <4>1, <4>3, <4>4, WriteOwner DEF podVars
    <3>3. ASSUME Fill, NEW p \in Pods PROVE pods'[p].owner = pods[p].owner
      <4>1. IdlePod \in PodObject /\ IdlePod.owner = None
        BY Zenon DEF IdlePod, AbsentPod, PodObject, Existence, Tiers, PoolTypeOK, PoolPass
      <4>2. \/ UNCHANGED podVars
            \/ \E q \in Pods : pods[q].st = "absent" /\ WritePod(q, IdlePod)
        BY <3>3 DEF Fill
      <4>3. \A q \in Pods : pods[q].st = "absent" => pods[q].owner = None
        BY DEF Inv, Coherent, PodsCoherent
      <4> QED
        BY <4>1, <4>2, <4>3, WriteOwner DEF podVars
    <3>4. \/ UNCHANGED pods \/ Fill \/ (\E w \in pool.unmeasured : Measure(w))
          \/ \E q \in Pods : PoolDelete(q)
      BY Zenon DEF PoolStep, PoolWork, PoolReconcile, ListPods, PublishStatus, Scale, GrowOlder, Retire,
             Trim, clusterVars, podVars
    <3> QED
      BY <3>1, <3>2, <3>3, <3>4
  <2>2. \A p \in Pods : pods[p].owner \in Sandboxes \cup {None}
    BY DEF Inv, TypeOK, ClusterTypeOK, PodObject
  <2> QED
    BY <1>3, <2>1, <2>2 DEF OrphanInv, OwnersKnown, LivesKept, Known
<1>5. OrphansAreOrphans'
  <2>1. CASE ListPods
    BY <2>1, ListOrphans DEF OrphanInv
  <2>2. CASE ~ListPods
    <3>1. pool \in PoolPass
      BY DEF PoolTypeOK
    <3>a. ASSUME Fill \/ PublishStatus \/ Scale \/ (\E p \in Pods : Trim(p) \/ GrowOlder(p))
          PROVE  pool'.orphans \subseteq pool.orphans
      BY <3>1, <3>a DEF Fill, Trim, PublishStatus, Scale, GrowOlder, NoPass, PoolPass
    <3>b. ASSUME NEW w \in pool.unmeasured, Measure(w) PROVE pool'.orphans = pool.orphans
      BY <3>1, <3>b, Zenon DEF Measure, PoolPass
    <3>c. ASSUME NEW p \in Pods, Retire(p) PROVE pool'.orphans \subseteq pool.orphans
      BY <3>1, <3>c DEF Retire, PoolPass
    <3>2. pool'.orphans \subseteq pool.orphans
      BY <2>2, <3>a, <3>b, <3>c DEF PoolStep, PoolWork, PoolReconcile
    <3> QED
      BY <1>2, <1>3, <3>2, OrphansStay DEF OrphanInv
  <2> QED
    BY <2>1, <2>2
<1> QED
  BY <1>3, <1>4, <1>5 DEF OrphanInv

\* Steps of either controller, and a restart of both, keep all of it.
LEMMA OrphanStep ==
  ASSUME ControlPlaneInv, OrphanInv, [ControlPlaneNext]_allVars
  PROVE  OrphanInv'
<1> Inv /\ PoolTypeOK
  BY DEF ControlPlaneInv
<1>1. CASE PoolStep
  BY <1>1, PoolOrphans
<1>2. CASE SandboxStep \/ ProcessRestart
  <2>1. Next
    BY <1>2 DEF SandboxStep, ProcessRestart, Next
  <2>2. pool'.orphans \subseteq pool.orphans
    BY <1>2, SMTT(30) DEF SandboxStep, ProcessRestart, poolVars, NoPass
  <2> QED
    BY <2>1, <2>2, NextLives, OrphansStay DEF OrphanInv
<1>3. CASE UNCHANGED allVars
  BY <1>3 DEF allVars, vars, clusterVars, sandboxVars, podVars, controllerVars, poolVars, OrphanInv,
              SandboxLives, PassLives, OwnersKnown, OrphansAreOrphans, Known
<1> QED
  BY <1>1, <1>2, <1>3 DEF ControlPlaneNext

\* At the start no Pod has an owner and no Sandbox exists.
LEMMA OrphanInit == ControlPlaneInit => OrphanInv
<1> SUFFICES ASSUME ControlPlaneInit PROVE OrphanInv
  OBVIOUS
<1>1. AbsentSandbox.st = "absent" /\ Idle.at = "idle"
  BY DEF AbsentSandbox, Idle
<1>2. AbsentPod.owner = None /\ WarmPod.owner = None
  BY DEF AbsentPod, WarmPod
<1>3. NoPass.orphans = {}
  BY SMTT(30) DEF NoPass
<1>4. SandboxLives /\ PassLives /\ OwnersKnown
  BY <1>1, <1>2 DEF ControlPlaneInit, Init, SandboxLives, PassLives, OwnersKnown, Known
<1> QED
  BY <1>3, <1>4 DEF ControlPlaneInit, PoolInit, OrphanInv, OrphansAreOrphans

\* A Pod the pool takes for an orphan, and deletes, belonged to a Sandbox that
\* is gone, however far the two caches classify reads from lag apart.
THEOREM OrphansAlways == ControlPlaneSpec => []OrphansAreOrphans
<1>1. ControlPlaneInv /\ OrphanInv /\ [ControlPlaneNext]_allVars
        => ControlPlaneInv' /\ OrphanInv'
  BY ControlPlaneNextInv, OrphanStep
<1>2. OrphanInv => OrphansAreOrphans
  BY DEF OrphanInv
<1> QED
  BY <1>1, <1>2, ControlPlaneInitInv, OrphanInit, PTL DEF ControlPlaneSpec
=============================================================================
