----------------------- MODULE SandboxControllerProofs -----------------------
(***************************************************************************)
(* Proofs about SandboxController, for any number of Sandboxes and Pods,   *)
(* any lag of the caches and any number of faults.                         *)
(***************************************************************************)
EXTENDS SandboxController, TLAPS

-----------------------------------------------------------------------------
(* Watch streams.                                                          *)

\* An object in a watch stream has the type of its kind.
LEMMA StreamElement ==
  ASSUME NEW S, NEW w \in Seq(S), NEW i \in 1..Len(w)
  PROVE  w[i] \in S
OBVIOUS

\* An object appended to a stream comes last and disturbs no other.
LEMMA AppendFacts ==
  ASSUME NEW S, NEW w \in Seq(S), NEW x \in S, NEW i \in 1..Len(Append(w, x))
  PROVE  \/ i \in 1..Len(w) /\ Append(w, x)[i] = w[i] /\ w[i] \in S
         \/ Append(w, x)[i] = x
OBVIOUS

\* Delivering the first object leaves the others as they were.
LEMMA HeadTailFacts ==
  ASSUME NEW S, NEW w \in Seq(S), w # <<>>
  PROVE  /\ Head(w) = w[1] /\ 1 \in 1..Len(w) /\ w[1] \in S
         /\ Tail(w) \in Seq(S)
         /\ \A i \in 1..Len(Tail(w)) : i + 1 \in 1..Len(w) /\ Tail(w)[i] = w[i + 1]
OBVIOUS

-----------------------------------------------------------------------------
(* Typing.                                                                 *)

\* What a pass starts from or carries on with is a Sandbox.
LEMMA ViewType ==
  ASSUME TypeOK, NEW s \in Sandboxes
  PROVE  View(s) \in SandboxObject
BY DEF TypeOK, ClusterTypeOK, View, Pass

\* A written Sandbox is typed: only its version is not the writer's.
LEMMA WriteSandboxType ==
  ASSUME ClusterTypeOK, NEW s \in Sandboxes, NEW obj \in SandboxObject,
         WriteSandbox(s, obj)
  PROVE  /\ sandboxes' \in [Sandboxes -> SandboxObject]
         /\ sbxCache' \in [Sandboxes -> SandboxObject]
         /\ sbxWatch' \in Seq([key: Sandboxes, obj: SandboxObject])
<1> DEFINE new == [obj EXCEPT !.rv = sandboxes[s].rv + 1]
<1>1. new \in SandboxObject
  <2>1. sandboxes[s].rv + 1 \in Nat
    BY DEF ClusterTypeOK, SandboxObject
  <2> QED
    BY <2>1 DEF SandboxObject
<1>2. [key |-> s, obj |-> new] \in [key: Sandboxes, obj: SandboxObject]
  BY <1>1
<1> QED
  BY <1>1, <1>2 DEF ClusterTypeOK, WriteSandbox

\* The same of a Pod.
LEMMA WritePodType ==
  ASSUME ClusterTypeOK, NEW p \in Pods, NEW obj \in PodObject, WritePod(p, obj)
  PROVE  /\ pods' \in [Pods -> PodObject]
         /\ podCache' \in [Pods -> PodObject]
         /\ podWatch' \in Seq([key: Pods, obj: PodObject])
<1> DEFINE new == [obj EXCEPT !.rv = pods[p].rv + 1]
<1>1. new \in PodObject
  <2>1. pods[p].rv + 1 \in Nat
    BY DEF ClusterTypeOK, PodObject
  <2> QED
    BY <2>1 DEF PodObject
<1>2. [key |-> p, obj |-> new] \in [key: Pods, obj: PodObject]
  BY <1>1
<1> QED
  BY <1>1, <1>2 DEF ClusterTypeOK, WritePod

-----------------------------------------------------------------------------
(* What a step may do to the Pods: nothing, one write that keeps an owner  *)
(* once there is one and gives one only to a Pod that is not on its way    *)
(* out, a delivery, or a fresh list after a restart.                       *)

Retired(obj) == obj.st \in {"deleting", "gone"}

KeepsOwner(p, obj) ==
  /\ pods[p].owner # None => obj.owner = pods[p].owner
  /\ obj.st = "absent" => obj.owner = None
  /\ obj.owner # pods[p].owner => ~Retired(pods[p]) /\ ~Retired(obj)
  /\ Retired(pods[p]) => Retired(obj)

PodDelivered ==
  /\ podWatch # <<>>
  /\ podCache' = [podCache EXCEPT ![Head(podWatch).key] = Head(podWatch).obj]
  /\ podWatch' = Tail(podWatch)
  /\ UNCHANGED pods

PodsListed == UNCHANGED pods /\ podCache' = pods /\ podWatch' = <<>>

PodEffect ==
  \/ UNCHANGED podVars
  \/ \E p \in Pods, obj \in PodObject : KeepsOwner(p, obj) /\ WritePod(p, obj)
  \/ PodDelivered
  \/ PodsListed

\* A write leaves the new version in the API server and at the end of the
\* stream, and touches no other Pod.
LEMMA WritePodEffect ==
  ASSUME NEW p \in Pods, NEW obj \in PodObject, KeepsOwner(p, obj), WritePod(p, obj)
  PROVE  PodEffect
BY DEF PodEffect

\* Delete is such an effect.
LEMMA DeletePodEffect ==
  ASSUME TypeOK, NEW p \in Pods, DeletePod(p)
  PROVE  PodEffect
<1>1. CASE pods[p].st = "live"
  <2> DEFINE obj == [pods[p] EXCEPT !.st = "deleting"]
  <2>0. pods[p] \in PodObject
    BY DEF TypeOK, ClusterTypeOK
  <2>1. obj \in PodObject /\ KeepsOwner(p, obj)
    BY <2>0 DEF PodObject, Existence, KeepsOwner, Retired
  <2>2. WritePod(p, obj)
    BY <1>1 DEF DeletePod
  <2> HIDE DEF obj
  <2> QED
    BY <2>1, <2>2, WritePodEffect
<1>2. CASE pods[p].st # "live"
  BY <1>2 DEF DeletePod, PodEffect
<1> QED
  BY <1>1, <1>2

\* So is whatever deletePod does for a Sandbox.
LEMMA ReleasePodEffect ==
  ASSUME TypeOK, NEW obj \in SandboxObject, ReleasePod(obj)
  PROVE  PodEffect
<1>1. CASE HasPod(obj)
  <2>1. obj.pod \in Pods
    BY <1>1 DEF HasPod, SandboxObject
  <2>2. DeletePod(obj.pod)
    BY <1>1 DEF ReleasePod
  <2> QED
    BY <2>1, <2>2, DeletePodEffect
<1>2. CASE ~HasPod(obj)
  BY <1>2 DEF ReleasePod, PodEffect
<1> QED
  BY <1>1, <1>2

\* Every pass has such an effect on the Pods.
LEMMA ReconcilePodEffect ==
  ASSUME TypeOK, Coherent, NEW s \in Sandboxes, Reconcile(s)
  PROVE  PodEffect
<1> USE DEF clusterVars
<1>1. CASE \/ ReconcileNothing(s) \/ AddFinalizer(s) \/ AcquireFails(s)
           \/ Adopt(s) \/ ClaimErrs(s) \/ RecordBinding(s) \/ BindFails(s)
           \/ BindWaits(s) \/ BindBelowFloor(s) \/ BindSucceeds(s)
           \/ BindErrs(s) \/ RecordRunning(s) \/ RecordFailed(s)
           \/ WatchExpiry(s) \/ RecordExpired(s) \/ RemoveFinalizer(s)
  BY <1>1, Zenon DEF PodEffect, ReconcileNothing, AddFinalizer, AcquireFails, Adopt,
              ClaimErrs, RecordBinding, BindFails, BindWaits, BindBelowFloor,
              BindSucceeds, BindErrs, RecordRunning, RecordFailed,
              WatchExpiry, RecordExpired, RemoveFinalizer
<1>2. CASE ClaimWarmPod(s)
  <2>1. PICK p \in Claimable : WritePod(p, [podCache[p] EXCEPT !.owner = s])
    BY <1>2 DEF ClaimWarmPod
  <2>2. p \in Pods /\ podCache[p] \in PodObject
    BY <2>1 DEF Claimable, Candidates, TypeOK, ClusterTypeOK
  <2>3. pods[p].owner = None /\ pods[p].st = "live" /\ podCache[p].st = "live"
    BY <2>1, <2>2 DEF Claimable, Candidates, PodCurrent, Coherent, PodsCoherent, PodCopy
  <2>4. [podCache[p] EXCEPT !.owner = s] \in PodObject
    BY <2>2 DEF PodObject
  <2> QED
    <3>1. KeepsOwner(p, [podCache[p] EXCEPT !.owner = s])
      BY <2>2, <2>3 DEF KeepsOwner, Retired, PodObject
    <3> QED
      BY <2>1, <2>2, <2>4, <3>1, WritePodEffect
<1>3. CASE CreatePod(s)
  <2>1. CASE UNCHANGED podVars
    BY <2>1 DEF PodEffect
  <2>2. ASSUME NEW p \in Pods, pods[p].st = "absent", WritePod(p, ColdPod(s))
        PROVE  PodEffect
    <3>1. ColdPod(s) \in PodObject
      BY ZenonT(30) DEF ColdPod, AbsentPod, PodObject, Existence, Tiers, TypeOK, ClusterTypeOK
    <3>2. KeepsOwner(p, ColdPod(s))
      BY <2>2 DEF KeepsOwner, Retired, ColdPod, AbsentPod, Coherent, PodsCoherent
    <3> QED
      BY <2>2, <3>1, <3>2, WritePodEffect
  <2> QED
    BY <1>3, <2>1, <2>2, Zenon DEF CreatePod
<1>4. CASE DropPod(s)
  <2>1. rec[s].obj.pod \in Pods
    BY <1>4 DEF DropPod, Coherent, PassCoherent, SandboxCopy, TypeOK, Pass, SandboxObject
  <2> QED
    BY <1>4, <2>1, DeletePodEffect DEF DropPod, PodEffect
<1>5. CASE LabelTier(s)
  <2> DEFINE p == rec[s].pod
             obj == [pods[p] EXCEPT !.tier = NodeTier[p]]
  <2>1. p \in Pods
    BY <1>5 DEF LabelTier, Coherent, PassCoherent
  <2>a. pods[p] \in PodObject /\ (pods[p].st = "absent" => pods[p].owner = None)
    BY <2>1 DEF TypeOK, ClusterTypeOK, Coherent, PodsCoherent
  <2>b. NodeTier[p] \in Tiers
    BY <2>1, NodeTierAssumption DEF Tiers
  <2>2. obj \in PodObject /\ KeepsOwner(p, obj)
    BY <2>a, <2>b DEF PodObject, KeepsOwner, Retired
  <2>3. WritePod(p, obj) \/ UNCHANGED podVars
    BY <1>5 DEF LabelTier
  <2> HIDE DEF obj
  <2> QED
    BY <2>1, <2>2, <2>3, WritePodEffect DEF PodEffect
<1>6. CASE Expire(s)
  <2>1. ReleasePod(View(s)) \/ UNCHANGED podVars
    BY <1>6 DEF Expire, ReleaseErrs
  <2> QED
    BY <2>1, ViewType, ReleasePodEffect DEF PodEffect
<1>7. CASE Finalize(s)
  <2>1. ReleasePod(sbxCache[s]) \/ UNCHANGED podVars
    BY <1>7 DEF Finalize, ReleaseErrs
  <2>2. sbxCache[s] \in SandboxObject
    BY DEF TypeOK, ClusterTypeOK
  <2> QED
    BY <2>1, <2>2, ReleasePodEffect DEF PodEffect
<1> QED
  BY <1>1, <1>2, <1>3, <1>4, <1>5, <1>6, <1>7 DEF Reconcile

\* And so has every step of the system.
LEMMA NextPodEffect ==
  ASSUME TypeOK, Coherent, Next
  PROVE  PodEffect
<1> USE DEF clusterVars
<1>1. ASSUME NEW s \in Sandboxes, Reconcile(s) PROVE PodEffect
  BY <1>1, ReconcilePodEffect
<1>2. ASSUME NEW s \in Sandboxes,
             UserCreate(s) \/ UserDelete(s) \/ DeadlinePasses(s) \/ TimerFires(s)
      PROVE  PodEffect
  BY <1>2, Zenon DEF UserCreate, UserDelete, DeadlinePasses, TimerFires, PodEffect
<1>3. ASSUME NEW p \in Pods, Kubelet(p) PROVE PodEffect
  <2>1. pods[p] \in PodObject
    BY DEF TypeOK, ClusterTypeOK
  <2>2. CASE KubeletStarts(p)
    <3>1. [pods[p] EXCEPT !.ready = "ready"] \in PodObject
      BY <2>1 DEF PodObject
    <3>2. KeepsOwner(p, [pods[p] EXCEPT !.ready = "ready"])
      BY <2>1, <2>2 DEF PodObject, KeepsOwner, Retired, KubeletStarts
    <3> QED
      BY <2>2, <3>1, <3>2, WritePodEffect DEF KubeletStarts
  <2>3. CASE KubeletStops(p)
    <3>1. [pods[p] EXCEPT !.ready = "dead"] \in PodObject
      BY <2>1 DEF PodObject
    <3>2. KeepsOwner(p, [pods[p] EXCEPT !.ready = "dead"])
      BY <2>1, <2>3 DEF PodObject, KeepsOwner, Retired, KubeletStops
    <3> QED
      BY <2>3, <3>1, <3>2, WritePodEffect DEF KubeletStops
  <2>4. CASE KubeletRemoves(p)
    <3>1. [pods[p] EXCEPT !.st = "gone", !.ready = "dead"] \in PodObject
      BY <2>1, Zenon DEF PodObject, Existence
    <3>2. KeepsOwner(p, [pods[p] EXCEPT !.st = "gone", !.ready = "dead"])
      BY <2>1 DEF PodObject, KeepsOwner, Retired
    <3> QED
      BY <2>4, <3>1, <3>2, WritePodEffect DEF KubeletRemoves
  <2> QED
    BY <1>3, <2>2, <2>3, <2>4 DEF Kubelet
<1>4. ASSUME NEW p \in Pods, CollectGarbage(p) PROVE PodEffect
  BY <1>4, DeletePodEffect DEF CollectGarbage
<1>5. ASSUME NEW p \in Pods, ExecdExpires(p) PROVE PodEffect
  BY <1>5 DEF ExecdExpires, PodEffect
<1>6. CASE EditTemplate \/ DeliverSandbox
  BY <1>6 DEF EditTemplate, DeliverSandbox, PodEffect
<1>7. CASE DeliverPod
  BY <1>7 DEF DeliverPod, PodEffect, PodDelivered
<1>8. CASE Restart
  BY <1>8 DEF Restart, PodEffect, PodsListed
<1> QED
  BY <1>1, <1>2, <1>3, <1>4, <1>5, <1>6, <1>7, <1>8 DEF Next, Work

OwnersKept == \A p \in Pods : pods[p].owner # None => pods'[p].owner = pods[p].owner

PodsType ==
  /\ pods \in [Pods -> PodObject]
  /\ podCache \in [Pods -> PodObject]
  /\ podWatch \in Seq([key: Pods, obj: PodObject])

\* An effect keeps the Pods' copies coherent, and every owner.
LEMMA PodEffectCoherent ==
  ASSUME TypeOK, PodsCoherent, PodEffect
  PROVE  PodsType' /\ PodsCoherent' /\ OwnersKept
<1> PodsType
  BY DEF TypeOK, ClusterTypeOK, PodsType
<1>1. CASE UNCHANGED podVars
  BY <1>1 DEF podVars, PodsType, PodsCoherent, PodCopy, OwnersKept
<1>2. ASSUME NEW p \in Pods, NEW obj \in PodObject, KeepsOwner(p, obj), WritePod(p, obj)
      PROVE  PodsType' /\ PodsCoherent' /\ OwnersKept
  <2> DEFINE new == [obj EXCEPT !.rv = pods[p].rv + 1]
  <2>1. /\ pods' = [pods EXCEPT ![p] = new] /\ podCache' = podCache
        /\ podWatch' = Append(podWatch, [key |-> p, obj |-> new])
    BY <1>2 DEF WritePod
  <2>2. PodsType'
    BY <1>2, WritePodType, Zenon DEF TypeOK, PodsType
  <2>3. /\ new \in PodObject /\ new.rv = pods[p].rv + 1 /\ pods[p].rv \in Nat
        /\ new.owner = obj.owner /\ new.st = obj.st
    <3>1. pods[p].rv \in Nat
      BY DEF PodObject, PodsType
    <3> QED
      BY <3>1 DEF PodObject
  <2> HIDE DEF new
  <2>4. OwnersKept
    BY <1>2, <2>1, <2>3 DEF OwnersKept, KeepsOwner, Retired, PodsType
  <2>5. ASSUME NEW q \in Pods, NEW o \in PodObject, PodCopy(pods[q], o)
        PROVE  PodCopy(pods'[q], o)
    <3>1. CASE q = p
      <4>1. pods'[q] = new
        BY <2>1, <3>1 DEF PodsType
      <4>2. o.owner # None => new.owner = o.owner
        BY <1>2, <2>3, <2>5, <3>1 DEF PodCopy, KeepsOwner, Retired
      <4>3. o.rv < new.rv
        BY <2>3, <2>5, <3>1 DEF PodCopy, PodObject
      <4> QED
        BY <2>3, <4>1, <4>2, <4>3 DEF PodCopy, PodObject
    <3>2. CASE q # p
      BY <2>1, <2>5, <3>2 DEF PodsType
    <3> QED
      BY <3>1, <3>2
  <2>6. PodCopy(pods'[p], new)
    BY <2>1, <2>3 DEF PodCopy, PodsType, PodObject
  <2>7. \A q \in Pods : pods'[q].st = "absent" => pods'[q].owner = None
    BY <1>2, <2>1, <2>3 DEF PodsCoherent, PodsType, KeepsOwner, Retired
  <2>8. \A q \in Pods : PodCopy(pods'[q], podCache'[q])
    BY <2>1, <2>5 DEF PodsCoherent, PodsType
  <2>9. ASSUME NEW i \in 1..Len(podWatch')
        PROVE  PodCopy(pods'[podWatch'[i].key], podWatch'[i].obj)
    <3> DEFINE S == [key: Pods, obj: PodObject]
               x == [key |-> p, obj |-> new]
    <3>1. x \in S /\ x.key = p /\ x.obj = new
      BY <2>3
    <3>2. podWatch \in Seq(S) /\ podWatch' = Append(podWatch, x)
      BY <2>1 DEF PodsType
    <3> HIDE DEF S, x
    <3>3. \/ i \in 1..Len(podWatch) /\ podWatch'[i] = podWatch[i] /\ podWatch[i] \in S
          \/ podWatch'[i] = x
      BY <2>9, <3>1, <3>2, AppendFacts
    <3>4. CASE i \in 1..Len(podWatch) /\ podWatch'[i] = podWatch[i] /\ podWatch[i] \in S
      <4>1. podWatch[i].key \in Pods /\ podWatch[i].obj \in PodObject
        BY <3>4 DEF S
      <4>2. PodCopy(pods[podWatch[i].key], podWatch[i].obj)
        BY <3>4 DEF PodsCoherent
      <4> QED
        BY <2>5, <3>4, <4>1, <4>2
    <3>5. CASE podWatch'[i] = x
      BY <2>6, <3>1, <3>5
    <3> QED
      BY <3>3, <3>4, <3>5
  <2> QED
    BY <2>2, <2>4, <2>7, <2>8, <2>9 DEF PodsCoherent
<1>3. CASE PodDelivered
  <2>1. /\ Head(podWatch) = podWatch[1] /\ 1 \in 1..Len(podWatch)
        /\ podWatch[1] \in [key: Pods, obj: PodObject]
        /\ Tail(podWatch) \in Seq([key: Pods, obj: PodObject])
        /\ \A i \in 1..Len(Tail(podWatch)) :
             i + 1 \in 1..Len(podWatch) /\ Tail(podWatch)[i] = podWatch[i + 1]
    BY <1>3, HeadTailFacts, Zenon DEF PodDelivered, PodsType
  <2>2. PodsType'
    BY <1>3, <2>1 DEF PodDelivered, PodsType
  <2>3. OwnersKept
    BY <1>3 DEF PodDelivered, OwnersKept
  <2>4. \A p \in Pods : PodCopy(pods[p], podCache'[p])
    BY <1>3, <2>1 DEF PodDelivered, PodsType, PodsCoherent
  <2>5. \A i \in 1..Len(podWatch') : PodCopy(pods[podWatch'[i].key], podWatch'[i].obj)
    BY <1>3, <2>1 DEF PodDelivered, PodsCoherent
  <2> QED
    BY <1>3, <2>2, <2>3, <2>4, <2>5 DEF PodDelivered, PodsCoherent
<1>4. CASE PodsListed
  BY <1>4 DEF PodsListed, PodsType, PodsCoherent, PodCopy, OwnersKept, PodObject
<1> QED
  BY <1>1, <1>2, <1>3, <1>4 DEF PodEffect

-----------------------------------------------------------------------------
(* What a step may do to the Sandboxes: nothing, one write that moves the  *)
(* status on and says only what is so, a delivery, or a fresh list.        *)

Sound(s, obj) ==
  /\ obj.phase = "Pending" => obj.pod = None
  /\ obj.phase \in {"Binding", "Running"} => obj.pod # None
  /\ PodIsOf(s, obj)
  /\ sandboxes[s].pod # None => obj.pod = sandboxes[s].pod
  /\ obj.phase # sandboxes[s].phase =>
       /\ sandboxes[s].phase \notin Terminal
       /\ PhaseRank(sandboxes[s].phase) < PhaseRank(obj.phase)
  /\ obj.phase = "Running" =>
       execd[obj.pod].sbx = s /\ execd[obj.pod].token = obj.token

SandboxDelivered ==
  /\ sbxWatch # <<>>
  /\ sbxCache' = [sbxCache EXCEPT ![Head(sbxWatch).key] = Head(sbxWatch).obj]
  /\ sbxWatch' = Tail(sbxWatch)
  /\ UNCHANGED sandboxes

SandboxesListed == UNCHANGED sandboxes /\ sbxCache' = sandboxes /\ sbxWatch' = <<>>

SandboxEffect ==
  \/ UNCHANGED sandboxVars
  \/ \E s \in Sandboxes, obj \in SandboxObject : Sound(s, obj) /\ WriteSandbox(s, obj)
  \/ SandboxDelivered
  \/ SandboxesListed

\* The same for a write of a Sandbox.
LEMMA WriteSandboxEffect ==
  ASSUME NEW s \in Sandboxes, NEW obj \in SandboxObject, Sound(s, obj), WriteSandbox(s, obj)
  PROVE  SandboxEffect
BY DEF SandboxEffect

\* What the proof of a step starts from.
Inv == TypeOK /\ Coherent /\ RunningIsServed

\* The object a pass updates successfully is the object as it is.
LEMMA CurrentPass ==
  ASSUME Inv, NEW s \in Sandboxes, SandboxCurrent(s, rec[s].obj)
  PROVE  rec[s].obj = sandboxes[s]
BY DEF Inv, Coherent, PassCoherent, SandboxCopy, SandboxCurrent

\* The object itself says only what is so.
LEMMA SoundSandbox ==
  ASSUME Inv, NEW s \in Sandboxes
  PROVE  Sound(s, sandboxes[s]) /\ sandboxes[s] \in SandboxObject
BY DEF Inv, TypeOK, ClusterTypeOK, Coherent, SandboxesCoherent, SandboxCopy,
       RunningIsServed, Sound

\* A write that leaves the status alone is sound.
LEMMA SoundSpecWrite ==
  ASSUME Inv, NEW s \in Sandboxes, NEW obj \in SandboxObject, WriteSandbox(s, obj),
         obj.phase = sandboxes[s].phase, obj.pod = sandboxes[s].pod,
         obj.token = sandboxes[s].token
  PROVE  SandboxEffect
<1>1. Sound(s, obj)
  BY SoundSandbox DEF Sound, PodIsOf
<1> QED
  BY <1>1, WriteSandboxEffect

\* A write that ends the Sandbox's life, from any phase before, is sound.
LEMMA TerminalWriteEffect ==
  ASSUME Inv, NEW s \in Sandboxes, NEW ph \in Terminal,
         rec[s].obj.phase \in {"Pending", "Binding", "Running"},
         Accepted(s, [rec[s].obj EXCEPT !.phase = ph, !.token = None])
  PROVE  SandboxEffect
<1> DEFINE obj == [rec[s].obj EXCEPT !.phase = ph, !.token = None]
<1>1. rec[s].obj = sandboxes[s]
  BY CurrentPass DEF Accepted
<1>2. sandboxes[s] \in SandboxObject
  BY DEF Inv, TypeOK, ClusterTypeOK
<1>3. obj \in SandboxObject /\ obj.phase = ph /\ obj.pod = sandboxes[s].pod
  BY <1>1, <1>2, Zenon DEF SandboxObject, Phases, Terminal
<1>4. WriteSandbox(s, obj)
  BY DEF Accepted
<1> HIDE DEF obj
<1>5. Sound(s, obj)
  BY <1>1, <1>3, SoundSandbox DEF Sound, PodIsOf, Terminal, PhaseRank
<1> QED
  BY <1>3, <1>4, <1>5, WriteSandboxEffect

\* Every pass has such an effect.
LEMMA ReconcileSandboxEffect ==
  ASSUME Inv, NEW s \in Sandboxes, Reconcile(s)
  PROVE  SandboxEffect
<1> USE DEF clusterVars
<1> sandboxes[s] \in SandboxObject /\ rec[s] \in Pass
  BY DEF Inv, TypeOK, ClusterTypeOK
<1>1. CASE \/ ReconcileNothing(s) \/ AcquireFails(s) \/ Adopt(s)
           \/ ClaimWarmPod(s) \/ ClaimErrs(s) \/ CreatePod(s) \/ BindFails(s)
           \/ BindWaits(s) \/ BindBelowFloor(s) \/ BindSucceeds(s)
           \/ BindErrs(s) \/ DropPod(s) \/ LabelTier(s) \/ WatchExpiry(s)
           \/ Expire(s) \/ Finalize(s)
  BY <1>1, Zenon DEF SandboxEffect, ReconcileNothing, AcquireFails, Adopt, ClaimWarmPod,
              ClaimErrs, CreatePod, BindFails, BindWaits, BindBelowFloor,
              BindSucceeds, BindErrs, DropPod, LabelTier, WatchExpiry, Expire,
              Finalize
<1>2. CASE AddFinalizer(s)
  <2>1. CASE UNCHANGED sandboxVars
    BY <2>1 DEF SandboxEffect
  <2>2. CASE /\ SandboxCurrent(s, sbxCache[s])
             /\ WriteSandbox(s, [sbxCache[s] EXCEPT !.fin = TRUE])
    <3>1. sbxCache[s] = sandboxes[s]
      BY <2>2 DEF Inv, Coherent, SandboxesCoherent, SandboxCopy, SandboxCurrent
    <3>2. [sandboxes[s] EXCEPT !.fin = TRUE] \in SandboxObject
      BY Zenon DEF SandboxObject
    <3> QED
      BY <2>2, <3>1, <3>2, SoundSpecWrite DEF SandboxObject
  <2> QED
    BY <1>2, <2>1, <2>2 DEF AddFinalizer
<1>3. CASE RecordBinding(s)
  <2> DEFINE obj == [rec[s].obj EXCEPT !.phase = "Binding", !.pod = rec[s].pod]
  <2>1. CASE UNCHANGED sandboxVars
    BY <2>1 DEF SandboxEffect
  <2>2. CASE Accepted(s, obj)
    <3>1. rec[s].obj = sandboxes[s]
      BY <2>2, CurrentPass DEF Accepted
    <3>2. /\ rec[s].pod \in Pods /\ pods[rec[s].pod].owner = s
          /\ rec[s].obj.phase = "Pending" /\ rec[s].obj.pod = None
      BY <1>3 DEF RecordBinding, Inv, Coherent, PassCoherent, SandboxCopy
    <3>3. /\ obj \in SandboxObject /\ obj.phase = "Binding" /\ obj.pod = rec[s].pod
      BY <3>1, <3>2, Zenon DEF SandboxObject, Phases
    <3>4. WriteSandbox(s, obj)
      BY <2>2 DEF Accepted
    <3> HIDE DEF obj
    <3>5. Sound(s, obj)
      BY <3>1, <3>2, <3>3, NoneAssumption DEF Sound, PodIsOf, Terminal, PhaseRank
    <3> QED
      BY <3>3, <3>4, <3>5, WriteSandboxEffect
  <2> QED
    BY <1>3, <2>1, <2>2 DEF RecordBinding, Refused
<1>4. CASE RecordRunning(s)
  <2> DEFINE obj == [rec[s].obj EXCEPT !.phase = "Running", !.token = rec[s].token]
  <2>1. CASE UNCHANGED sandboxVars
    BY <2>1 DEF SandboxEffect
  <2>2. CASE Accepted(s, obj)
    <3>1. rec[s].obj = sandboxes[s]
      BY <2>2, CurrentPass DEF Accepted
    <3>2. /\ rec[s].obj.phase = "Binding" /\ rec[s].pod = rec[s].obj.pod
          /\ rec[s].obj.pod # None
          /\ execd[rec[s].pod].sbx = s /\ execd[rec[s].pod].token = rec[s].token
      BY <1>4 DEF RecordRunning, Inv, Coherent, PassCoherent, SandboxCopy
    <3>3. /\ obj \in SandboxObject /\ obj.phase = "Running"
          /\ obj.pod = sandboxes[s].pod /\ obj.token = rec[s].token
      BY <3>1, Zenon DEF SandboxObject, Phases, Pass
    <3>4. WriteSandbox(s, obj)
      BY <2>2 DEF Accepted
    <3> HIDE DEF obj
    <3>5. Sound(s, obj)
      BY <3>1, <3>2, <3>3, SoundSandbox DEF Sound, PodIsOf, Terminal, PhaseRank
    <3> QED
      BY <3>3, <3>4, <3>5, WriteSandboxEffect
  <2> QED
    BY <1>4, <2>1, <2>2 DEF RecordRunning, Refused
<1>5. CASE RecordFailed(s) \/ RecordExpired(s)
  <2>1. rec[s].obj.phase \in {"Pending", "Binding", "Running"}
    BY <1>5 DEF RecordFailed, RecordExpired, Inv, Coherent, PassCoherent
  <2>2. "Failed" \in Terminal /\ "Expired" \in Terminal
    BY DEF Terminal
  <2> QED
    BY <1>5, <2>1, <2>2, TerminalWriteEffect, Zenon DEF RecordFailed, RecordExpired, Refused, SandboxEffect
<1>6. CASE RemoveFinalizer(s)
  <2>1. CASE UNCHANGED sandboxVars
    BY <2>1 DEF SandboxEffect
  <2>2. CASE Accepted(s, [rec[s].obj EXCEPT !.st = "gone", !.fin = FALSE])
    <3>1. rec[s].obj = sandboxes[s]
      BY <2>2, CurrentPass DEF Accepted
    <3>2. [sandboxes[s] EXCEPT !.st = "gone", !.fin = FALSE] \in SandboxObject
      BY Zenon DEF SandboxObject, Existence
    <3> QED
      BY <2>2, <3>1, <3>2, SoundSpecWrite, Zenon DEF Accepted, SandboxObject
  <2> QED
    BY <1>6, <2>1, <2>2 DEF RemoveFinalizer, Refused
<1> QED
  BY <1>1, <1>2, <1>3, <1>4, <1>5, <1>6 DEF Reconcile

\* And so has every step of the system.
LEMMA NextSandboxEffect ==
  ASSUME Inv, Next
  PROVE  SandboxEffect
<1> USE DEF clusterVars
<1>1. ASSUME NEW s \in Sandboxes, Reconcile(s) PROVE SandboxEffect
  BY <1>1, ReconcileSandboxEffect
<1>2. ASSUME NEW s \in Sandboxes, UserCreate(s) PROVE SandboxEffect
  <2>1. PICK spec \in Specs : WriteSandbox(s, [AbsentSandbox EXCEPT !.st = "live", !.spec = spec])
    BY <1>2, Zenon DEF UserCreate
  <2>2. sandboxes[s] = AbsentSandbox
    BY <1>2 DEF UserCreate
  <2>3. [AbsentSandbox EXCEPT !.st = "live", !.spec = spec] \in SandboxObject
    BY SpecsAssumption, Zenon DEF AbsentSandbox, SandboxObject, Existence, Phases
  <2> QED
    BY <2>1, <2>2, <2>3, SoundSpecWrite, Zenon DEF AbsentSandbox
<1>3. ASSUME NEW s \in Sandboxes, UserDelete(s) PROVE SandboxEffect
  <2>1. PICK st \in {"deleting", "gone"} : WriteSandbox(s, [sandboxes[s] EXCEPT !.st = st])
    BY <1>3 DEF UserDelete
  <2>2. sandboxes[s] \in SandboxObject
    BY DEF Inv, TypeOK, ClusterTypeOK
  <2>3. [sandboxes[s] EXCEPT !.st = st] \in SandboxObject
    BY <2>2 DEF SandboxObject, Existence
  <2> QED
    BY <2>1, <2>2, <2>3, SoundSpecWrite DEF SandboxObject
<1>4. ASSUME NEW s \in Sandboxes, DeadlinePasses(s) \/ TimerFires(s) PROVE SandboxEffect
  BY <1>4 DEF DeadlinePasses, TimerFires, SandboxEffect
<1>5. ASSUME NEW p \in Pods, Kubelet(p) \/ CollectGarbage(p) \/ ExecdExpires(p)
      PROVE  SandboxEffect
  BY <1>5 DEF Kubelet, KubeletStarts, KubeletStops, KubeletRemoves,
              CollectGarbage, ExecdExpires, SandboxEffect
<1>6. CASE EditTemplate \/ DeliverPod
  BY <1>6 DEF EditTemplate, DeliverPod, SandboxEffect
<1>7. CASE DeliverSandbox
  BY <1>7 DEF DeliverSandbox, SandboxEffect, SandboxDelivered
<1>8. CASE Restart
  BY <1>8 DEF Restart, SandboxEffect, SandboxesListed
<1> QED
  BY <1>1, <1>2, <1>3, <1>4, <1>5, <1>6, <1>7, <1>8 DEF Next, Work

-----------------------------------------------------------------------------
(* What a step may do to the execds: nothing, the one bind of a Pod's life *)
(* for the Sandbox the Pod belongs to (and then no Pod changes), or expiry. *)

ExecdBound ==
  \E p \in Pods, s \in Sandboxes, token \in Nat :
    /\ execd[p].st = "unbound" /\ pods[p].owner = s
    /\ execd' = [execd EXCEPT ![p] = [st |-> "bound", sbx |-> s, token |-> token]]
    /\ UNCHANGED podVars

ExecdEffect ==
  \/ UNCHANGED execd
  \/ ExecdBound
  \/ \E p \in Pods : execd' = [execd EXCEPT ![p].st = "expired"]

\* A bind is for a Pod of the Sandbox.
LEMMA ServeEffect ==
  ASSUME Inv, NEW s \in Sandboxes, Dispatch(s, "Binding"),
         ExecdAccepts(s, View(s).pod), Serve(s, View(s).pod), UNCHANGED podVars
  PROVE  View(s).pod \in Pods /\ pods[View(s).pod].owner = s /\ ExecdBound
<1>1. View(s).pod # None /\ PodIsOf(s, View(s))
  BY DEF Dispatch, View, Inv, Coherent, PassCoherent, SandboxesCoherent, SandboxCopy
<1>2. View(s).pod \in Pods
  BY <1>1, ViewType DEF Inv, SandboxObject
<1>3. minted + 1 \in Nat
  BY DEF Inv, TypeOK
<1> QED
  BY <1>1, <1>2, <1>3, Zenon DEF PodIsOf, ExecdAccepts, Serve, ExecdBound

\* An unbind retires the Pod's execd or leaves it as it was.
LEMMA UnbindEffect ==
  ASSUME NEW obj \in SandboxObject, HasPod(obj), Unbind(obj.pod)
  PROVE  ExecdEffect
BY Zenon DEF HasPod, SandboxObject, Unbind, ExecdEffect

\* What a step may do to execd: serve one claim of an unused Pod, or retire.
LEMMA NextExecdEffect ==
  ASSUME Inv, Next
  PROVE  ExecdEffect
<1>1. ASSUME NEW s \in Sandboxes, Reconcile(s) PROVE ExecdEffect
  <2>1. CASE \/ ReconcileNothing(s) \/ AddFinalizer(s) \/ AcquireFails(s)
             \/ Adopt(s) \/ ClaimWarmPod(s) \/ ClaimErrs(s) \/ CreatePod(s)
             \/ RecordBinding(s) \/ BindFails(s) \/ BindWaits(s)
             \/ BindBelowFloor(s) \/ DropPod(s) \/ RecordRunning(s)
             \/ LabelTier(s) \/ RecordFailed(s) \/ WatchExpiry(s)
             \/ RecordExpired(s) \/ RemoveFinalizer(s)
    BY <2>1, Zenon DEF ExecdEffect, ReconcileNothing, AddFinalizer, AcquireFails, Adopt,
                ClaimWarmPod, ClaimErrs, CreatePod, RecordBinding, BindFails,
                BindWaits, BindBelowFloor, DropPod, RecordRunning, LabelTier,
                RecordFailed, WatchExpiry, RecordExpired, RemoveFinalizer
  <2>2. CASE BindSucceeds(s)
    BY <2>2, ServeEffect DEF BindSucceeds, BindProceeds, clusterVars, ExecdEffect
  <2>3. CASE BindErrs(s)
    BY <2>3, ServeEffect DEF BindErrs, BindProceeds, clusterVars, ExecdEffect
  <2>4. CASE Expire(s)
    BY <2>4, ViewType, UnbindEffect DEF Inv, Expire, ReleasePod, ReleaseErrs, ExecdEffect
  <2>5. CASE Finalize(s)
    <3>1. sbxCache[s] \in SandboxObject
      BY DEF Inv, TypeOK, ClusterTypeOK
    <3> QED
      BY <2>5, <3>1, UnbindEffect DEF Finalize, ReleasePod, ReleaseErrs, ExecdEffect
  <2> QED
    BY <1>1, <2>1, <2>2, <2>3, <2>4, <2>5 DEF Reconcile
<1>2. ASSUME NEW p \in Pods, ExecdExpires(p) PROVE ExecdEffect
  BY <1>2, Zenon DEF ExecdExpires, ExecdEffect
<1>3. ASSUME NEW p \in Pods, Kubelet(p) \/ CollectGarbage(p) PROVE ExecdEffect
  BY <1>3 DEF Kubelet, KubeletStarts, KubeletStops, KubeletRemoves,
              CollectGarbage, ExecdEffect
<1>4. ASSUME NEW s \in Sandboxes,
             UserCreate(s) \/ UserDelete(s) \/ DeadlinePasses(s) \/ TimerFires(s)
      PROVE  ExecdEffect
  BY <1>4, Zenon DEF UserCreate, UserDelete, DeadlinePasses, TimerFires, ExecdEffect
<1>5. CASE EditTemplate \/ DeliverSandbox \/ DeliverPod \/ Restart
  BY <1>5 DEF EditTemplate, DeliverSandbox, DeliverPod, Restart, ExecdEffect
<1> QED
  BY <1>1, <1>2, <1>3, <1>4, <1>5 DEF Next, Work

ExecdType ==
  execd \in [Pods -> [st: {"unbound", "bound", "expired"},
                     sbx: Sandboxes \cup {None}, token: Nat \cup {None}]]

ExecdKept ==
  \A p \in Pods : execd[p].sbx # None =>
    execd'[p].sbx = execd[p].sbx /\ execd'[p].token = execd[p].token

\* Such an effect keeps execds and Pods in agreement, and every bind.
LEMMA ExecdEffectCoherent ==
  ASSUME TypeOK, ExecdCoherent, ExecdEffect, OwnersKept
  PROVE  ExecdType' /\ ExecdCoherent' /\ ExecdKept
<1> ExecdType
  BY DEF TypeOK, ExecdType
<1>1. CASE UNCHANGED execd
  BY <1>1, NoneAssumption DEF ExecdType, ExecdCoherent, ExecdKept, OwnersKept
<1>2. ASSUME NEW p \in Pods, NEW s \in Sandboxes, NEW token \in Nat,
             execd[p].st = "unbound", pods[p].owner = s,
             execd' = [execd EXCEPT ![p] = [st |-> "bound", sbx |-> s, token |-> token]]
      PROVE  ExecdType' /\ ExecdCoherent' /\ ExecdKept
  <2>1. s # None
    BY NoneAssumption
  <2>2. ExecdType'
    BY <1>2 DEF ExecdType
  <2>3. ExecdKept
    BY <1>2 DEF ExecdType, ExecdCoherent, ExecdKept
  <2>4. ExecdCoherent'
    BY <1>2, <2>1, NoneAssumption DEF ExecdType, ExecdCoherent, OwnersKept
  <2> QED
    BY <2>2, <2>3, <2>4
<1>3. ASSUME NEW p \in Pods, execd' = [execd EXCEPT ![p].st = "expired"]
      PROVE  ExecdType' /\ ExecdCoherent' /\ ExecdKept
  <2>1. ExecdType' /\ ExecdKept
    BY <1>3 DEF ExecdType, ExecdKept
  <2>2. ExecdCoherent'
    BY <1>3, NoneAssumption DEF ExecdType, ExecdCoherent, OwnersKept
  <2> QED
    BY <2>1, <2>2
<1> QED
  BY <1>1, <1>2, <1>3 DEF ExecdEffect, ExecdBound

SandboxesType ==
  /\ sandboxes \in [Sandboxes -> SandboxObject]
  /\ sbxCache \in [Sandboxes -> SandboxObject]
  /\ sbxWatch \in Seq([key: Sandboxes, obj: SandboxObject])

\* A copy stays a copy, and a Pod it names stays the Sandbox's.
CopiesKept ==
  \A s \in Sandboxes, o \in SandboxObject :
    SandboxCopy(sandboxes[s], o) => SandboxCopy(sandboxes'[s], o)

\* What the action properties ask of a step.
StatusMovesOn ==
  \A s \in Sandboxes :
    /\ sandboxes[s].pod # None => sandboxes'[s].pod = sandboxes[s].pod
    /\ sandboxes'[s].phase # sandboxes[s].phase =>
         /\ sandboxes[s].phase \notin Terminal
         /\ PhaseRank(sandboxes[s].phase) < PhaseRank(sandboxes'[s].phase)

\* A Sandbox write leaves what other objects and copies say of it true.
LEMMA SandboxEffectKeeps ==
  ASSUME Inv, SandboxEffect
  PROVE  SandboxesType' /\ CopiesKept /\ StatusMovesOn
<1> SandboxesType
  BY DEF Inv, TypeOK, ClusterTypeOK, SandboxesType
<1>1. CASE UNCHANGED sandboxVars
  BY <1>1 DEF sandboxVars, SandboxesType, CopiesKept, StatusMovesOn
<1>2. ASSUME NEW s \in Sandboxes, NEW obj \in SandboxObject, Sound(s, obj), WriteSandbox(s, obj)
      PROVE  SandboxesType' /\ CopiesKept /\ StatusMovesOn
  <2> DEFINE new == [obj EXCEPT !.rv = sandboxes[s].rv + 1]
  <2>1. sandboxes' = [sandboxes EXCEPT ![s] = new]
    BY <1>2 DEF WriteSandbox
  <2>2. SandboxesType'
    BY <1>2, WriteSandboxType, Zenon DEF Inv, TypeOK, SandboxesType
  <2>3. sandboxes[s].rv \in Nat
    BY DEF SandboxObject, SandboxesType
  <2>4. /\ new \in SandboxObject /\ new.rv = sandboxes[s].rv + 1
        /\ new.phase = obj.phase /\ new.pod = obj.pod
    BY <2>3 DEF SandboxObject
  <2> HIDE DEF new
  <2>5. \A o \in SandboxObject : SandboxCopy(sandboxes[s], o) => SandboxCopy(new, o)
    BY <2>3, <2>4 DEF SandboxCopy, SandboxObject
  <2>6. CopiesKept
    BY <2>1, <2>5 DEF CopiesKept, SandboxesType
  <2>7. StatusMovesOn
    BY <1>2, <2>1, <2>4 DEF StatusMovesOn, Sound, SandboxesType
  <2> QED
    BY <2>2, <2>6, <2>7
<1>3. CASE SandboxDelivered
  <2>1. /\ Head(sbxWatch) = sbxWatch[1] /\ sbxWatch[1] \in [key: Sandboxes, obj: SandboxObject]
        /\ Tail(sbxWatch) \in Seq([key: Sandboxes, obj: SandboxObject])
    BY <1>3, HeadTailFacts, Zenon DEF SandboxDelivered, SandboxesType
  <2> QED
    BY <1>3, <2>1 DEF SandboxDelivered, SandboxesType, CopiesKept, StatusMovesOn
<1>4. CASE SandboxesListed
  BY <1>4 DEF SandboxesListed, SandboxesType, CopiesKept, StatusMovesOn
<1> QED
  BY <1>1, <1>2, <1>3, <1>4 DEF SandboxEffect

\* A copy that says only what is so, whatever the step did.
LEMMA CopyKept ==
  ASSUME CopiesKept, OwnersKept, NEW s \in Sandboxes, NEW o \in SandboxObject,
         SandboxCopy(sandboxes[s], o), PodIsOf(s, o)
  PROVE  SandboxCopy(sandboxes'[s], o) /\ (o.pod # None => pods'[o.pod].owner = s)
<1>1. SandboxCopy(sandboxes'[s], o)
  BY DEF CopiesKept
<1>2. ASSUME o.pod # None PROVE pods'[o.pod].owner = s
  <2>1. o.pod \in Pods
    BY <1>2 DEF SandboxObject
  <2> QED
    BY <1>2, <2>1, NoneAssumption DEF PodIsOf, OwnersKept
<1> QED
  BY <1>1, <1>2

\* Coherence of the Sandboxes after any effect a step may have on them.
LEMMA SandboxEffectCoherent ==
  ASSUME Inv, SandboxEffect, OwnersKept, ExecdKept
  PROVE  SandboxesCoherent' /\ RunningIsServed'
<1> DEFINE Good(s, o) ==
      SandboxCopy(sandboxes'[s], o) /\ (o.pod # None => pods'[o.pod].owner = s)
<1> SandboxesType /\ SandboxesType' /\ CopiesKept
  BY SandboxEffectKeeps DEF Inv, TypeOK, ClusterTypeOK, SandboxesType
<1>1. AbsentSandbox \in SandboxObject
  BY DEF AbsentSandbox, SandboxObject, Existence, Phases
<1>2. \A s \in Sandboxes : \A o \in {AbsentSandbox, sandboxes[s], sbxCache[s]} : Good(s, o)
  <2> SUFFICES ASSUME NEW s \in Sandboxes, NEW o \in {AbsentSandbox, sandboxes[s], sbxCache[s]}
               PROVE  Good(s, o)
    OBVIOUS
  <2>1. o \in SandboxObject /\ SandboxCopy(sandboxes[s], o) /\ PodIsOf(s, o)
    BY <1>1 DEF SandboxesType, Inv, Coherent, SandboxesCoherent
  <2> QED
    BY <2>1, CopyKept
<1>3. ASSUME NEW i \in 1..Len(sbxWatch)
      PROVE  /\ sbxWatch[i].key \in Sandboxes /\ sbxWatch[i].obj \in SandboxObject
             /\ Good(sbxWatch[i].key, sbxWatch[i].obj)
  <2>1. sbxWatch[i] \in [key: Sandboxes, obj: SandboxObject]
    BY StreamElement, Zenon DEF SandboxesType
  <2>2. SandboxCopy(sandboxes[sbxWatch[i].key], sbxWatch[i].obj) /\ PodIsOf(sbxWatch[i].key, sbxWatch[i].obj)
    BY DEF Inv, Coherent, SandboxesCoherent
  <2> QED
    BY <2>1, <2>2, CopyKept
<1>4. ASSUME NEW s \in Sandboxes, sandboxes[s].phase = "Running"
      PROVE  /\ sandboxes[s].pod # None
             /\ pods'[sandboxes[s].pod].owner = s
             /\ execd'[sandboxes[s].pod].sbx = s
             /\ execd'[sandboxes[s].pod].token = sandboxes[s].token
  <2>1. sandboxes[s].pod \in Pods
    BY <1>4 DEF Inv, RunningIsServed, SandboxesType, SandboxObject
  <2> QED
    BY <1>4, <2>1, NoneAssumption DEF Inv, RunningIsServed, OwnersKept, ExecdKept
<1>5. SUFFICES
        /\ \A s \in Sandboxes : \A o \in {sandboxes'[s], sbxCache'[s]} : Good(s, o)
        /\ \A i \in 1..Len(sbxWatch') : Good(sbxWatch'[i].key, sbxWatch'[i].obj)
        /\ RunningIsServed'
  BY <1>2, Zenon DEF SandboxesCoherent, PodIsOf, AbsentSandbox
<1> HIDE DEF Good
<1>6. CASE UNCHANGED sandboxVars
  BY <1>2, <1>3, <1>4, <1>6 DEF sandboxVars, RunningIsServed
<1>7. ASSUME NEW s \in Sandboxes, NEW obj \in SandboxObject, Sound(s, obj), WriteSandbox(s, obj)
      PROVE  /\ \A r \in Sandboxes : \A o \in {sandboxes'[r], sbxCache'[r]} : Good(r, o)
             /\ \A i \in 1..Len(sbxWatch') : Good(sbxWatch'[i].key, sbxWatch'[i].obj)
             /\ RunningIsServed'
  <2> DEFINE new == [obj EXCEPT !.rv = sandboxes[s].rv + 1]
  <2>1. /\ sandboxes' = [sandboxes EXCEPT ![s] = new] /\ sbxCache' = sbxCache
        /\ sbxWatch' = Append(sbxWatch, [key |-> s, obj |-> new])
    BY <1>7 DEF WriteSandbox
  <2>2. sandboxes[s].rv \in Nat
    BY DEF SandboxObject, SandboxesType
  <2>3. /\ new \in SandboxObject /\ new.token = obj.token
        /\ new.phase = obj.phase /\ new.pod = obj.pod
    BY <2>2 DEF SandboxObject
  <2> HIDE DEF new
  <2>4. sandboxes'[s] = new
    BY <2>1 DEF SandboxesType
  <2>5. new.pod # None => new.pod \in Pods /\ pods'[new.pod].owner = s
    BY <1>7, <2>3, NoneAssumption DEF Sound, PodIsOf, OwnersKept, SandboxObject
  <2>6. Good(s, new)
    BY <1>7, <2>3, <2>4, <2>5 DEF Good, SandboxCopy, Sound, SandboxObject
  <2>7. \A r \in Sandboxes : \A o \in {sandboxes'[r], sbxCache'[r]} : Good(r, o)
    BY <1>2, <2>1, <2>6 DEF SandboxesType
  <2>8. ASSUME NEW i \in 1..Len(sbxWatch') PROVE Good(sbxWatch'[i].key, sbxWatch'[i].obj)
    <3> DEFINE S == [key: Sandboxes, obj: SandboxObject]
               x == [key |-> s, obj |-> new]
    <3>1. x \in S /\ x.key = s /\ x.obj = new
      BY <2>3
    <3>2. sbxWatch \in Seq(S) /\ sbxWatch' = Append(sbxWatch, x)
      BY <2>1 DEF SandboxesType
    <3> HIDE DEF S, x
    <3>3. \/ i \in 1..Len(sbxWatch) /\ sbxWatch'[i] = sbxWatch[i]
          \/ sbxWatch'[i] = x
      BY <2>8, <3>1, <3>2, AppendFacts, SMTT(20)
    <3> QED
      BY <1>3, <2>6, <3>1, <3>3
  <2>9. RunningIsServed'
    <3> SUFFICES ASSUME NEW r \in Sandboxes, sandboxes'[r].phase = "Running"
                 PROVE  /\ sandboxes'[r].pod # None
                        /\ pods'[sandboxes'[r].pod].owner = r
                        /\ execd'[sandboxes'[r].pod].sbx = r
                        /\ execd'[sandboxes'[r].pod].token = sandboxes'[r].token
      BY DEF RunningIsServed
    <3>1. CASE r = s
      <4>1. /\ new.pod # None /\ execd[new.pod].sbx = s /\ execd[new.pod].token = new.token
        BY <1>7, <2>3, <2>4, <3>1 DEF Sound
      <4> QED
        BY <2>4, <2>5, <3>1, <4>1, NoneAssumption DEF ExecdKept
    <3>2. CASE r # s
      BY <1>4, <2>1, <3>2 DEF SandboxesType
    <3> QED
      BY <3>1, <3>2
  <2> QED
    BY <2>7, <2>8, <2>9
<1>8. CASE SandboxDelivered
  <2>1. /\ Head(sbxWatch) = sbxWatch[1] /\ 1 \in 1..Len(sbxWatch)
        /\ \A i \in 1..Len(Tail(sbxWatch)) :
             i + 1 \in 1..Len(sbxWatch) /\ Tail(sbxWatch)[i] = sbxWatch[i + 1]
    BY <1>8, HeadTailFacts DEF SandboxDelivered, SandboxesType
  <2>2. RunningIsServed'
    BY <1>4, <1>8 DEF SandboxDelivered, RunningIsServed
  <2>3. \A s \in Sandboxes : \A o \in {sandboxes'[s], sbxCache'[s]} : Good(s, o)
    BY <1>2, <1>3, <1>8, <2>1 DEF SandboxDelivered, SandboxesType
  <2>4. \A i \in 1..Len(sbxWatch') : Good(sbxWatch'[i].key, sbxWatch'[i].obj)
    BY <1>3, <1>8, <2>1 DEF SandboxDelivered
  <2> QED
    BY <2>2, <2>3, <2>4
<1>9. CASE SandboxesListed
  BY <1>2, <1>4, <1>9, SMTT(20) DEF SandboxesListed, RunningIsServed
<1> QED
  BY <1>6, <1>7, <1>8, <1>9 DEF SandboxEffect

-----------------------------------------------------------------------------
(* Passes in flight.  PassOK is PassCoherent with the state as arguments.  *)

PassOK(s, r, sb, pd, ex) ==
  /\ SandboxCopy(sb[s], r.obj)
  /\ r.obj.pod # None => pd[r.obj.pod].owner = s
  /\ r.at \in {"record", "running", "label"} => r.pod \in Pods
  /\ r.at = "record" => r.obj.phase = "Pending" /\ pd[r.pod].owner = s
  /\ r.at \in {"running", "drop"} => r.obj.phase = "Binding"
  /\ r.at = "running" =>
       /\ r.pod = r.obj.pod
       /\ ex[r.pod].sbx = s /\ ex[r.pod].token = r.token
  /\ r.at = "fail" => r.obj.phase \in {"Pending", "Binding"}
  /\ r.at = "expired" => r.obj.phase = "Running"

\* What a pass relied on before a step it relies on after it.
LEMMA PassKept ==
  ASSUME CopiesKept, OwnersKept, ExecdKept, NEW s \in Sandboxes, NEW r \in Pass,
         PassCoherent(s, r)
  PROVE  PassOK(s, r, sandboxes', pods', execd')
<1>1. r.obj \in SandboxObject
  BY SMTT(20) DEF Pass
<1>2. SandboxCopy(sandboxes'[s], r.obj) /\ (r.obj.pod # None => pods'[r.obj.pod].owner = s)
  BY <1>1, CopyKept, SMTT(20) DEF PassCoherent
<1>3. ASSUME r.at = "record" PROVE pods'[r.pod].owner = s
  BY <1>3, NoneAssumption DEF PassCoherent, OwnersKept
<1>4. ASSUME r.at = "running" PROVE execd'[r.pod].sbx = s /\ execd'[r.pod].token = r.token
  BY <1>4, NoneAssumption DEF PassCoherent, ExecdKept
<1> QED
  BY <1>2, <1>3, <1>4 DEF PassOK, PassCoherent

\* What a pass starts from or carries on with.
LEMMA ViewCoherent ==
  ASSUME Inv, CopiesKept, OwnersKept, NEW s \in Sandboxes
  PROVE  /\ View(s) \in SandboxObject
         /\ SandboxCopy(sandboxes'[s], View(s))
         /\ View(s).pod # None => pods'[View(s).pod].owner = s
         /\ SandboxCopy(sandboxes[s], View(s)) /\ PodIsOf(s, View(s))
<1>1. View(s) \in SandboxObject
  BY ViewType, SMTT(20) DEF Inv
<1>2. SandboxCopy(sandboxes[s], View(s)) /\ PodIsOf(s, View(s))
  BY DEF Inv, Coherent, SandboxesCoherent, PassCoherent, View
<1> QED
  BY <1>1, <1>2, CopyKept

\* A pass that ends leaves nothing to rely on.
LEMMA IdleOK ==
  ASSUME Inv, CopiesKept, OwnersKept, NEW s \in Sandboxes
  PROVE  Idle \in Pass /\ PassOK(s, Idle, sandboxes', pods', execd')
<1>1. AbsentSandbox \in SandboxObject /\ AbsentSandbox.pod = None
  BY DEF AbsentSandbox, SandboxObject, Existence, Phases
<1>2. SandboxCopy(sandboxes[s], AbsentSandbox) /\ PodIsOf(s, AbsentSandbox)
  BY DEF Inv, Coherent, SandboxesCoherent
<1>3. SandboxCopy(sandboxes'[s], AbsentSandbox)
  BY <1>1, <1>2, CopyKept
<1>4. Idle \in Pass
  BY <1>1 DEF Idle, Pass, Steps
<1>5. /\ Idle.at = "idle" /\ Idle.obj = AbsentSandbox /\ Idle.pod = None
      /\ Idle.token = None /\ Idle.label = None
  BY DEF Idle
<1> QED
  BY <1>1, <1>3, <1>4, <1>5 DEF PassOK

\* A pass that goes on to step at with the copy obj.
LEMMA GoesOnOK ==
  ASSUME NEW s \in Sandboxes, NEW obj \in SandboxObject,
         NEW at \in {"dispatch", "drop", "fail", "expired", "release"},
         SandboxCopy(sandboxes'[s], obj), obj.pod # None => pods'[obj.pod].owner = s,
         at = "drop" => obj.phase = "Binding",
         at = "fail" => obj.phase \in {"Pending", "Binding"},
         at = "expired" => obj.phase = "Running"
  PROVE  LET r == [Idle EXCEPT !.at = at, !.obj = obj]
         IN  r \in Pass /\ PassOK(s, r, sandboxes', pods', execd')
<1> DEFINE r == [Idle EXCEPT !.at = at, !.obj = obj]
<1>1. r.at = at /\ r.obj = obj
  BY DEF Idle
<1>2. r \in Pass
  BY Zenon DEF Idle, Pass, Steps
<1> HIDE DEF r
<1>3. PassOK(s, r, sandboxes', pods', execd')
  BY <1>1 DEF PassOK
<1> QED
  BY <1>2, <1>3 DEF r

\* A pass that has a Pod of s and goes on to record it.
LEMMA RecordOK ==
  ASSUME NEW s \in Sandboxes, NEW obj \in SandboxObject, NEW p \in Pods,
         SandboxCopy(sandboxes'[s], obj), obj.pod # None => pods'[obj.pod].owner = s,
         obj.phase = "Pending", pods'[p].owner = s
  PROVE  LET r == [Idle EXCEPT !.at = "record", !.obj = obj, !.pod = p]
         IN  r \in Pass /\ PassOK(s, r, sandboxes', pods', execd')
<1> DEFINE r == [Idle EXCEPT !.at = "record", !.obj = obj, !.pod = p]
<1>1. r.at = "record" /\ r.obj = obj /\ r.pod = p
  BY DEF Idle
<1>2. r \in Pass
  BY Zenon DEF Idle, Pass, Steps
<1> HIDE DEF r
<1>3. PassOK(s, r, sandboxes', pods', execd')
  BY <1>1 DEF PassOK
<1> QED
  BY <1>2, <1>3 DEF r

\* What a step of a pass makes of the pass.
PassEffect(s) ==
  \E r : /\ rec' = [rec EXCEPT ![s] = r] /\ r \in Pass
        /\ PassOK(s, r, sandboxes', pods', execd')

\* Where a pass goes next is coherent with what it did: one case per action
\* of the reconciler.
LEMMA ReconcilePassEffect ==
  ASSUME Inv, NEW s \in Sandboxes, Reconcile(s),
         CopiesKept, OwnersKept, ExecdKept, SandboxesType', SandboxesCoherent'
  PROVE  PassEffect(s)
<1> USE DEF clusterVars
<1>a. (Return(s) \/ Requeue(s)) => PassEffect(s)
  BY IdleOK DEF Return, Requeue, PassEffect
<1>b. ASSUME NEW at \in {"dispatch", "drop", "fail", "expired", "release"},
             NEW obj \in SandboxObject,
             Goto(s, [Idle EXCEPT !.at = at, !.obj = obj]),
             SandboxCopy(sandboxes'[s], obj), obj.pod # None => pods'[obj.pod].owner = s,
             at = "drop" => obj.phase = "Binding",
             at = "fail" => obj.phase \in {"Pending", "Binding"},
             at = "expired" => obj.phase = "Running"
      PROVE  PassEffect(s)
  BY <1>b, GoesOnOK, Zenon DEF Goto, PassEffect
<1>c. /\ View(s) \in SandboxObject /\ SandboxCopy(sandboxes'[s], View(s))
      /\ View(s).pod # None => pods'[View(s).pod].owner = s
  BY ViewCoherent
<1>d. ASSUME NEW p \in Pods, pods'[p].owner = s, Dispatch(s, "Pending"),
             Goto(s, [Idle EXCEPT !.at = "record", !.obj = View(s), !.pod = p])
      PROVE  PassEffect(s)
  BY <1>c, <1>d, RecordOK, Zenon DEF Goto, PassEffect, Dispatch
<1>1. CASE ReconcileNothing(s) \/ ClaimErrs(s) \/ BindWaits(s) \/ WatchExpiry(s) \/ LabelTier(s)
  BY <1>1, <1>a DEF ReconcileNothing, ClaimErrs, BindWaits, WatchExpiry, LabelTier
<1>2. CASE RecordBinding(s) \/ RecordFailed(s) \/ RecordExpired(s) \/ RemoveFinalizer(s)
  BY <1>2, <1>a DEF RecordBinding, RecordFailed, RecordExpired, RemoveFinalizer, Refused
<1>3. CASE AddFinalizer(s)
  <2>1. CASE Goto(s, [Idle EXCEPT !.at = "dispatch", !.obj = sandboxes'[s]])
    <3>1. PICK obj : obj = sandboxes'[s]
      OBVIOUS
    <3>2. obj \in SandboxObject
      BY <3>1 DEF SandboxesType
    <3>3. SandboxCopy(sandboxes'[s], obj) /\ (obj.pod # None => pods'[obj.pod].owner = s)
      BY <3>1 DEF SandboxesCoherent, PodIsOf
    <3> QED
      BY <1>b, <2>1, <3>1, <3>2, <3>3, Zenon
  <2> QED
    BY <1>3, <1>a, <2>1 DEF AddFinalizer
<1>4. CASE AcquireFails(s) \/ BindFails(s)
  BY <1>4, <1>b, <1>c, ZenonT(30) DEF AcquireFails, BindFails, Failing, Dispatch
<1>5. CASE Adopt(s)
  <2>1. PICK p \in ClaimedPods(s) : Goto(s, [Idle EXCEPT !.at = "record", !.obj = View(s), !.pod = p])
    BY <1>5, Zenon DEF Adopt
  <2>2. p \in Pods /\ podCache[p].owner = s
    BY <2>1 DEF ClaimedPods
  <2>3. pods'[p].owner = s
    BY <2>2, NoneAssumption DEF Inv, Coherent, PodsCoherent, PodCopy, OwnersKept
  <2> QED
    BY <1>5, <1>d, <2>1, <2>2, <2>3, ZenonT(30) DEF Adopt
<1>6. CASE ClaimWarmPod(s)
  <2>1. PICK p \in Claimable :
          /\ WritePod(p, [podCache[p] EXCEPT !.owner = s])
          /\ Goto(s, [Idle EXCEPT !.at = "record", !.obj = View(s), !.pod = p])
    BY <1>6, Zenon DEF ClaimWarmPod
  <2>2. p \in Pods /\ podCache[p] \in PodObject /\ pods \in [Pods -> PodObject]
    BY <2>1 DEF Claimable, Candidates, Inv, TypeOK, ClusterTypeOK
  <2>3. pods'[p].owner = s
    BY <2>1, <2>2 DEF WritePod, PodObject
  <2> QED
    BY <1>6, <1>d, <2>1, <2>2, <2>3, ZenonT(30) DEF ClaimWarmPod
<1>7. CASE CreatePod(s)
  <2>1. CASE Goto(s, Failing(View(s)))
    BY <1>7, <1>b, <1>c, <2>1, ZenonT(30) DEF CreatePod, Failing, Dispatch
  <2>2. ASSUME NEW p \in Pods, WritePod(p, ColdPod(s)),
               Goto(s, [Idle EXCEPT !.at = "record", !.obj = View(s), !.pod = p])
        PROVE  PassEffect(s)
    <3>1. pods'[p].owner = s
      BY <2>2 DEF WritePod, ColdPod, AbsentPod, Inv, TypeOK, ClusterTypeOK
    <3> QED
      BY <1>7, <1>d, <2>2, <3>1, Zenon DEF CreatePod
  <2> QED
    BY <1>7, <2>1, <2>2, ZenonT(30) DEF CreatePod
<1>8. CASE BindBelowFloor(s) \/ BindErrs(s)
  BY <1>8, <1>b, <1>c, Zenon DEF BindBelowFloor, BindErrs, BindProceeds, Dispatch
<1>9. CASE BindSucceeds(s)
  <2> DEFINE r == [at |-> "running", obj |-> View(s), pod |-> View(s).pod,
                   token |-> minted + 1, label |-> UnlabelledVersion(s)]
  <2>1. /\ r.at = "running" /\ r.obj = View(s) /\ r.pod = View(s).pod
        /\ r.token = minted + 1 /\ r.label = UnlabelledVersion(s)
        /\ rec' = [rec EXCEPT ![s] = r]
    BY <1>9 DEF BindSucceeds, Goto
  <2>2. View(s).pod \in Pods /\ View(s).phase = "Binding"
    BY <1>9, ServeEffect, Zenon DEF BindSucceeds, BindProceeds, Dispatch
  <2>3. execd'[View(s).pod].sbx = s /\ execd'[View(s).pod].token = minted + 1
    BY <1>9, <2>2 DEF BindSucceeds, Serve, Inv, TypeOK
  <2>4. UnlabelledVersion(s) \in Nat \cup {None}
    BY <2>2 DEF UnlabelledVersion, BindPod, Inv, TypeOK, ClusterTypeOK, PodObject
  <2>5. r \in Pass
    BY <1>c, <2>2, <2>4, SMTT(20) DEF Pass, Steps, Inv, TypeOK
  <2> HIDE DEF r
  <2>6. PassOK(s, r, sandboxes', pods', execd')
    BY <1>c, <2>1, <2>2, <2>3 DEF PassOK
  <2> QED
    BY <2>1, <2>5, <2>6, Zenon DEF PassEffect
<1>10. CASE DropPod(s)
  <2>1. rec[s].obj \in SandboxObject /\ rec[s] \in Pass
    BY DEF Inv, TypeOK, Pass
  <2>2. PassOK(s, rec[s], sandboxes', pods', execd')
    BY <2>1, PassKept DEF Inv, Coherent
  <2> QED
    BY <1>10, <1>b, <2>1, <2>2, Zenon DEF DropPod, Failing, PassOK
<1>11. CASE RecordRunning(s)
  <2>1. CASE Goto(s, [Idle EXCEPT !.at = "label", !.pod = rec[s].pod, !.label = rec[s].label])
    <3> DEFINE r == [Idle EXCEPT !.at = "label", !.pod = rec[s].pod, !.label = rec[s].label]
    <3>1. r.at = "label" /\ r.obj = Idle.obj /\ r.pod = rec[s].pod
      BY DEF Idle
    <3>2. rec[s].pod \in Pods /\ rec[s] \in Pass
      BY <1>11 DEF RecordRunning, Inv, Coherent, PassCoherent, TypeOK
    <3>3. r \in Pass
      BY <3>2, IdleOK, Zenon DEF Pass, Steps
    <3>4. rec' = [rec EXCEPT ![s] = r]
      BY <2>1 DEF Goto
    <3> HIDE DEF r
    <3>5. PassOK(s, r, sandboxes', pods', execd')
      BY <3>1, <3>2, IdleOK DEF PassOK
    <3> QED
      BY <3>3, <3>4, <3>5, Zenon DEF PassEffect
  <2>2. CASE Goto(s, Idle)
    BY <2>2, IdleOK, ZenonT(30) DEF Goto, PassEffect
  <2> QED
    BY <1>11, <1>a, <2>1, <2>2 DEF RecordRunning, Refused
<1>12. CASE Expire(s)
  BY <1>12, <1>a, <1>b, <1>c, Zenon DEF Expire, ReleaseErrs, Dispatch
<1>13. CASE Finalize(s)
  <2>1. sbxCache[s] = View(s)
    BY <1>13 DEF Finalize, Starts, View
  <2> QED
    BY <1>13, <1>a, <1>b, <1>c, <2>1, Zenon DEF Finalize, ReleaseErrs
<1> QED
  BY <1>1, <1>2, <1>3, <1>4, <1>5, <1>6, <1>7, <1>8, <1>9, <1>10, <1>11, <1>12, <1>13
     DEF Reconcile

\* After any step every pass has what it relies on.
LEMMA NextPasses ==
  ASSUME Inv, Next, CopiesKept, OwnersKept, ExecdKept, SandboxesType', SandboxesCoherent'
  PROVE  /\ rec' \in [Sandboxes -> Pass]
         /\ \A s \in Sandboxes : PassOK(s, rec'[s], sandboxes', pods', execd')
<1> USE DEF controllerVars
<1>1. rec \in [Sandboxes -> Pass]
  BY DEF Inv, TypeOK
<1>2. \A s \in Sandboxes : PassOK(s, rec[s], sandboxes', pods', execd')
  BY <1>1, PassKept DEF Inv, Coherent
<1>3. ASSUME NEW s \in Sandboxes, Reconcile(s)
      PROVE  /\ rec' \in [Sandboxes -> Pass]
             /\ \A t \in Sandboxes : PassOK(t, rec'[t], sandboxes', pods', execd')
  <2>1. PICK r : /\ rec' = [rec EXCEPT ![s] = r] /\ r \in Pass
                 /\ PassOK(s, r, sandboxes', pods', execd')
    BY <1>3, ReconcilePassEffect DEF PassEffect
  <2> QED
    BY <1>1, <1>2, <2>1
<1>4. CASE Restart
  BY <1>4, IdleOK DEF Restart
<1>5. CASE UNCHANGED rec
  BY <1>1, <1>2, <1>5
<1>6. \/ \E s \in Sandboxes : Reconcile(s)
      \/ Restart
      \/ UNCHANGED rec
  BY Zenon DEF Next, Work, UserCreate, UserDelete, DeadlinePasses, TimerFires, Kubelet, KubeletStarts,
         KubeletStops, KubeletRemoves, CollectGarbage, ExecdExpires, EditTemplate,
         DeliverSandbox, DeliverPod
<1> QED
  BY <1>3, <1>4, <1>5, <1>6

-----------------------------------------------------------------------------
(* The variables no other invariant speaks of.                             *)

QueueType ==
  /\ due \subseteq Sandboxes /\ queued \subseteq Sandboxes /\ timer \subseteq Sandboxes
  /\ minted \in Nat /\ faults \in Nat
  /\ template \in [st: TemplateStates, hash: Nat]

\* A pass only queues or times its own Sandbox.
LEMMA ReconcileQueueType ==
  ASSUME QueueType, NEW s \in Sandboxes, Reconcile(s)
  PROVE  QueueType'
<1> USE DEF QueueType, Goto, Return, Requeue, Dequeue, Fault
<1>1. CASE ReconcileNothing(s) \/ AddFinalizer(s) \/ WatchExpiry(s)
  BY <1>1 DEF ReconcileNothing, AddFinalizer, WatchExpiry
<1>2. CASE AcquireFails(s) \/ Adopt(s) \/ ClaimWarmPod(s) \/ ClaimErrs(s) \/ CreatePod(s)
  <2>1. CASE AcquireFails(s) \/ ClaimErrs(s)
    BY <2>1 DEF AcquireFails, ClaimErrs
  <2>2. CASE Adopt(s) \/ ClaimWarmPod(s)
    BY <2>2, Zenon DEF Adopt, ClaimWarmPod
  <2>3. CASE CreatePod(s)
    <3>1. Dequeue(s) /\ (UNCHANGED faults \/ Fault) /\ UNCHANGED <<template, due, timer, minted>>
      BY <2>3, Zenon DEF CreatePod
    <3> QED
      BY <3>1
  <2> QED
    BY <1>2, <2>1, <2>2, <2>3
<1>3. CASE BindFails(s) \/ BindWaits(s) \/ BindBelowFloor(s) \/ DropPod(s) \/ LabelTier(s)
  BY <1>3 DEF BindFails, BindWaits, BindBelowFloor, DropPod, LabelTier
<1>4. CASE BindSucceeds(s)
  BY <1>4 DEF BindSucceeds
<1>5. CASE BindErrs(s)
  BY <1>5 DEF BindErrs
<1>6. CASE RecordBinding(s) \/ RecordRunning(s)
  BY <1>6 DEF RecordBinding, RecordRunning, Accepted, Refused
<1>7. CASE RecordFailed(s) \/ RecordExpired(s) \/ RemoveFinalizer(s)
  BY <1>7 DEF RecordFailed, RecordExpired, RemoveFinalizer, Accepted, Refused
<1>8. CASE Expire(s) \/ Finalize(s)
  BY <1>8 DEF Expire, Finalize, ReleaseErrs
<1> QED
  BY <1>1, <1>2, <1>3, <1>4, <1>5, <1>6, <1>7, <1>8 DEF Reconcile

\* The queue, the timers and the counters keep their types.
LEMMA NextQueueType ==
  ASSUME TypeOK, Next
  PROVE  QueueType'
<1> QueueType
  BY DEF TypeOK, ClusterTypeOK, QueueType
<1> USE DEF QueueType, controllerVars
<1>1. ASSUME NEW s \in Sandboxes, Reconcile(s) PROVE QueueType'
  BY <1>1, ReconcileQueueType
<1>2. ASSUME NEW s \in Sandboxes,
             UserCreate(s) \/ UserDelete(s) \/ DeadlinePasses(s) \/ TimerFires(s)
      PROVE  QueueType'
  BY <1>2, Zenon DEF UserCreate, UserDelete, DeadlinePasses, TimerFires
<1>3. ASSUME NEW p \in Pods, Kubelet(p) \/ CollectGarbage(p) \/ ExecdExpires(p)
      PROVE  QueueType'
  BY <1>3 DEF Kubelet, KubeletStarts, KubeletStops, KubeletRemoves, CollectGarbage, ExecdExpires
<1>4. CASE EditTemplate
  BY <1>4 DEF EditTemplate, ChangeTemplate
<1>5. CASE DeliverSandbox
  <2>1. Head(sbxWatch) = sbxWatch[1] /\ sbxWatch[1] \in [key: Sandboxes, obj: SandboxObject]
    BY <1>5, HeadTailFacts, Zenon DEF DeliverSandbox, TypeOK, ClusterTypeOK
  <2> QED
    BY <1>5, <2>1 DEF DeliverSandbox
<1>6. CASE DeliverPod
  <2>1. Head(podWatch) = podWatch[1] /\ podWatch[1] \in [key: Pods, obj: PodObject]
    BY <1>6, HeadTailFacts, Zenon DEF DeliverPod, TypeOK, ClusterTypeOK
  <2>2. Head(podWatch).obj.owner \in Sandboxes \cup {None}
    BY <2>1 DEF PodObject
  <2> QED
    BY <1>6, <2>2 DEF DeliverPod
<1>7. CASE Restart
  BY <1>7 DEF Restart, Fault
<1> QED
  BY <1>1, <1>2, <1>3, <1>4, <1>5, <1>6, <1>7 DEF Next, Work

-----------------------------------------------------------------------------
(* The inductive invariant.                                                *)

\* The initial state satisfies the inductive invariant.
LEMMA InitInv == Init => Inv
<1> SUFFICES ASSUME Init PROVE Inv
  OBVIOUS
<1>1. AbsentSandbox \in SandboxObject /\ AbsentPod \in PodObject /\ WarmPod \in PodObject
  BY Zenon DEF AbsentSandbox, SandboxObject, AbsentPod, WarmPod, PodObject, Existence, Phases, Tiers
<1>2. /\ AbsentSandbox.pod = None /\ AbsentSandbox.phase = "Pending"
      /\ AbsentPod.owner = None /\ WarmPod.owner = None
  BY DEF AbsentSandbox, AbsentPod, WarmPod
<1>3. /\ Idle \in Pass /\ Idle.at = "idle" /\ Idle.obj = AbsentSandbox
  BY <1>1 DEF Idle, Pass, Steps
<1>4. TypeOK
  BY <1>1, <1>3, TemplateAssumption DEF Init, TypeOK, ClusterTypeOK, Unbound
<1>5. PodsCoherent
  BY <1>1, <1>2 DEF Init, PodsCoherent, PodCopy, PodObject
<1>6. SandboxesCoherent
  BY <1>1, <1>2, SMTT(20) DEF Init, SandboxesCoherent, SandboxCopy, SandboxObject, PodIsOf
<1>7. \A s \in Sandboxes : PassCoherent(s, rec[s])
  BY <1>2, <1>3, <1>6, Zenon DEF Init, SandboxesCoherent, PassCoherent
<1>8. ExecdCoherent
  BY DEF Init, Unbound, ExecdCoherent
<1>9. RunningIsServed
  BY <1>2 DEF Init, RunningIsServed
<1> QED
  BY <1>4, <1>5, <1>6, <1>7, <1>8, <1>9 DEF Inv, Coherent

\* Every step preserves it: the effects on Pods, Sandboxes, execd and passes
\* put together.
LEMMA NextInv ==
  ASSUME Inv, Next
  PROVE  Inv' /\ StatusMovesOn
<1>1. PodsType' /\ PodsCoherent' /\ OwnersKept
  BY NextPodEffect, PodEffectCoherent DEF Inv, Coherent
<1>2. ExecdType' /\ ExecdCoherent' /\ ExecdKept
  BY <1>1, NextExecdEffect, ExecdEffectCoherent DEF Inv, Coherent
<1>3. SandboxesType' /\ CopiesKept /\ StatusMovesOn
  BY NextSandboxEffect, SandboxEffectKeeps
<1>4. SandboxesCoherent' /\ RunningIsServed'
  BY <1>1, <1>2, NextSandboxEffect, SandboxEffectCoherent
<1>5. /\ rec' \in [Sandboxes -> Pass]
      /\ \A s \in Sandboxes : PassOK(s, rec'[s], sandboxes', pods', execd')
  BY <1>1, <1>2, <1>3, <1>4, NextPasses, SMTT(20)
<1>6. \A s \in Sandboxes : PassCoherent(s, rec[s])'
  BY <1>5 DEF PassOK, PassCoherent, PodIsOf
<1>7. QueueType'
  BY NextQueueType DEF Inv
<1>8. TypeOK'
  BY <1>1, <1>2, <1>3, <1>5, <1>7
     DEF TypeOK, ClusterTypeOK, PodsType, ExecdType, SandboxesType, QueueType
<1>9. Coherent'
  BY <1>1, <1>2, <1>4, <1>6 DEF Coherent
<1> QED
  BY <1>3, <1>4, <1>8, <1>9 DEF Inv

\* So does a stuttering step.
LEMMA StutterInv ==
  ASSUME Inv, UNCHANGED vars
  PROVE  Inv' /\ StatusMovesOn
<1> USE DEF vars, clusterVars, sandboxVars, podVars, controllerVars
<1>1. TypeOK' /\ RunningIsServed' /\ StatusMovesOn
  BY DEF Inv, TypeOK, ClusterTypeOK, RunningIsServed, StatusMovesOn
<1>2. PodsCoherent' /\ ExecdCoherent'
  BY DEF Inv, Coherent, PodsCoherent, ExecdCoherent
<1>3. SandboxesCoherent'
  BY SMTT(20) DEF Inv, Coherent, SandboxesCoherent, PodIsOf
<1>4. \A s \in Sandboxes : PassCoherent(s, rec[s])'
  BY DEF Inv, Coherent, PassCoherent, PodIsOf
<1> QED
  BY <1>1, <1>2, <1>3, <1>4, SMTT(20) DEF Inv, Coherent

\* The inductive invariant holds in every reachable state.
THEOREM Invariance == Spec => []Inv
<1>1. Inv /\ [Next]_vars => Inv'
  BY NextInv, StutterInv
<1> QED
  BY InitInv, <1>1, PTL DEF Spec

-----------------------------------------------------------------------------
(* The theorems, for any Sandboxes, Pods, lag and number of faults.        *)

\* Every variable keeps its type.
THEOREM TypeCorrect == Spec => []TypeOK
<1>1. Inv => TypeOK
  BY DEF Inv
<1> QED
  BY <1>1, Invariance, PTL

\* Every cache, watch stream and pass in flight holds copies it may act on,
\* and every execd serves the Sandbox its Pod was handed to.
THEOREM CoherentAlways == Spec => []Coherent
<1>1. Inv => Coherent
  BY DEF Inv
<1> QED
  BY <1>1, Invariance, PTL

\* A Running Sandbox is served by its own Pod under its published token
\* (bind's call to execd and the status write that follows it).
THEOREM RunningServed == Spec => []RunningIsServed
<1>1. Inv => RunningIsServed
  BY DEF Inv
<1> QED
  BY <1>1, Invariance, PTL

\* status.podName is written once (acquirePod).
THEOREM PodNameWrittenOnce == Spec => StatusPodIsFixed
<1>1. Inv /\ [Next]_vars =>
        [\A s \in Sandboxes :
           sandboxes[s].pod # None => sandboxes'[s].pod = sandboxes[s].pod]_vars
  BY NextInv DEF StatusMovesOn
<1> QED
  BY <1>1, Invariance, PTL DEF Spec, StatusPodIsFixed

\* No status write, however stale the copy it starts from, moves a Sandbox
\* back to an earlier phase or out of a terminal one.
THEOREM PhaseNeverGoesBack == Spec => PhaseMovesForward
<1>1. Inv /\ [Next]_vars =>
        [\A s \in Sandboxes :
           sandboxes'[s].phase # sandboxes[s].phase =>
             /\ sandboxes[s].phase \notin Terminal
             /\ PhaseRank(sandboxes[s].phase) < PhaseRank(sandboxes'[s].phase)]_vars
  BY NextInv DEF StatusMovesOn
<1> QED
  BY <1>1, Invariance, PTL DEF Spec, PhaseMovesForward

\* A step seen through the refinement mapping: a Pod is assigned, served or
\* retired, or nothing happens.
LEMMA OneShotStep ==
  ASSUME Inv, Inv', PodEffect, ExecdEffect
  PROVE  [OneShot!Next]_(OneShot!vars)
<1> DEFINE owner == [p \in Pods |-> pods[p].owner]
           serves == [p \in Pods |-> execd[p].sbx]
           retired == {p \in Pods : Retired(pods[p])}
<1> USE DEF OneShot!Next, OneShot!vars, OneShot!Assign, OneShot!Serve, OneShot!Retire, Retired
<1>1. PodsType /\ PodsType' /\ ExecdType /\ ExecdType'
  BY DEF Inv, TypeOK, ClusterTypeOK, PodsType, ExecdType
<1>2. CASE ExecdBound
  <2>1. PICK p \in Pods, s \in Sandboxes, token \in Nat :
          /\ execd[p].st = "unbound" /\ pods[p].owner = s
          /\ execd' = [execd EXCEPT ![p] = [st |-> "bound", sbx |-> s, token |-> token]]
          /\ UNCHANGED podVars
    BY <1>2, Zenon DEF ExecdBound
  <2>2. UNCHANGED <<owner, retired>>
    BY <2>1 DEF podVars
  <2>3. serves' = [serves EXCEPT ![p] = owner[p]]
    BY <1>1, <2>1, ZenonT(30) DEF ExecdType
  <2>4. owner[p] # None /\ serves[p] = None
    BY <2>1, NoneAssumption DEF Inv, Coherent, ExecdCoherent
  <2> QED
    BY <2>2, <2>3, <2>4, ZenonT(30)
<1>3. CASE ~ExecdBound
  <2>1. UNCHANGED serves
    BY <1>1, <1>3 DEF ExecdEffect, ExecdType
  <2>2. CASE UNCHANGED pods
    BY <2>1, <2>2, ZenonT(30)
  <2>3. ASSUME NEW p \in Pods, NEW obj \in PodObject, KeepsOwner(p, obj), WritePod(p, obj)
        PROVE  [OneShot!Next]_(OneShot!vars)
    <3>1. PICK new : /\ new = [obj EXCEPT !.rv = pods[p].rv + 1]
                     /\ pods' = [pods EXCEPT ![p] = new]
      BY <2>3, Zenon DEF WritePod
    <3>2. new.owner = obj.owner /\ new.st = obj.st
      BY <3>1 DEF PodObject
    <3>3. CASE obj.owner # pods[p].owner
      <4>1. pods[p].owner = None /\ obj.owner \in Sandboxes
        BY <1>1, <2>3, <3>3 DEF KeepsOwner, PodObject, PodsType
      <4>2. owner' = [owner EXCEPT ![p] = obj.owner]
        BY <1>1, <3>1, <3>2, Zenon DEF PodsType
      <4>3. p \notin retired /\ UNCHANGED retired
        BY <1>1, <2>3, <3>1, <3>2, <3>3 DEF KeepsOwner, PodsType
      <4> QED
        BY <2>1, <4>1, <4>2, <4>3, Zenon
    <3>4. CASE obj.owner = pods[p].owner
      <4>1. UNCHANGED owner
        BY <1>1, <3>1, <3>2, <3>4 DEF PodsType
      <4>2. retired' = retired \cup {p} \/ UNCHANGED retired
        BY <1>1, <2>3, <3>1, <3>2 DEF KeepsOwner, PodsType
      <4> QED
        BY <2>1, <4>1, <4>2, Zenon
    <3> QED
      BY <3>3, <3>4, Zenon
  <2> QED
    BY <2>2, <2>3, Zenon DEF PodEffect, podVars, PodDelivered, PodsListed
<1> QED
  BY <1>2, <1>3, Zenon

\* The controller implements the promise of OneShotPod.
THEOREM Refinement == Spec => ImplementsOneShotPod
<1>1. Init => OneShot!Init
  BY DEF Init, OneShot!Init, Unbound, WarmPod, AbsentPod
<1>2. Inv /\ Inv' /\ [Next]_vars => [OneShot!Next]_(OneShot!vars)
  <2>1. ASSUME Inv, Inv', Next PROVE [OneShot!Next]_(OneShot!vars)
    BY <2>1, NextPodEffect, NextExecdEffect, OneShotStep DEF Inv
  <2>2. ASSUME UNCHANGED vars PROVE [OneShot!Next]_(OneShot!vars)
    BY <2>2 DEF vars, clusterVars, podVars, OneShot!vars
  <2> QED
    BY <2>1, <2>2
<1> QED
  BY <1>1, <1>2, Invariance, PTL DEF Spec, ImplementsOneShotPod, OneShot!Spec
=============================================================================
