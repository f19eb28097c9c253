-------------------------- MODULE SandboxController --------------------------
(***************************************************************************)
(* SandboxReconciler of pkg/controller/sandbox_controller.go.              *)
(*                                                                         *)
(* One worker reconciles one Sandbox at a time, and never the same one     *)
(* twice at once (the workqueue's guarantee), so the state of a Reconcile  *)
(* in flight is a record per Sandbox.  A Reconcile is cut at every call    *)
(* that writes (to the API server or to execd): between two of them        *)
(* anything may happen.  Its cached reads, and the probe of a node, are    *)
(* taken together with the call that follows them; since a cache may lag,  *)
(* a read that was made earlier is a cache that had not caught up.  Unbind *)
(* is taken with the Delete that follows, which may fail after it.         *)
(***************************************************************************)
EXTENDS Cluster

CONSTANTS
  Warm,         \* Pods that wait in the warm pool at the start
  Mortal,       \* Pods whose containers may stop by themselves
  MaxBinds      \* bound: tokens minted

ASSUME WarmAssumption == Warm \subseteq Pods
ASSUME MortalAssumption == Mortal \subseteq Pods
ASSUME MaxBindsAssumption == MaxBinds \in Nat

VARIABLES
  execd,       \* per Pod: the one-shot bind state of its execd
  due,         \* Sandboxes whose ExpiresAt is in the past
  queued,      \* the workqueue
  timer,       \* Sandboxes with a RequeueAfter pending until the deadline
  rec,         \* per Sandbox: the Reconcile in flight
  minted       \* number of tokens minted so far

controllerVars == <<queued, timer, rec, minted>>
vars == <<clusterVars, template, execd, due, controllerVars, faults>>

Steps == {"idle", "dispatch", "record", "running", "label", "drop",
          "fail", "expired", "release"}

\* A Reconcile in flight: the next call, the Sandbox it read, the Pod and the
\* token it holds, and the version of the Pod it read without a tier label.
Pass ==
  [at: Steps, obj: SandboxObject, pod: Pods \cup {None},
   token: Nat \cup {None}, label: Nat \cup {None}]

Idle ==
  [at |-> "idle", obj |-> AbsentSandbox, pod |-> None, token |-> None,
   label |-> None]

\* fail is called with the local copy obj; its status write is the next call.
Failing(obj) == [Idle EXCEPT !.at = "fail", !.obj = obj]

Unbound == [st |-> "unbound", sbx |-> None, token |-> None]

TypeOK ==
  /\ ClusterTypeOK
  /\ execd \in [Pods -> [st: {"unbound", "bound", "expired"},
                         sbx: Sandboxes \cup {None}, token: Nat \cup {None}]]
  /\ due \subseteq Sandboxes
  /\ queued \subseteq Sandboxes
  /\ timer \subseteq Sandboxes
  /\ rec \in [Sandboxes -> Pass]
  /\ minted \in Nat

WarmPod ==
  [AbsentPod EXCEPT !.st = "live", !.pool = TRUE, !.ready = "ready",
                    !.tier = "meets", !.rv = 1]

Init ==
  /\ sandboxes = [s \in Sandboxes |-> AbsentSandbox]
  /\ pods = [p \in Pods |-> IF p \in Warm THEN WarmPod ELSE AbsentPod]
  /\ sbxCache = sandboxes
  /\ podCache = pods
  /\ sbxWatch = <<>>
  /\ podWatch = <<>>
  /\ execd = [p \in Pods |-> Unbound]
  /\ template = [st |-> "approved", hash |-> 0]
  /\ due = {}
  /\ queued = {}
  /\ timer = {}
  /\ rec = [s \in Sandboxes |-> Idle]
  /\ minted = 0
  /\ faults = 0

-----------------------------------------------------------------------------
(* How a Reconcile starts, continues and ends.                             *)

\* A worker takes s from the workqueue.
Starts(s) == rec[s].at = "idle" /\ s \in queued

\* The object this pass works on: the one AddFinalizer wrote back, or the
\* cached one when the pass starts.
View(s) == IF rec[s].at = "dispatch" THEN rec[s].obj ELSE sbxCache[s]

\* The switch of Reconcile: s is not deleting, carries the finalizer, and is
\* in phase ph.
Dispatch(s, ph) ==
  /\ rec[s].at = "dispatch" \/ Starts(s)
  /\ View(s).st = "live" /\ View(s).fin /\ View(s).phase = ph

\* Taking s dequeues it; an event while s is being reconciled queues it again.
Dequeue(s) == queued' = IF rec[s].at = "idle" THEN queued \ {s} ELSE queued

Goto(s, r) ==
  /\ rec' = [rec EXCEPT ![s] = r]
  /\ Dequeue(s)

Return(s) ==
  /\ rec' = [rec EXCEPT ![s] = Idle]
  /\ Dequeue(s)

\* A conflict, an error the workqueue retries, or a short RequeueAfter.
Requeue(s) ==
  /\ rec' = [rec EXCEPT ![s] = Idle]
  /\ queued' = queued \cup {s}

\* Mutant: the error of a status write is swallowed instead of returned.
RefusedSilently(s) ==
  /\ \/ ~SandboxCurrent(s, rec[s].obj) /\ UNCHANGED faults
     \/ Fault
  /\ Return(s)
  /\ UNCHANGED <<sandboxVars, timer>>

(***************************************************************************)
(* Status().Update, and Update, of the local copy obj with the changes     *)
(* made to it.  Refused when obj is stale; a failed call is retried.       *)
(***************************************************************************)
Refused(s) ==
  /\ \/ ~SandboxCurrent(s, rec[s].obj) /\ UNCHANGED faults
     \/ Fault
  /\ Requeue(s)
  /\ UNCHANGED <<sandboxVars, timer>>

\* Mutant: status is written without a resourceVersion, last writer wins.
AcceptedBlindly(s, obj) ==
  /\ Exists(sandboxes[s])
  /\ WriteSandbox(s, obj)
  /\ UNCHANGED faults

Accepted(s, obj) ==
  /\ SandboxCurrent(s, rec[s].obj)
  /\ WriteSandbox(s, obj)
  /\ UNCHANGED faults

-----------------------------------------------------------------------------
(* Reconcile.                                                              *)

\* NotFound, or a terminal phase: nothing to do.
ReconcileNothing(s) ==
  /\ Starts(s)
  /\ \/ ~Exists(sbxCache[s])
     \/ sbxCache[s].st = "live" /\ sbxCache[s].fin /\ sbxCache[s].phase \in Terminal
  /\ Return(s)
  /\ UNCHANGED <<clusterVars, execd, template, due, timer, minted, faults>>

AddFinalizer(s) ==
  /\ Starts(s)
  /\ sbxCache[s].st = "live" /\ ~sbxCache[s].fin
  /\ \/ /\ SandboxCurrent(s, sbxCache[s])
        /\ WriteSandbox(s, [sbxCache[s] EXCEPT !.fin = TRUE])
        /\ Goto(s, [Idle EXCEPT !.at = "dispatch", !.obj = sandboxes'[s]])
        /\ UNCHANGED faults
     \/ /\ \/ ~SandboxCurrent(s, sbxCache[s]) /\ UNCHANGED faults
           \/ Fault
        /\ Requeue(s)
        /\ UNCHANGED sandboxVars
  /\ UNCHANGED <<podVars, execd, template, due, timer, minted>>

-----------------------------------------------------------------------------
(* acquirePod.                                                             *)

\* Mutant: the list drops the sandbox-id selector.
AnyPods(s) == {p \in Pods : podCache[p].st = "live"}

\* findClaimedPod: Pods the cache shows as this Sandbox's, not being deleted.
ClaimedPods(s) == {p \in Pods : podCache[p].st = "live" /\ podCache[p].owner = s}

\* The filter of claimWarmPod over the cached list.
Candidates ==
  {p \in Pods : /\ podCache[p].st = "live"
                /\ podCache[p].owner = None
                /\ podCache[p].pool /\ podCache[p].hash = template.hash
                /\ podCache[p].ready = "ready"
                /\ podCache[p].tier = "meets"}

\* Mutant: the claim is written without a resourceVersion.
ClaimableBlindly == Candidates

\* The candidates whose Update the API server would accept; the loop skips
\* the others (Conflict and NotFound), in an order the shuffle decides.
Claimable == {p \in Candidates : PodCurrent(p, podCache[p])}

ColdPod(s) ==
  [AbsentPod EXCEPT !.st = "live", !.owner = s, !.hash = template.hash]

\* A template awaiting review serves Sandboxes; a rejected one does not.
Usable == template.st \in {"approved", "pending"}

AcquireFails(s) ==
  /\ Dispatch(s, "Pending")
  /\ ~Usable
  /\ Goto(s, Failing(View(s)))
  /\ UNCHANGED <<clusterVars, execd, template, due, timer, minted, faults>>

Adopt(s) ==
  /\ Dispatch(s, "Pending")
  /\ Usable
  /\ \E p \in ClaimedPods(s) : Goto(s, [Idle EXCEPT !.at = "record", !.obj = View(s), !.pod = p])
  /\ UNCHANGED <<clusterVars, execd, template, due, timer, minted, faults>>

ClaimWarmPod(s) ==
  /\ Dispatch(s, "Pending")
  /\ Usable
  /\ ClaimedPods(s) = {}
  /\ \E p \in Claimable :
       /\ WritePod(p, [podCache[p] EXCEPT !.owner = s])
       /\ Goto(s, [Idle EXCEPT !.at = "record", !.obj = View(s), !.pod = p])
  /\ UNCHANGED <<sandboxVars, execd, template, due, timer, minted, faults>>

\* A claim that fails other than by conflict is returned and retried.
ClaimErrs(s) ==
  /\ Dispatch(s, "Pending")
  /\ Usable
  /\ ClaimedPods(s) = {} /\ Claimable # {}
  /\ Fault
  /\ Requeue(s)
  /\ UNCHANGED <<clusterVars, execd, template, due, timer, minted>>

\* Creating fails when the namespace has no room left (no name of Pods is
\* left) or the call does.
CreatePod(s) ==
  /\ Dispatch(s, "Pending")
  /\ Usable
  /\ ClaimedPods(s) = {} /\ Claimable = {}
  /\ \/ \E p \in Pods :
          /\ pods[p].st = "absent"
          /\ WritePod(p, ColdPod(s))
          /\ Goto(s, [Idle EXCEPT !.at = "record", !.obj = View(s), !.pod = p])
          /\ UNCHANGED faults
     \/ /\ \/ (\A p \in Pods : pods[p].st # "absent") /\ UNCHANGED faults
           \/ Fault
        /\ Goto(s, Failing(View(s)))
        /\ UNCHANGED podVars
  /\ UNCHANGED <<sandboxVars, execd, template, due, timer, minted>>

\* The status write that ends acquirePod.
RecordBinding(s) ==
  /\ rec[s].at = "record"
  /\ \/ /\ Accepted(s, [rec[s].obj EXCEPT !.phase = "Binding", !.pod = rec[s].pod])
        /\ Requeue(s)
        /\ UNCHANGED timer
     \/ Refused(s)
  /\ UNCHANGED <<podVars, execd, template, due, minted>>

-----------------------------------------------------------------------------
(* bind.                                                                   *)

BindPod(s) == podCache[View(s).pod]

\* PodLost, PodTerminated, or the template is gone.
BindFails(s) ==
  /\ Dispatch(s, "Binding")
  /\ \/ ~Exists(BindPod(s))
     \/ BindPod(s).ready = "dead"
     \/ BindPod(s).ready = "ready" /\ template.st = "missing"
  /\ Goto(s, Failing(View(s)))
  /\ UNCHANGED <<clusterVars, execd, template, due, timer, minted, faults>>

\* Not ready yet, or the probe of an unmeasured Pod failed: RequeueAfter.
BindWaits(s) ==
  /\ Dispatch(s, "Binding")
  /\ Exists(BindPod(s))
  /\ \/ BindPod(s).ready = "starting" /\ UNCHANGED faults
     \/ /\ BindPod(s).ready = "ready" /\ template.st # "missing"
        /\ BindPod(s).tier = "unmeasured"
        /\ \/ ~Answers(View(s).pod) /\ UNCHANGED faults
           \/ Fault
  /\ Requeue(s)
  /\ UNCHANGED <<clusterVars, execd, template, due, timer, minted>>

\* What the template's floor is compared with: the label, or a probe made now.
BindTier(s) ==
  IF BindPod(s).tier = "unmeasured" THEN NodeTier[View(s).pod] ELSE BindPod(s).tier

\* bind goes on to compare tiers: the Pod is ready in the cache, the template
\* exists, and the Pod is measured or answers the probe.
BindProceeds(s) ==
  /\ Dispatch(s, "Binding")
  /\ Exists(BindPod(s)) /\ BindPod(s).ready = "ready"
  /\ template.st # "missing"
  /\ BindPod(s).tier = "unmeasured" => Answers(View(s).pod)

\* Below the floor: the Pod is to be deleted, and the Sandbox fails.
BindBelowFloor(s) ==
  /\ BindProceeds(s)
  /\ BindTier(s) = "below"
  /\ Goto(s, [Idle EXCEPT !.at = "drop", !.obj = View(s)])
  /\ UNCHANGED <<clusterVars, execd, template, due, timer, minted, faults>>

\* Mutant: execd takes a second bind.
ExecdAcceptsAgain(s, p) == Answers(p) /\ View(s).spec # "refused"

\* execd accepts the one bind of its life from whoever asks first.
ExecdAccepts(s, p) ==
  Answers(p) /\ execd[p].st = "unbound" /\ View(s).spec # "refused"

Serve(s, p) ==
  execd' = [execd EXCEPT ![p] = [st |-> "bound", sbx |-> s, token |-> minted + 1]]

UnlabelledVersion(s) ==
  IF BindPod(s).tier = "unmeasured" THEN BindPod(s).rv ELSE None

BindSucceeds(s) ==
  /\ BindProceeds(s)
  /\ BindTier(s) = "meets"
  /\ minted < MaxBinds
  /\ minted' = minted + 1
  /\ ExecdAccepts(s, View(s).pod)
  /\ Serve(s, View(s).pod)
  /\ Goto(s, [at |-> "running", obj |-> View(s), pod |-> View(s).pod,
              token |-> minted + 1, label |-> UnlabelledVersion(s)])
  /\ UNCHANGED <<clusterVars, template, due, timer, faults>>

\* Any error from Bind: execd refuses, or the request or its answer is lost.
BindErrs(s) ==
  /\ BindProceeds(s)
  /\ BindTier(s) = "meets"
  /\ minted < MaxBinds
  /\ minted' = minted + 1
  /\ \/ ~ExecdAccepts(s, View(s).pod) /\ UNCHANGED <<execd, faults>>
     \/ ExecdAccepts(s, View(s).pod) /\ (Serve(s, View(s).pod) \/ UNCHANGED execd) /\ Fault
  /\ Goto(s, [Idle EXCEPT !.at = "drop", !.obj = View(s)])
  /\ UNCHANGED <<clusterVars, template, due, timer>>

\* The Delete before fail; its error is ignored.
DropPod(s) ==
  /\ rec[s].at = "drop"
  /\ \/ DeletePod(rec[s].obj.pod) /\ UNCHANGED faults
     \/ UNCHANGED podVars /\ Fault
  /\ Goto(s, Failing(rec[s].obj))
  /\ UNCHANGED <<sandboxVars, execd, template, due, timer, minted>>

\* The status write that publishes the sandbox, and the RequeueAfter(ttl).
RecordRunning(s) ==
  /\ rec[s].at = "running"
  /\ \/ /\ Accepted(s, [rec[s].obj EXCEPT !.phase = "Running", !.token = rec[s].token])
        /\ Goto(s, IF rec[s].label = None
                   THEN Idle
                   ELSE [Idle EXCEPT !.at = "label", !.pod = rec[s].pod, !.label = rec[s].label])
        /\ timer' = IF rec[s].obj.spec = "permanent" THEN timer ELSE timer \cup {s}
     \/ Refused(s)
  /\ UNCHANGED <<podVars, execd, template, due, minted>>

\* The best-effort tier label; it ends the pass.
LabelTier(s) ==
  LET p == rec[s].pod IN
  /\ rec[s].at = "label"
  /\ IF pods[p].rv = rec[s].label
     THEN WritePod(p, [pods[p] EXCEPT !.tier = NodeTier[p]])
     ELSE UNCHANGED podVars
  /\ Return(s)
  /\ UNCHANGED <<sandboxVars, execd, template, due, timer, minted, faults>>

RecordFailed(s) ==
  /\ rec[s].at = "fail"
  /\ \/ /\ Accepted(s, [rec[s].obj EXCEPT !.phase = "Failed", !.token = None])
        /\ Return(s)
        /\ UNCHANGED timer
     \/ Refused(s)
  /\ UNCHANGED <<podVars, execd, template, due, minted>>

-----------------------------------------------------------------------------
(* watchExpiry, expire, finalize and deletePod.                            *)

\* Best effort; execd expires whether or not it was ever bound.
Unbind(p) ==
  execd' = IF Answers(p) THEN [execd EXCEPT ![p].st = "expired"] ELSE execd

\* deletePod does nothing when no Pod was recorded or the cache has none.
HasPod(obj) == obj.pod # None /\ Exists(podCache[obj.pod])

ReleasePod(obj) ==
  IF HasPod(obj)
  THEN Unbind(obj.pod) /\ DeletePod(obj.pod)
  ELSE UNCHANGED podVars /\ UNCHANGED execd

\* Mutant: finalize and expire swallow the error of deletePod.
ReleaseErrsSilently(s, obj) ==
  /\ HasPod(obj)
  /\ Fault
  /\ Unbind(obj.pod)
  /\ Return(s)
  /\ UNCHANGED podVars

\* Delete fails after Unbind went through: the pass is retried.
ReleaseErrs(s, obj) ==
  /\ HasPod(obj)
  /\ Fault
  /\ Unbind(obj.pod)
  /\ Requeue(s)
  /\ UNCHANGED podVars

\* Mutant: a Running Sandbox is left to the timer bind started.
WatchExpiryOnce(s) ==
  /\ Dispatch(s, "Running")
  /\ s \notin due
  /\ Return(s)
  /\ UNCHANGED <<clusterVars, execd, template, due, timer, minted, faults>>

WatchExpiry(s) ==
  /\ Dispatch(s, "Running")
  /\ s \notin due
  /\ timer' = IF View(s).spec = "permanent" THEN timer ELSE timer \cup {s}
  /\ Return(s)
  /\ UNCHANGED <<clusterVars, execd, template, due, minted, faults>>

Expire(s) ==
  /\ Dispatch(s, "Running")
  /\ s \in due
  /\ \/ /\ ReleasePod(View(s))
        /\ Goto(s, [Idle EXCEPT !.at = "expired", !.obj = View(s)])
        /\ UNCHANGED faults
     \/ ReleaseErrs(s, View(s))
  /\ UNCHANGED <<sandboxVars, template, due, timer, minted>>

RecordExpired(s) ==
  /\ rec[s].at = "expired"
  /\ \/ /\ Accepted(s, [rec[s].obj EXCEPT !.phase = "Expired", !.token = None])
        /\ Return(s)
        /\ UNCHANGED timer
     \/ Refused(s)
  /\ UNCHANGED <<podVars, execd, template, due, minted>>

Finalize(s) ==
  /\ Starts(s)
  /\ sbxCache[s].st = "deleting"
  /\ \/ /\ ReleasePod(sbxCache[s])
        /\ Goto(s, [Idle EXCEPT !.at = "release", !.obj = sbxCache[s]])
        /\ UNCHANGED faults
     \/ ReleaseErrs(s, sbxCache[s])
  /\ UNCHANGED <<sandboxVars, template, due, timer, minted>>

\* Update without the finalizer: the API server removes the object.
RemoveFinalizer(s) ==
  /\ rec[s].at = "release"
  /\ \/ /\ Accepted(s, [rec[s].obj EXCEPT !.st = "gone", !.fin = FALSE])
        /\ Return(s)
        /\ UNCHANGED timer
     \/ Refused(s)
  /\ UNCHANGED <<podVars, execd, template, due, minted>>

-----------------------------------------------------------------------------
(* The rest of the system: tenants, informers, kubelets, the garbage       *)
(* collector, execd's own timer, and the controller process itself.        *)

\* The API server of pkg/apiserver creates the object on a tenant's behalf.
UserCreate(s) ==
  /\ sandboxes[s] = AbsentSandbox
  /\ \E spec \in Specs : WriteSandbox(s, [AbsentSandbox EXCEPT !.st = "live", !.spec = spec])
  /\ UNCHANGED <<podVars, execd, template, due, controllerVars, faults>>

\* Without a finalizer the object goes at once.
UserDelete(s) ==
  /\ sandboxes[s].st = "live"
  /\ WriteSandbox(s, [sandboxes[s] EXCEPT
                        !.st = IF sandboxes[s].fin THEN "deleting" ELSE "gone"])
  /\ UNCHANGED <<podVars, execd, template, due, controllerVars, faults>>

EditTemplate ==
  /\ ChangeTemplate
  /\ UNCHANGED <<clusterVars, execd, due, controllerVars, faults>>

DeliverSandbox ==
  /\ sbxWatch # <<>>
  /\ sbxCache' = [sbxCache EXCEPT ![Head(sbxWatch).key] = Head(sbxWatch).obj]
  /\ sbxWatch' = Tail(sbxWatch)
  /\ queued' = queued \cup {Head(sbxWatch).key}
  /\ UNCHANGED <<podVars, sandboxes, execd, template, due, timer, rec, minted, faults>>

\* Owns(Pod): an event on a Pod queues the Sandbox that controls it.
DeliverPod ==
  /\ podWatch # <<>>
  /\ podCache' = [podCache EXCEPT ![Head(podWatch).key] = Head(podWatch).obj]
  /\ podWatch' = Tail(podWatch)
  /\ queued' = queued \cup ({Head(podWatch).obj.owner} \ {None})
  /\ UNCHANGED <<sandboxVars, pods, execd, template, due, timer, rec, minted, faults>>

KubeletStarts(p) ==
  /\ pods[p].st = "live" /\ pods[p].ready = "starting"
  /\ WritePod(p, [pods[p] EXCEPT !.ready = "ready"])
  /\ UNCHANGED <<sandboxVars, execd, template, due, controllerVars, faults>>

\* RestartPolicyNever: a container that stops stays stopped, whether it
\* crashed or its execd expired and exited.
KubeletStops(p) ==
  /\ pods[p].st = "live" /\ pods[p].ready # "dead"
  /\ p \in Mortal \/ execd[p].st = "expired"
  /\ WritePod(p, [pods[p] EXCEPT !.ready = "dead"])
  /\ UNCHANGED <<sandboxVars, execd, template, due, controllerVars, faults>>

\* The grace period is over.
KubeletRemoves(p) ==
  /\ pods[p].st = "deleting"
  /\ WritePod(p, [pods[p] EXCEPT !.st = "gone", !.ready = "dead"])
  /\ UNCHANGED <<sandboxVars, execd, template, due, controllerVars, faults>>

\* Garbage collection through the controller reference.
CollectGarbage(p) ==
  /\ pods[p].st = "live"
  /\ pods[p].owner # None /\ sandboxes[pods[p].owner].st = "gone"
  /\ DeletePod(p)
  /\ UNCHANGED <<sandboxVars, execd, template, due, controllerVars, faults>>

\* ExpiresAt passes.
DeadlinePasses(s) ==
  /\ sandboxes[s].phase = "Running" /\ s \notin due
  /\ sandboxes[s].spec # "permanent"
  /\ due' = due \cup {s}
  /\ UNCHANGED <<clusterVars, execd, template, controllerVars, faults>>

\* The RequeueAfter of bind or watchExpiry.
TimerFires(s) ==
  /\ s \in timer \cap due
  /\ timer' = timer \ {s}
  /\ queued' = queued \cup {s}
  /\ UNCHANGED <<clusterVars, execd, template, due, rec, minted, faults>>

\* execd's own timer, armed with the same TTL.
ExecdExpires(p) ==
  /\ Answers(p) /\ execd[p].st = "bound" /\ execd[p].sbx \in due
  /\ execd' = [execd EXCEPT ![p].st = "expired"]
  /\ UNCHANGED <<clusterVars, template, due, controllerVars, faults>>

\* The controller restarts, or another replica takes the lease: Reconciles in
\* flight and timers are lost, the caches are listed afresh, and every
\* object listed is queued.
Restart ==
  /\ Fault
  /\ rec' = [s \in Sandboxes |-> Idle]
  /\ queued' = {s \in Sandboxes : Exists(sandboxes[s])}
  /\ timer' = {}
  /\ sbxCache' = sandboxes /\ sbxWatch' = <<>>
  /\ podCache' = pods /\ podWatch' = <<>>
  /\ UNCHANGED <<sandboxes, pods, execd, template, due, minted>>

-----------------------------------------------------------------------------

Reconcile(s) ==
  \/ ReconcileNothing(s) \/ AddFinalizer(s)
  \/ AcquireFails(s) \/ Adopt(s) \/ ClaimWarmPod(s) \/ ClaimErrs(s)
  \/ CreatePod(s) \/ RecordBinding(s)
  \/ BindFails(s) \/ BindWaits(s) \/ BindBelowFloor(s) \/ BindSucceeds(s)
  \/ BindErrs(s) \/ DropPod(s) \/ RecordRunning(s) \/ LabelTier(s) \/ RecordFailed(s)
  \/ WatchExpiry(s) \/ Expire(s) \/ RecordExpired(s)
  \/ Finalize(s) \/ RemoveFinalizer(s)

Kubelet(p) == KubeletStarts(p) \/ KubeletStops(p) \/ KubeletRemoves(p)

Work ==
  \/ \E s \in Sandboxes :
       \/ Reconcile(s)
       \/ UserCreate(s) \/ UserDelete(s)
       \/ DeadlinePasses(s) \/ TimerFires(s)
  \/ \E p \in Pods : Kubelet(p) \/ CollectGarbage(p) \/ ExecdExpires(p)
  \/ EditTemplate \/ DeliverSandbox \/ DeliverPod

Next == Work \/ Restart

Spec == Init /\ [][Next]_vars

(***************************************************************************)
(* What the scheduling guarantees: watch streams are delivered, a queued   *)
(* Sandbox gets a worker and its pass goes on, a pending timer fires once  *)
(* its time has come, a kubelet starts and removes Pods, garbage is        *)
(* collected.  Tenants, faults, the template, the clock and execd's timer  *)
(* promise nothing.                                                        *)
(***************************************************************************)
Fairness ==
  /\ WF_vars(DeliverSandbox)
  /\ WF_vars(DeliverPod)
  /\ \A s \in Sandboxes : WF_vars(Reconcile(s)) /\ WF_vars(TimerFires(s))
  /\ \A p \in Pods : WF_vars(KubeletStarts(p) \/ KubeletRemoves(p))
                    /\ WF_vars(CollectGarbage(p))

FairSpec == Spec /\ Fairness

-----------------------------------------------------------------------------
(* Properties.                                                             *)

OneShot ==
  INSTANCE OneShotPod WITH
    owner <- [p \in Pods |-> pods[p].owner],
    serves <- [p \in Pods |-> execd[p].sbx],
    retired <- {p \in Pods : pods[p].st \in {"deleting", "gone"}}

\* Whatever the caches show and however often a pass is retried, each Pod is
\* handed to one Sandbox and its execd serves that one only (claimWarmPod's
\* optimistic Update, createPod, bind).
ImplementsOneShotPod == OneShot!Spec

\* A copy o of a Pod, or of a Sandbox, that some cache, watch stream or pass
\* holds while the API server holds cur: it is never ahead, it is the object
\* itself when the versions agree, and the hand-over it records is a fact.
PodCopy(cur, o) ==
  /\ o.rv <= cur.rv
  /\ o.rv = cur.rv => o = cur
  /\ o.owner # None => cur.owner = o.owner

SandboxCopy(cur, o) ==
  /\ o.rv <= cur.rv
  /\ o.rv = cur.rv => o = cur
  /\ o.phase = "Pending" => o.pod = None
  /\ o.phase \in {"Binding", "Running"} => o.pod # None

PodIsOf(s, o) == o.pod # None => pods[o.pod].owner = s

PodsCoherent ==
  /\ \A p \in Pods : pods[p].st = "absent" => pods[p].owner = None
  /\ \A p \in Pods : PodCopy(pods[p], podCache[p])
  /\ \A i \in 1..Len(podWatch) : PodCopy(pods[podWatch[i].key], podWatch[i].obj)

SandboxesCoherent ==
  /\ \A s \in Sandboxes : \A o \in {AbsentSandbox, sandboxes[s], sbxCache[s]} :
       SandboxCopy(sandboxes[s], o) /\ PodIsOf(s, o)
  /\ \A i \in 1..Len(sbxWatch) :
       LET w == sbxWatch[i]
       IN  SandboxCopy(sandboxes[w.key], w.obj) /\ PodIsOf(w.key, w.obj)

\* What a pass in flight may rely on when it makes its next call.
PassCoherent(s, r) ==
  /\ SandboxCopy(sandboxes[s], r.obj) /\ PodIsOf(s, r.obj)
  /\ r.at \in {"record", "running", "label"} => r.pod \in Pods
  /\ r.at = "record" => r.obj.phase = "Pending" /\ pods[r.pod].owner = s
  /\ r.at \in {"running", "drop"} => r.obj.phase = "Binding"
  /\ r.at = "running" =>
       /\ r.pod = r.obj.pod
       /\ execd[r.pod].sbx = s /\ execd[r.pod].token = r.token
  /\ r.at = "fail" => r.obj.phase \in {"Pending", "Binding"}
  /\ r.at = "expired" => r.obj.phase = "Running"

\* execd only ever serves the Sandbox its Pod's labels name.
ExecdCoherent ==
  \A p \in Pods :
    /\ execd[p].st = "unbound" => execd[p].sbx = None
    /\ execd[p].sbx # None => pods[p].owner = execd[p].sbx

\* What lets every pass work on stale copies: an Update the API server
\* accepts is an Update of the object as it is, a Pod a copy of s names is a
\* Pod of s, and what bind was told by execd still holds when it is written
\* down (requeueOnConflict's "may not have caught up").
Coherent ==
  /\ PodsCoherent
  /\ SandboxesCoherent
  /\ \A s \in Sandboxes : PassCoherent(s, rec[s])
  /\ ExecdCoherent

\* Once status.podName names a Pod it never names another, however many
\* passes, retries and restarts follow (acquirePod's status write).
StatusPodIsFixed ==
  [][\A s \in Sandboxes :
       sandboxes[s].pod # None => sandboxes'[s].pod = sandboxes[s].pod]_vars

PhaseRank(ph) ==
  CASE ph = "Pending" -> 0 [] ph = "Binding" -> 1 [] ph = "Running" -> 2
    [] OTHER -> 3

\* A pass that works on a stale copy never moves a Sandbox back, and never
\* out of a terminal phase (the status writes of sandbox_controller.go).
PhaseMovesForward ==
  [][\A s \in Sandboxes :
       sandboxes'[s].phase # sandboxes[s].phase =>
         /\ sandboxes[s].phase \notin Terminal
         /\ PhaseRank(sandboxes[s].phase) < PhaseRank(sandboxes'[s].phase)]_vars

\* A Sandbox that says Running names a Pod that is its own and whose execd
\* was bound for it with exactly the token in its status: a retried bind
\* never leaves a published token execd does not honour.
RunningIsServed ==
  \A s \in Sandboxes :
    sandboxes[s].phase = "Running" =>
      /\ sandboxes[s].pod # None
      /\ pods[sandboxes[s].pod].owner = s
      /\ execd[sandboxes[s].pod].sbx = s
      /\ execd[sandboxes[s].pod].token = sandboxes[s].token

\* Every Sandbox gets a verdict or is deleted: no lost event, conflict or
\* bounded number of faults leaves it waiting for ever.
Settles ==
  \A s \in Sandboxes :
    (sandboxes[s].st = "live" /\ sandboxes[s].phase \in {"Pending", "Binding"})
      ~> (sandboxes[s].st # "live" \/ sandboxes[s].phase \in {"Running"} \cup Terminal)

\* A deleted Sandbox goes, and no Pod of its outlives it for ever.
DeletionCompletes ==
  \A s \in Sandboxes :
    (sandboxes[s].st \in {"deleting", "gone"}) ~>
      (/\ sandboxes[s].st = "gone"
       /\ \A p \in Pods : pods[p].owner = s => pods[p].st = "gone")

\* The controller enforces the deadline by itself (watchExpiry's comment):
\* after ExpiresAt the Pod goes, whatever execd's timer does.
DeadlineEnforced ==
  \A s \in Sandboxes :
    (s \in due) ~> (\A p \in Pods : p = sandboxes[s].pod => pods[p].st # "live")

-----------------------------------------------------------------------------
(* What comments of the code say and lagging caches refute.                *)

\* findClaimedPod: "whatever happened to the status write, a second Pod is
\* never taken".
NeverASecondPod ==
  \A s \in Sandboxes : Cardinality({p \in Pods : pods[p].owner = s}) <= 1

\* FinalizerSandbox "guarantees the Pod is removed before the Sandbox object
\* disappears": no Pod that nobody has even asked to go is left behind.
PodGoesBeforeSandbox ==
  \A s \in Sandboxes :
    sandboxes[s].st = "gone" =>
      \A p \in Pods : pods[p].owner = s => pods[p].st # "live"

\* Reconcile, of a terminal phase: "The Pod is already gone".
TerminalPodIsGone ==
  \A s \in Sandboxes :
    sandboxes[s].phase \in Terminal /\ sandboxes[s].pod # None =>
      pods[sandboxes[s].pod].st # "live"

\* Sandbox: "backed by exactly one Pod for the whole of its life".  While it
\* is Running, before its deadline and not deleted, its Pod is not deleted.
RunningKeepsItsPod ==
  \A s \in Sandboxes :
    sandboxes[s].st = "live" /\ sandboxes[s].phase = "Running" /\ s \notin due =>
      pods[sandboxes[s].pod].st = "live"
=============================================================================
