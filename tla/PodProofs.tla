------------------------------ MODULE PodProofs ------------------------------
(***************************************************************************)
(* Proofs about the processes of a sandbox's Pod.                          *)
(*                                                                         *)
(* execd, for any number of bind requests: when the control plane sends    *)
(* one request at a time, execd is one-shot and what it publishes is       *)
(* ready.  Timers, keepalives, crashes and signals are free.               *)
(* jdix-init's commands, for every set of sessions, whatever their forms   *)
(* and what they leave behind.                                             *)
(* jdix-init's reaper, for every set of jobs and pids and every size of    *)
(* the ring: the ring agrees with the map it orders whatever pids come     *)
(* round, and where none does, Wait returns its own process's status.      *)
(***************************************************************************)
EXTENDS Reaper, Exec, Execd, TLAPS

-----------------------------------------------------------------------------
(* execd.                                                                  *)

(* The critical section of expire keeps the types of what it writes. *)
LEMMA MarkExpiredTypes ==
  ASSUME ExecdTypeOK, NEW r \in {"ttl", "unbind"}, MarkExpired(r)
  PROVE  /\ sb' \in Calls \cup {NoCall}
         /\ expired' \in BOOLEAN
         /\ teardown' \in [by: {"nobody", "ttl", "unbind"}, of: Calls \cup {NoCall}]
<1>1. CASE expired
  BY <1>1 DEF MarkExpired, ExecdTypeOK
<1>2. CASE ~expired
  <2>1. teardown' = [by |-> r, of |-> sb] /\ sb' = NoCall /\ expired' = TRUE
    BY <1>2 DEF MarkExpired
  <2> QED
    BY <2>1 DEF ExecdTypeOK
<1> QED
  BY <1>1, <1>2

(* The types are an invariant, overlapping requests or not. *)
THEOREM ExecdTypeCorrect == ExecdSpec => []ExecdTypeOK
<1>1. ExecdInit => ExecdTypeOK
  <2> SUFFICES ASSUME ExecdInit PROVE ExecdTypeOK
    OBVIOUS
  <2>1. teardown \in [by: {"nobody", "ttl", "unbind"}, of: Calls \cup {NoCall}]
    BY DEF ExecdInit, NoTeardown
  <2>2. expiresAt \in [Calls -> Nat \cup {Never}]
    BY DEF ExecdInit
  <2> QED
    BY <2>1, <2>2, Zenon DEF ExecdInit, ExecdTypeOK
<1>2. ExecdTypeOK /\ [ExecdNext]_execdVars => ExecdTypeOK'
  <2> SUFFICES ASSUME ExecdTypeOK, [ExecdNext]_execdVars PROVE ExecdTypeOK'
    OBVIOUS
  <2> USE DEF ExecdTypeOK, InFlight, Replies, procVars, timerVars, Goto
  <2>1. CASE UNCHANGED execdVars
    BY <2>1 DEF execdVars
  <2>2. ASSUME NEW c \in Calls, Bind(c) \/ BindStep(c) PROVE ExecdTypeOK'
    <3>1. CASE Bind(c)          BY <3>1 DEF Bind
    <3>2. CASE Launch(c)        BY <3>2 DEF Launch
    <3>3. CASE SocketUp(c)      BY <3>3, TTLAssumption, Zenon DEF SocketUp, Never
    <3>4. CASE SocketTimesOut(c)  BY <3>4 DEF SocketTimesOut, Kill
    <3>5. CASE Configure(c)     BY <3>5 DEF Configure, Configurable, Reachable
    <3>6. CASE StopUnconfigured(c)  BY <3>6 DEF StopUnconfigured, Kill
    <3>7. CASE Publish(c)       BY <3>7 DEF Publish
    <3> QED BY <2>2, <3>1, <3>2, <3>3, <3>4, <3>5, <3>6, <3>7, Zenon DEF BindStep
  <2>3. ASSUME NEW c \in Calls, InitListens(c) \/ InitCrashes(c) PROVE ExecdTypeOK'
    BY <2>3 DEF InitListens, InitCrashes
  <2>4. ASSUME NEW c \in Calls, TimerFires(c) PROVE ExecdTypeOK'
    BY <2>4 DEF TimerFires
  <2>5. ASSUME NEW c \in Calls, ExpireTTL(c) PROVE ExecdTypeOK'
    <3>1. MarkExpired("ttl")
      BY <2>5 DEF ExpireTTL
    <3>2. /\ firing' = firing \ {c}
          /\ UNCHANGED <<call, procVars, expiresAt, timed, armed, renewing, down>>
      BY <2>5 DEF ExpireTTL
    <3> QED
      BY <3>2, <3>1, MarkExpiredTypes
  <2>6. CASE Unbind
    <3>1. MarkExpired("unbind")
      BY <2>6 DEF Unbind
    <3>2. UNCHANGED <<call, procVars, expiresAt, timerVars, renewing, down>>
      BY <2>6 DEF Unbind
    <3> QED
      BY <3>2, <3>1, MarkExpiredTypes
  <2>7. CASE Teardown
    BY <2>7 DEF Teardown, Kill, NoTeardown
  <2>8. CASE KeepaliveAuthorised \/ Keepalive
    BY <2>8, ExtendAssumption DEF KeepaliveAuthorised, Keepalive, Renewal
  <2>9. CASE ShutDown
    BY <2>9 DEF ShutDown
  <2>10. CASE ExitProcess
    BY <2>10 DEF ExitProcess
  <2>11. CASE Tick
    BY <2>11 DEF Tick, Never
  <2> QED
    BY <2>1, <2>2, <2>3, <2>4, <2>5, <2>6, <2>7, <2>8, <2>9, <2>10, <2>11, Zenon DEF ExecdNext
<1> QED
  BY <1>1, <1>2, PTL DEF ExecdSpec

(* Orderly is kept by every step when requests do not overlap: one step per
   action, and the parts of Orderly it can disturb. *)
LEMMA OrderlyStep ==
  ASSUME ~Overlap, ExecdTypeOK, Orderly, ExecdNext
  PROVE  Orderly'
<1> USE CallsAssumption DEF Orderly, ExecdTypeOK, InFlight, Replies, procVars, timerVars, Goto, Running, Alive
<1>1. ASSUME NEW c \in Calls, Bind(c) PROVE Orderly'
  BY <1>1 DEF Bind, ControlRequest, ControlIdle
<1>2. ASSUME NEW c \in Calls, Launch(c) PROVE Orderly'
  <2>1. call[c] = "launch" /\ Running
    BY <1>2 DEF Launch
  <2>2. CASE call' = [call EXCEPT ![c] = "wait"] /\ proc' = [proc EXCEPT ![c] = "starting"]
    BY <1>2, <2>1, <2>2 DEF Launch
  <2>3. CASE call' = [call EXCEPT ![c] = "bind_failed"] /\ UNCHANGED proc
    BY <1>2, <2>1, <2>3 DEF Launch
  <2> QED
    BY <1>2, <2>2, <2>3 DEF Launch
<1>3. ASSUME NEW c \in Calls, SocketUp(c) PROVE Orderly'
  BY <1>3 DEF SocketUp
<1>4. ASSUME NEW c \in Calls, SocketTimesOut(c) PROVE Orderly'
  BY <1>4 DEF SocketTimesOut, Kill
<1>5. ASSUME NEW c \in Calls, Configure(c) PROVE Orderly'
  BY <1>5 DEF Configure, Configurable, Reachable
<1>6. ASSUME NEW c \in Calls, StopUnconfigured(c) PROVE Orderly'
  BY <1>6 DEF StopUnconfigured, Kill
<1>7. ASSUME NEW c \in Calls, Publish(c) PROVE Orderly'
  BY <1>7 DEF Publish
<1>8. ASSUME NEW c \in Calls, InitListens(c) PROVE Orderly'
  BY <1>8 DEF InitListens
<1>9. ASSUME NEW c \in Calls, InitCrashes(c) PROVE Orderly'
  BY <1>9 DEF InitCrashes
<1>10. ASSUME NEW c \in Calls, TimerFires(c) PROVE Orderly'
  BY <1>10 DEF TimerFires
<1>11. ASSUME NEW c \in Calls, ExpireTTL(c) PROVE Orderly'
  BY <1>11 DEF ExpireTTL, MarkExpired, NoTeardown
<1>12. CASE Unbind
  BY <1>12 DEF Unbind, MarkExpired, NoTeardown, ControlRequest, ControlIdle
<1>13. CASE Teardown
  BY <1>13 DEF Teardown, Kill, NoTeardown
<1>14. CASE KeepaliveAuthorised
  BY <1>14 DEF KeepaliveAuthorised
<1>15. CASE Keepalive
  BY <1>15 DEF Keepalive
<1>16. CASE ShutDown
  BY <1>16 DEF ShutDown
<1>17. CASE ExitProcess
  BY <1>17 DEF ExitProcess
<1>18. CASE Tick
  BY <1>18 DEF Tick
<1> QED
  BY <1>1, <1>2, <1>3, <1>4, <1>5, <1>6, <1>7, <1>8, <1>9, <1>10, <1>11, <1>12, ZenonT(30),
     <1>13, <1>14, <1>15, <1>16, <1>17, <1>18 DEF ExecdNext, BindStep

(* One request at a time keeps execd in order, for any number of requests
   and any deadlines (handleBind, expire, keepalive, main). *)
THEOREM ExecdOrderly == ASSUME ~Overlap PROVE ExecdSpec => []Orderly
<1>1. ExecdInit => Orderly
  BY CallsAssumption DEF ExecdInit, Orderly, NoTeardown, Alive, InFlight
<1>2. ExecdTypeOK /\ Orderly /\ [ExecdNext]_execdVars => Orderly'
  <2>1. ExecdTypeOK /\ Orderly /\ ExecdNext => Orderly'
    BY OrderlyStep
  <2>2. Orderly /\ UNCHANGED execdVars => Orderly'
    BY DEF Orderly, execdVars, procVars, timerVars, Alive, Running
  <2> QED
    BY <2>1, <2>2
<1> QED
  BY <1>1, <1>2, ExecdTypeCorrect, PTL DEF ExecdSpec

(* What a bind that answered 200 published is reachable and configured, until
   its process crashes or the Pod goes. *)
THEOREM PublishedIsReady == ASSUME ~Overlap PROVE ExecdSpec => []BoundIsReady
<1>1. ExecdTypeOK /\ Orderly => BoundIsReady
  BY DEF ExecdTypeOK, Orderly, BoundIsReady, Reachable
<1> QED
  BY <1>1, ExecdTypeCorrect, ExecdOrderly, PTL

(* No error path of launch or handleBind leaves a sandbox process behind that
   nobody will stop. *)
THEOREM NoProcessLeft == ASSUME ~Overlap PROVE ExecdSpec => []EveryProcessHeld
<1>1. Orderly => EveryProcessHeld
  BY Zenon DEF Orderly, EveryProcessHeld
<1> QED
  BY <1>1, ExecdOrderly, PTL

(* execd implements its one-line promise: one bind, then spent. *)
THEOREM ExecdRefinement == ASSUME ~Overlap PROVE ExecdSpec => ImplementsOneShotExecd
<1>1. ExecdInit => OneShot!Init
  BY DEF ExecdInit, OneShot!Init
<1>2. ExecdTypeOK /\ Orderly /\ [ExecdNext]_execdVars => [OneShot!Next]_(OneShot!vars)
  <2> SUFFICES ASSUME ExecdTypeOK, Orderly, [ExecdNext]_execdVars
               PROVE  OneShot!Next \/ UNCHANGED <<sb, expired>>
    BY DEF OneShot!vars
  <2>1. ASSUME NEW c \in Calls, Publish(c) PROVE OneShot!Bind(c)
    BY <2>1 DEF Publish, Orderly, InFlight, OneShot!Bind
  <2>2. ASSUME NEW r, MarkExpired(r) PROVE OneShot!Expire \/ UNCHANGED <<sb, expired>>
    BY <2>2 DEF MarkExpired, OneShot!Expire
  <2>3. CASE Unbind \/ \E c \in Calls : ExpireTTL(c)
    BY <2>2, <2>3 DEF Unbind, ExpireTTL, OneShot!Next
  <2>4. CASE UNCHANGED execdVars
    BY <2>4 DEF execdVars
  <2>5. ASSUME NEW c \in Calls,
               \/ Bind(c) \/ Launch(c) \/ SocketUp(c) \/ SocketTimesOut(c) \/ Configure(c)
               \/ StopUnconfigured(c) \/ InitListens(c) \/ InitCrashes(c) \/ TimerFires(c)
        PROVE  UNCHANGED <<sb, expired>>
    BY <2>5, Zenon DEF Bind, Launch, SocketUp, SocketTimesOut, Configure, StopUnconfigured,
                InitListens, InitCrashes, TimerFires
  <2>6. CASE Teardown \/ KeepaliveAuthorised \/ Keepalive \/ ShutDown \/ ExitProcess \/ Tick
    BY <2>6 DEF Teardown, KeepaliveAuthorised, Keepalive, ShutDown, ExitProcess, Tick
  <2> QED
    BY <2>1, <2>3, <2>4, <2>5, <2>6 DEF ExecdNext, BindStep, OneShot!Next
<1> QED
  BY <1>1, <1>2, ExecdTypeCorrect, ExecdOrderly, PTL
     DEF ExecdSpec, ImplementsOneShotExecd, OneShot!Spec

-----------------------------------------------------------------------------
(* The commands.                                                           *)

\* TableAgrees is inductive: one step per action.
LEMMA TableAgreesStep ==
  TableAgrees /\ [ExecNext]_execVars => TableAgrees'
<1> SUFFICES ASSUME TableAgrees, [ExecNext]_execVars PROVE TableAgrees'
  OBVIOUS
<1> USE DEF TableAgrees, ExecTypeOK, Process, Set
<1>1. ASSUME NEW e \in Sessions, Fork(e) PROVE TableAgrees'
  BY <1>1 DEF Fork
<1>2. ASSUME NEW e \in Sessions, LeaderExits(e) PROVE TableAgrees'
  BY <1>2 DEF LeaderExits
<1>3. ASSUME NEW e \in Sessions, ChildExits(e) PROVE TableAgrees'
  BY <1>3 DEF ChildExits
<1>4. ASSUME NEW e \in Sessions, Start(e) PROVE TableAgrees'
  BY <1>4 DEF Start, addPID
<1>5. ASSUME NEW e \in Sessions, WaitAndFinish(e) PROVE TableAgrees'
  BY <1>5 DEF WaitAndFinish, finish
<1>6. ASSUME NEW e \in Sessions, Reply(e) PROVE TableAgrees'
  BY <1>6 DEF Reply, RunDeferred, forgetPID
<1>7. ASSUME NEW e \in Sessions, AbandonOutput(e) PROVE TableAgrees'
  BY <1>7 DEF AbandonOutput, RunDeferred, forgetPID
<1>8. ASSUME NEW e \in Sessions, EnforcerWakes(e) PROVE TableAgrees'
  BY <1>8 DEF EnforcerWakes, HasExited, SignalGroup, AfterKill
<1>9. ASSUME NEW e \in Sessions, EnforcerKills(e) PROVE TableAgrees'
  BY <1>9 DEF EnforcerKills, StillRuns, KillGroup, AfterKill
<1>10. ASSUME NEW e \in Sessions, Deadline(e) PROVE TableAgrees'
  BY <1>10 DEF Deadline, Serving
<1>11. ASSUME NEW e \in Sessions, Disconnect(e) PROVE TableAgrees'
  BY <1>11 DEF Disconnect, Serving
<1>12. ASSUME NEW e \in Sessions, Signal(e) PROVE TableAgrees'
  BY <1>12 DEF Signal, SignalGroup, KillGroup, AfterKill
<1>13. ASSUME NEW e \in Sessions, CloseStdin(e) PROVE TableAgrees'
  BY <1>13 DEF CloseStdin
<1>14. ASSUME NEW e \in Sessions, ReadControl(e) PROVE TableAgrees'
  BY <1>14 DEF ReadControl
<1>15. CASE UNCHANGED execVars
  BY <1>15 DEF execVars
<1> QED
  BY <1>1, <1>2, <1>3, <1>4, <1>5, <1>6, <1>7, <1>8, <1>9, <1>10, <1>11, <1>12, <1>13, <1>14, <1>15, Zenon DEF ExecNext, Served, Enforced

\* The process table lists the commands being served, says done only of one
\* that has exited, and no handler returns before its command has.
THEOREM TableAlwaysAgrees ==
  ExecSpec => []TableAgrees
<1>1. ExecInit => TableAgrees
  BY DEF ExecInit, TableAgrees, ExecTypeOK, Process
<1> QED BY <1>1, TableAgreesStep, PTL DEF ExecSpec

-----------------------------------------------------------------------------
(* The reaper.                                                             *)

\* Without removes p from a sequence that holds it once, and nothing else.
LEMMA WithoutProperties ==
  ASSUME NEW S, NEW seq \in Seq(S), NEW p, Holds(seq, p),
         \A i, k \in DOMAIN seq : seq[i] = seq[k] => i = k
  PROVE  /\ Without(seq, p) \in Seq(S)
         /\ Len(Without(seq, p)) = Len(seq) - 1
         /\ \A q : Holds(Without(seq, p), q) <=> Holds(seq, q) /\ q # p
         /\ \A i, k \in DOMAIN Without(seq, p) :
              Without(seq, p)[i] = Without(seq, p)[k] => i = k
<1> DEFINE at == CHOOSE i \in DOMAIN seq : seq[i] = p
           w == [i \in 1 .. Len(seq) - 1 |-> seq[IF i < at THEN i ELSE i + 1]]
<1>1. at \in DOMAIN seq /\ seq[at] = p
  BY DEF Holds
<1>2. Len(seq) \in Nat /\ DOMAIN seq = 1 .. Len(seq)
  OBVIOUS
<1>3. Without(seq, p) = w
  BY DEF Without
<1> HIDE DEF at
<1>4. \A i \in 1 .. Len(seq) - 1 : w[i] \in S
  BY <1>1, <1>2
<1>5. w \in Seq(S) /\ Len(w) = Len(seq) - 1 /\ DOMAIN w = 1 .. Len(seq) - 1
  BY <1>1, <1>2, <1>4
<1>6. \A q : Holds(w, q) => Holds(seq, q) /\ q # p
  BY <1>1, <1>2, <1>5 DEF Holds
<1>7. ASSUME NEW q, Holds(seq, q), q # p PROVE Holds(w, q)
  <2>1. PICK i \in DOMAIN seq : seq[i] = q
    BY <1>7 DEF Holds
  <2>2. CASE i < at
    BY <2>1, <2>2, <1>1, <1>2, <1>5 DEF Holds
  <2>3. CASE ~(i < at)
    <3>1. i > at
      BY <2>1, <2>3, <1>1, <1>2, <1>7
    <3>2. i - 1 \in DOMAIN w /\ w[i - 1] = q
      BY <3>1, <2>1, <1>1, <1>2, <1>5
    <3> QED BY <3>2 DEF Holds
  <2> QED BY <2>2, <2>3
<1>8. \A i, k \in DOMAIN w : w[i] = w[k] => i = k
  BY <1>1, <1>2, <1>5
<1> HIDE DEF w
<1> QED BY <1>3, <1>5, <1>6, <1>7, <1>8

\* What the reaper's own data must be, apart from the processes and callers.
RingInv(pend, ord) ==
  /\ pend \in [Pids -> Jobs \cup {None}]
  /\ ord \in Seq(Pids)
  /\ \A p \in Pids : pend[p] # None <=> Holds(ord, p)
  /\ \A i, k \in DOMAIN ord : ord[i] = ord[k] => i = k
  /\ Len(ord) <= MaxPending

\* forget frees a claimed status and its slot together.
LEMMA ForgetRing ==
  ASSUME RingInv(pending, order), NEW p \in Pids, forget(p)
  PROVE  RingInv(pending, order)'
<1>1. CASE Holds(order, p)
  <2>1. order' = Without(order, p)
    BY <1>1 DEF forget
  <2>2. /\ Without(order, p) \in Seq(Pids)
        /\ Len(Without(order, p)) = Len(order) - 1
        /\ \A q : Holds(Without(order, p), q) <=> Holds(order, q) /\ q # p
        /\ \A i, k \in DOMAIN Without(order, p) :
              Without(order, p)[i] = Without(order, p)[k] => i = k
    BY <1>1, WithoutProperties DEF RingInv
  <2>3. pending' \in [Pids -> Jobs \cup {None}]
    BY DEF forget, RingInv
  <2>4. Len(order') <= MaxPending
    BY <2>1, <2>2, MaxPendingAssumption DEF RingInv
  <2>5. \A q \in Pids : pending'[q] # None <=> Holds(order', q)
    BY <2>1, <2>2 DEF forget, RingInv
  <2> QED BY <2>1, <2>2, <2>3, <2>4, <2>5 DEF RingInv
<1>2. CASE ~Holds(order, p)
  <2>1. order' = order /\ pending' = pending
    BY <1>2 DEF forget, RingInv
  <2> QED BY <2>1 DEF RingInv, Holds
<1> QED BY <1>1, <1>2

\* A status appended to the ring, and the oldest evicted when it is full.
LEMMA DeliverRing ==
  ASSUME RingInv(pending, order), NEW p \in Pids, NEW j \in Jobs, deliver(p, j)
  PROVE  RingInv(pending, order)'
<1> DEFINE ring == Remember(p)
           kept == [pending EXCEPT ![p] = j]
<1>a. order \in Seq(Pids) /\ Len(order) \in Nat /\ DOMAIN order = 1 .. Len(order)
  BY DEF RingInv
<1>b. j # None
  BY JobsAssumption
<1>1. CASE waiters[p] # None
  <2>1. order' = order /\ pending' = pending
    BY <1>1 DEF deliver, ringVars
  <2> QED BY <2>1 DEF RingInv, Holds
<1>2. CASE waiters[p] = None
  <2>1. /\ ring \in Seq(Pids) /\ Len(ring) \in Nat /\ Len(ring) <= MaxPending + 1
        /\ DOMAIN ring = 1 .. Len(ring)
    BY <1>a, MaxPendingAssumption DEF Remember, RingInv
  <2>2. \A q \in Pids : kept[q] # None <=> Holds(ring, q)
    <3>1. CASE pending[p] = None
      <4>1. ring = Append(order, p)
        BY <3>1 DEF Remember
      <4>2. \A q : Holds(ring, q) <=> Holds(order, q) \/ q = p
        BY <4>1, <1>a DEF Holds
      <4> QED BY <4>2, <1>b DEF RingInv
    <3>2. CASE pending[p] # None
      <4>1. ring = order
        BY <3>2 DEF Remember
      <4> QED BY <4>1, <3>2, <1>b DEF RingInv
    <3> QED BY <3>1, <3>2
  <2>3. \A i, k \in DOMAIN ring : ring[i] = ring[k] => i = k
    <3>1. CASE pending[p] = None
      <4>1. ring = Append(order, p) /\ ~Holds(order, p)
        BY <3>1 DEF Remember, RingInv
      <4>2. \A i \in DOMAIN order : order[i] # p
        BY <4>1 DEF Holds
      <4> QED BY <4>1, <4>2, <1>a DEF RingInv
    <3>2. CASE pending[p] # None
      BY <3>2 DEF Remember, RingInv
    <3> QED BY <3>1, <3>2
  <2>4. kept \in [Pids -> Jobs \cup {None}]
    BY DEF RingInv
  <2>5. \/ /\ Len(ring) > MaxPending
           /\ order' = Tail(ring) /\ pending' = [kept EXCEPT ![Head(ring)] = None]
        \/ /\ ~(Len(ring) > MaxPending)
           /\ order' = ring /\ pending' = kept
    BY <1>2, Zenon DEF deliver
  <2> HIDE DEF ring, kept
  <2>6. CASE Len(ring) > MaxPending
    <3>1. order' = Tail(ring) /\ pending' = [kept EXCEPT ![Head(ring)] = None]
      BY <2>5, <2>6
    <3>2. ring # << >> /\ Head(ring) = ring[1] /\ ring[1] \in Pids
      BY <2>6, <2>1, MaxPendingAssumption
    <3>3. /\ order' \in Seq(Pids) /\ Len(order') = Len(ring) - 1
          /\ DOMAIN order' = 1 .. Len(ring) - 1
          /\ \A i \in 1 .. Len(ring) - 1 : order'[i] = ring[i + 1]
      BY <3>1, <3>2, <2>1
    <3>4. \A i, k \in DOMAIN order' : order'[i] = order'[k] => i = k
      BY <3>3, <2>1, <2>3, SMTT(20)
    <3>5. \A q \in Pids : Holds(order', q) <=> Holds(ring, q) /\ q # ring[1]
      <4>1. ASSUME NEW q \in Pids, Holds(order', q) PROVE Holds(ring, q) /\ q # ring[1]
        BY <4>1, <3>3, <2>1, <2>3 DEF Holds
      <4>2. ASSUME NEW q \in Pids, Holds(ring, q), q # ring[1] PROVE Holds(order', q)
        <5>1. PICK i \in DOMAIN ring : ring[i] = q
          BY <4>2 DEF Holds
        <5>2. i - 1 \in DOMAIN order' /\ order'[i - 1] = q
          BY <5>1, <4>2, <3>3, <2>1
        <5> QED BY <5>2 DEF Holds
      <4> QED BY <4>1, <4>2
    <3>6. \A q \in Pids : pending'[q] # None <=> Holds(order', q)
      BY <3>1, <3>2, <3>5, <2>2, <2>4
    <3>7. pending' \in [Pids -> Jobs \cup {None}] /\ Len(order') <= MaxPending
      BY <3>1, <3>2, <3>3, <2>1, <2>4, MaxPendingAssumption
    <3> QED BY <3>3, <3>4, <3>6, <3>7 DEF RingInv
  <2>7. CASE ~(Len(ring) > MaxPending)
    <3>1. order' = ring /\ pending' = kept
      BY <2>5, <2>7
    <3>2. Len(ring) <= MaxPending
      BY <2>7, <2>1, MaxPendingAssumption
    <3> QED BY <3>1, <3>2, <2>1, <2>2, <2>3, <2>4 DEF RingInv
  <2> QED BY <2>6, <2>7
<1> QED BY <1>1, <1>2

-----------------------------------------------------------------------------
(* The type invariant and the ring.                                        *)

TypeAndRing == TypeOK /\ RingMatches

\* RingMatches is RingInv without the types.
LEMMA RingInvIs ==
  TypeOK => (RingMatches <=> RingInv(pending, order))
BY Zenon DEF TypeOK, RingMatches, RingInv

\* One step per action: TypeOK and RingMatches are inductive together.
LEMMA TypeAndRingStep ==
  TypeAndRing /\ [Next]_vars => TypeAndRing'
<1> SUFFICES ASSUME TypeOK, RingInv(pending, order), [Next]_vars
             PROVE  TypeOK' /\ RingInv(pending, order)'
  <2>1. TypeOK' => (RingMatches' <=> RingInv(pending, order)')
    BY Zenon DEF TypeOK, RingMatches, RingInv, Holds
  <2> QED BY <2>1, RingInvIs, Zenon DEF TypeAndRing
<1>1. ASSUME NEW j \in Jobs, NEW p \in Pids, Orphan(j, p)
      PROVE  TypeOK' /\ RingInv(pending, order)'
  BY <1>1, Zenon DEF Orphan, Spawn, TypeOK, RingInv, Holds, callerVars, ringVars, runVars
<1>2. ASSUME NEW j \in Jobs, NEW p \in Pids, StartCmd(j, p)
      PROVE  TypeOK' /\ RingInv(pending, order)'
  BY <1>2, Zenon DEF StartCmd, Spawn, TypeOK, RingInv, Holds, ringVars, runVars
<1>3. ASSUME NEW j \in Jobs, NEW p \in Pids, PtyStart(j, p)
      PROVE  TypeOK' /\ RingInv(pending, order)'
  BY <1>3, Zenon DEF PtyStart, Spawn, TypeOK, RingInv, Holds, ringVars, runVars
<1>4. ASSUME NEW j \in Jobs, Exit(j)
      PROVE  TypeOK' /\ RingInv(pending, order)'
  BY <1>4, Zenon DEF Exit, TypeOK, RingInv, Holds, callerVars, ringVars
<1>5. ASSUME NEW j \in Jobs, Adopt(j)
      PROVE  TypeOK' /\ RingInv(pending, order)'
  BY <1>5 DEF Adopt, TypeOK, RingInv, Holds, processVars, ringVars, runVars
<1>6. ASSUME NEW j \in Jobs, Wait(j)
      PROVE  TypeOK' /\ RingInv(pending, order)'
  <2>1. pid[j] \in Pids
    BY <1>6 DEF Wait, TypeOK
  <2>2. CASE pending[pid[j]] # None
    <3>1. forget(pid[j]) /\ Return(j, pending[pid[j]])
      BY <1>6, <2>2, Zenon DEF Wait
    <3>2. RingInv(pending, order)'
      BY <3>1, <2>1, ForgetRing, Zenon
    <3>3. /\ waiters' = [waiters EXCEPT ![pid[j]] = None]
          /\ UNCHANGED <<pid, life, chan, buffer, reaping, sigchld>>
      BY <1>6, <2>2 DEF Wait, processVars, runVars
    <3>4. pending' \in [Pids -> Jobs \cup {None}] /\ order' \in Seq(Pids)
      BY <3>2 DEF RingInv
    <3> QED BY <3>1, <3>2, <3>3, <3>4, <2>1, Zenon DEF Return, TypeOK
  <2>3. CASE pending[pid[j]] = None
    <3>1. /\ UNCHANGED <<pid, life, waiters, buffer, pending, order, reaping, sigchld>>
          /\ \/ Return(j, Lost) /\ UNCHANGED chan
             \/ /\ waiters[pid[j]] # None
                /\ chan' = [chan EXCEPT ![j] = waiters[pid[j]]]
                /\ caller' = [caller EXCEPT ![j] = "receive"]
                /\ UNCHANGED got
      BY <1>6, <2>3 DEF Wait, processVars, ringVars, runVars
    <3>2. waiters[pid[j]] # None => waiters[pid[j]] \in Jobs
      BY <2>1, Zenon DEF TypeOK
    <3>3. RingInv(pending, order)'
      BY <3>1, Zenon DEF RingInv, Holds
    <3>4. TypeOK'
      BY <3>1, <3>2, <2>1 DEF Return, TypeOK
    <3> QED BY <3>3, <3>4, Zenon
  <2> QED BY <2>2, <2>3, Zenon
<1>7. ASSUME NEW j \in Jobs, Receive(j)
      PROVE  TypeOK' /\ RingInv(pending, order)'
  <2>1. chan[j] \in Jobs
    BY <1>7, Zenon DEF Receive, TypeOK
  <2> QED BY <1>7, <2>1 DEF Receive, TypeOK, RingInv, Holds, processVars, ringVars, runVars
<1>8. ASSUME NEW j \in Jobs, Forget(j)
      PROVE  TypeOK' /\ RingInv(pending, order)'
  <2>1. pid[j] \in Pids
    BY <1>8 DEF Forget, TypeOK
  <2> QED BY <1>8, <2>1 DEF Forget, TypeOK, RingInv, Holds, processVars, ringVars, runVars
<1>9. ASSUME Wake \/ Swept
      PROVE  TypeOK' /\ RingInv(pending, order)'
  BY <1>9, Zenon DEF Wake, Swept, TypeOK, RingInv, Holds, processVars, callerVars, ringVars
<1>10. ASSUME NEW j \in Jobs, Reap(j)
       PROVE  TypeOK' /\ RingInv(pending, order)'
  <2>1. pid[j] \in Pids /\ deliver(pid[j], j)
    BY <1>10 DEF Reap, TypeOK
  <2>2. RingInv(pending, order)'
    BY <2>1, DeliverRing
  <2>3. UNCHANGED <<pid, caller, chan, got, reaping, sigchld>>
        /\ life' = [life EXCEPT ![j] = "reaped"]
    BY <1>10, Zenon DEF Reap, callerVars, runVars
  <2>4. waiters' = waiters /\ buffer' \in [Jobs -> Jobs \cup {None}]
    BY <2>1, Zenon DEF deliver, TypeOK
  <2>5. pending' \in [Pids -> Jobs \cup {None}] /\ order' \in Seq(Pids)
    BY <2>2 DEF RingInv
  <2> QED BY <2>1, <2>2, <2>3, <2>4, <2>5, Zenon DEF TypeOK
<1>11. CASE UNCHANGED vars
  BY <1>11 DEF vars, processVars, callerVars, ringVars, runVars, TypeOK, RingInv, Holds
<1> QED BY <1>1, <1>2, <1>3, <1>4, <1>5, <1>6, <1>7, <1>8, <1>9, <1>10, <1>11 DEF Next, Call, Sweep

\* The initial state satisfies both.
LEMMA TypeAndRingInit ==
  Init => TypeAndRing
<1> SUFFICES ASSUME Init PROVE TypeOK /\ RingMatches
  BY DEF TypeAndRing
<1>1. order = << >> /\ order \in Seq(Pids) /\ DOMAIN order = {} /\ Len(order) = 0
  BY DEF Init
<1>2. TypeOK
  BY <1>1, Zenon DEF Init, TypeOK
<1>3. RingMatches
  BY <1>1, MaxPendingAssumption DEF Init, RingMatches, Holds
<1> QED BY <1>2, <1>3

\* The reaper's variables keep their types: a Wait that blocks has a channel
\* to block on.
THEOREM ReaperTypeCorrect ==
  Spec => []TypeOK
<1>1. TypeAndRing => TypeOK
  BY DEF TypeAndRing
<1> QED BY <1>1, TypeAndRingInit, TypeAndRingStep, PTL DEF Spec

\* However many orphans there are and whatever pids they had, pending holds
\* at most maxPending statuses, and order names each of them once.
THEOREM RingAlwaysMatches ==
  Spec => []RingMatches
<1>1. TypeAndRing => RingMatches
  BY Zenon DEF TypeAndRing
<1> QED BY <1>1, TypeAndRingInit, TypeAndRingStep, PTL DEF Spec

-----------------------------------------------------------------------------
(* Where no pid comes round, statuses reach the right caller.              *)

(***************************************************************************)
(* The strengthening of ExactStatus: a pid names one job; the entry of a   *)
(* pid in waiters or pending is that job's; a channel carries its own      *)
(* job's status; and a caller whose process has not been reaped has its    *)
(* channel registered, which is why Wait finds nothing only when the       *)
(* status was evicted.                                                     *)
(***************************************************************************)
Exact ==
  /\ \A j, k \in Jobs : pid[j] # None /\ pid[j] = pid[k] => j = k
  /\ \A j \in Jobs : life[j] = "new" => pid[j] = None /\ caller[j] = "none"
  /\ \A p \in Pids : waiters[p] # None => pid[waiters[p]] = p
  /\ \A p \in Pids : pending[p] # None =>
       pid[pending[p]] = p /\ life[pending[p]] = "reaped"
  /\ \A j \in Jobs : buffer[j] # None => buffer[j] = j /\ life[j] = "reaped"
  /\ \A j \in Jobs : caller[j] = "receive" => chan[j] = j
  /\ \A j \in Jobs : caller[j] = "wait" /\ life[j] # "reaped" => waiters[pid[j]] = j
  /\ ExactStatus

\* One step per action.
LEMMA ExactStep ==
  ASSUME ~MayReuse
  PROVE  TypeOK /\ Exact /\ [Next]_vars => Exact'
<1> SUFFICES ASSUME TypeOK, Exact, [Next]_vars PROVE Exact'
  BY Zenon
<1> USE JobsAssumption
<1>1. ASSUME NEW j \in Jobs, NEW p \in Pids, Orphan(j, p) PROVE Exact'
  BY <1>1 DEF Orphan, Spawn, TypeOK, Exact, ExactStatus, callerVars, ringVars, runVars
<1>2. ASSUME NEW j \in Jobs, NEW p \in Pids, StartCmd(j, p) PROVE Exact'
  BY <1>2 DEF StartCmd, Spawn, TypeOK, Exact, ExactStatus, ringVars, runVars
<1>3. ASSUME NEW j \in Jobs, NEW p \in Pids, PtyStart(j, p) PROVE Exact'
  BY <1>3 DEF PtyStart, Spawn, TypeOK, Exact, ExactStatus, ringVars, runVars
<1>4. ASSUME NEW j \in Jobs, Exit(j) PROVE Exact'
  BY <1>4 DEF Exit, TypeOK, Exact, ExactStatus, callerVars, ringVars
<1>5. ASSUME NEW j \in Jobs, Adopt(j) PROVE Exact'
  BY <1>5 DEF Adopt, TypeOK, Exact, ExactStatus, processVars, ringVars, runVars
<1>6. ASSUME NEW j \in Jobs, Wait(j) PROVE Exact'
  <2>1. pid[j] \in Pids
    BY <1>6, Zenon DEF Wait, TypeOK
  <2>2. CASE pending[pid[j]] # None
    <3>1. /\ pending' = [pending EXCEPT ![pid[j]] = None]
          /\ got' = [got EXCEPT ![j] = pending[pid[j]]]
          /\ caller' = [caller EXCEPT ![j] = "done"]
          /\ waiters' = [waiters EXCEPT ![pid[j]] = None]
          /\ UNCHANGED <<pid, life, chan, buffer>>
      BY <1>6, <2>2, Zenon DEF Wait, Return, forget, processVars
    <3>2. pending[pid[j]] = j /\ life[j] = "reaped"
      BY <2>1, <2>2 DEF TypeOK, Exact
    <3> QED BY <3>1, <3>2, <2>1 DEF TypeOK, Exact, ExactStatus
  <2>3. CASE pending[pid[j]] = None
    <3>1. CASE waiters[pid[j]] = None
      <4>1. /\ got' = [got EXCEPT ![j] = Lost]
            /\ caller' = [caller EXCEPT ![j] = "done"]
            /\ UNCHANGED <<pid, life, chan, buffer, waiters, pending>>
        BY <1>6, <2>3, <3>1, Zenon DEF Wait, Return, processVars, ringVars
      <4>2. life[j] = "reaped"
        BY <1>6, <3>1, Zenon DEF Wait, Exact
      <4> QED BY <4>1, <4>2 DEF TypeOK, Exact, ExactStatus
    <3>2. CASE waiters[pid[j]] # None
      <4>1. /\ chan' = [chan EXCEPT ![j] = waiters[pid[j]]]
            /\ caller' = [caller EXCEPT ![j] = "receive"]
            /\ UNCHANGED <<pid, life, got, buffer, waiters, pending>>
        BY <1>6, <2>3, <3>2, Zenon DEF Wait, processVars, ringVars
      <4>2. waiters[pid[j]] = j
        BY <3>2, <2>1 DEF TypeOK, Exact
      <4>3. \A k \in Jobs : caller'[k] = "receive" => chan'[k] = k
        BY <4>1, <4>2, Zenon DEF TypeOK, Exact
      <4>4. \A k \in Jobs : /\ caller'[k] = "wait" => caller[k] = "wait"
                           /\ life[k] = "new" => caller'[k] = "none"
        BY <1>6, <4>1, Zenon DEF Wait, TypeOK, Exact
      <4> QED BY <4>1, <4>3, <4>4 DEF Exact, ExactStatus
    <3> QED BY <3>1, <3>2, Zenon
  <2> QED BY <2>2, <2>3, Zenon
<1>7. ASSUME NEW j \in Jobs, Receive(j) PROVE Exact'
  BY <1>7 DEF Receive, TypeOK, Exact, ExactStatus, processVars, ringVars, runVars
<1>8. ASSUME NEW j \in Jobs, Forget(j) PROVE Exact'
  BY <1>8 DEF Forget, TypeOK, Exact, ExactStatus, processVars, ringVars, runVars
<1>9. ASSUME Wake \/ Swept PROVE Exact'
  BY <1>9 DEF Wake, Swept, Exact, ExactStatus, processVars, callerVars, ringVars
<1>10. ASSUME NEW j \in Jobs, Reap(j) PROVE Exact'
  <2>1. pid[j] \in Pids /\ life' = [life EXCEPT ![j] = "reaped"]
        /\ UNCHANGED <<pid, caller, chan, got, waiters>>
    BY <1>10 DEF Reap, deliver, TypeOK, callerVars
  <2>a. deliver(pid[j], j)
    BY <1>10, Zenon DEF Reap
  <2>2. \A p \in Pids : pending'[p] # None =>
          pending'[p] = pending[p] \/ (p = pid[j] /\ pending'[p] = j)
    <3>1. \/ pending' = pending
          \/ pending' = [pending EXCEPT ![pid[j]] = j]
          \/ \E h : pending' = [[pending EXCEPT ![pid[j]] = j] EXCEPT ![h] = None]
      BY <2>a, Zenon DEF deliver, ringVars
    <3>2. pending \in [Pids -> Jobs \cup {None}]
      BY Zenon DEF TypeOK
    <3>3. ASSUME NEW h, pending' = [[pending EXCEPT ![pid[j]] = j] EXCEPT ![h] = None],
                 NEW p \in Pids, pending'[p] # None
          PROVE  pending'[p] = pending[p] \/ (p = pid[j] /\ pending'[p] = j)
      <4>1. DOMAIN pending = Pids
        BY <3>2, Zenon
      <4>2. pending'[p] = IF p = h THEN None ELSE IF p = pid[j] THEN j ELSE pending[p]
        BY <3>3, <4>1, Zenon
      <4> QED BY <3>3, <4>2
    <3>4. ASSUME pending' = [pending EXCEPT ![pid[j]] = j], NEW p \in Pids
          PROVE  pending'[p] = pending[p] \/ (p = pid[j] /\ pending'[p] = j)
      BY <3>2, <3>4
    <3>5. ASSUME pending' = pending, NEW p \in Pids PROVE pending'[p] = pending[p]
      BY <3>5, Zenon
    <3> QED BY <3>1, <3>3, <3>4, <3>5, Zenon
  <2>3. \A k \in Jobs : buffer'[k] # None =>
          buffer'[k] = buffer[k] \/ (k = waiters[pid[j]] /\ buffer'[k] = j)
    <3>1. \/ buffer' = buffer
          \/ waiters[pid[j]] # None /\ buffer' = [buffer EXCEPT ![waiters[pid[j]]] = j]
      BY <2>a, Zenon DEF deliver
    <3>2. DOMAIN buffer = Jobs
      BY Zenon DEF TypeOK
    <3>3. ASSUME buffer' = [buffer EXCEPT ![waiters[pid[j]]] = j], NEW k \in Jobs
          PROVE  buffer'[k] = buffer[k] \/ (k = waiters[pid[j]] /\ buffer'[k] = j)
      BY <3>2, <3>3
    <3>4. ASSUME buffer' = buffer, NEW k \in Jobs PROVE buffer'[k] = buffer[k]
      BY <3>4, Zenon
    <3> QED BY <3>1, <3>3, <3>4, Zenon
  <2>4. waiters[pid[j]] # None => waiters[pid[j]] = j
    BY <2>1 DEF TypeOK, Exact
  <2> QED BY <2>1, <2>2, <2>3, <2>4 DEF TypeOK, Exact, ExactStatus
<1>11. CASE UNCHANGED vars
  BY <1>11 DEF vars, processVars, callerVars, ringVars, runVars, Exact, ExactStatus
<1> QED BY <1>1, <1>2, <1>3, <1>4, <1>5, <1>6, <1>7, <1>8, <1>9, <1>10, <1>11 DEF Next, Call, Sweep

\* As long as no pid comes round, no caller of Wait is given the status of
\* another process, nor an answer before its own has exited.
THEOREM OwnStatus ==
  ASSUME ~MayReuse
  PROVE  Spec => []ExactStatus
<1>1. Init => Exact
  BY Zenon DEF Init, Exact, ExactStatus
<1>2. Exact => ExactStatus
  BY DEF Exact
<1>3. TypeOK /\ Exact /\ [Next]_vars => Exact'
  BY ExactStep, Zenon
<1> QED BY <1>1, <1>2, <1>3, ReaperTypeCorrect, PTL DEF Spec

(***************************************************************************)
(* The strengthening of NothingLeft: a pid is in waiters or in pending but *)
(* not in both, a caller that blocks or is about to clean up still has its *)
(* entry, and nobody is done before its process was collected.             *)
(***************************************************************************)
Tidy ==
  /\ \A p \in Pids : waiters[p] # None => pending[p] = None
  /\ \A j \in Jobs : caller[j] \in {"receive", "forget"} => waiters[pid[j]] = j
  /\ \A j \in Jobs : caller[j] \in {"forget", "done"} => life[j] = "reaped"
  /\ NothingLeft

\* One step per action.
LEMMA TidyStep ==
  ASSUME ~MayReuse
  PROVE  TypeOK /\ Exact /\ Tidy /\ [Next]_vars => Tidy'
<1> SUFFICES ASSUME TypeOK, Exact, Tidy, [Next]_vars PROVE Tidy'
  BY Zenon
<1> USE JobsAssumption
<1>1. ASSUME NEW j \in Jobs, NEW p \in Pids, Orphan(j, p) PROVE Tidy'
  BY <1>1 DEF Orphan, Spawn, TypeOK, Exact, Tidy, NothingLeft, callerVars, ringVars
<1>2. ASSUME NEW j \in Jobs, NEW p \in Pids, StartCmd(j, p) PROVE Tidy'
  BY <1>2 DEF StartCmd, Spawn, TypeOK, Exact, Tidy, NothingLeft, ringVars
<1>3. ASSUME NEW j \in Jobs, NEW p \in Pids, PtyStart(j, p) PROVE Tidy'
  BY <1>3 DEF PtyStart, Spawn, TypeOK, Exact, Tidy, NothingLeft, ringVars
<1>4. ASSUME NEW j \in Jobs, Exit(j) PROVE Tidy'
  BY <1>4 DEF Exit, TypeOK, Exact, Tidy, NothingLeft, callerVars, ringVars
<1>5. ASSUME NEW j \in Jobs, Adopt(j) PROVE Tidy'
  BY <1>5 DEF Adopt, TypeOK, Exact, Tidy, NothingLeft, processVars, ringVars
<1>6. ASSUME NEW j \in Jobs, Wait(j) PROVE Tidy'
  <2>1. pid[j] \in Pids /\ caller[j] = "wait"
    BY <1>6, Zenon DEF Wait, TypeOK
  <2>2. CASE pending[pid[j]] # None
    <3>1. /\ pending' = [pending EXCEPT ![pid[j]] = None]
          /\ caller' = [caller EXCEPT ![j] = "done"]
          /\ waiters' = [waiters EXCEPT ![pid[j]] = None]
          /\ UNCHANGED <<pid, life>>
      BY <1>6, <2>2, Zenon DEF Wait, Return, forget, processVars
    <3>2. life[j] = "reaped"
      BY <2>1, <2>2 DEF TypeOK, Exact
    <3> QED BY <3>1, <3>2, <2>1 DEF TypeOK, Exact, Tidy, NothingLeft
  <2>3. CASE pending[pid[j]] = None
    <3>1. UNCHANGED <<pid, life, waiters, pending>>
      BY <1>6, <2>3, Zenon DEF Wait, processVars, ringVars
    <3>2. CASE waiters[pid[j]] = None
      <4>1. caller' = [caller EXCEPT ![j] = "done"]
        BY <1>6, <2>3, <3>2, Zenon DEF Wait, Return
      <4>2. life[j] = "reaped"
        BY <2>1, <3>2, Zenon DEF Exact
      <4> QED BY <2>1, <2>3, <3>1, <3>2, <4>1, <4>2, Zenon DEF TypeOK, Tidy, NothingLeft
    <3>3. CASE waiters[pid[j]] # None
      <4>1. caller' = [caller EXCEPT ![j] = "receive"]
        BY <1>6, <2>3, <3>3, Zenon DEF Wait
      <4>2. waiters[pid[j]] = j
        BY <2>1, <3>3 DEF TypeOK, Exact
      <4> QED BY <2>1, <3>1, <4>1, <4>2, Zenon DEF TypeOK, Tidy, NothingLeft
    <3> QED BY <3>2, <3>3, Zenon
  <2> QED BY <2>2, <2>3, Zenon
<1>7. ASSUME NEW j \in Jobs, Receive(j) PROVE Tidy'
  <2>1. life[j] = "reaped"
    BY <1>7, Zenon DEF Receive, TypeOK, Exact
  <2> QED BY <1>7, <2>1, Zenon DEF Receive, TypeOK, Tidy, NothingLeft, processVars, ringVars
<1>8. ASSUME NEW j \in Jobs, Forget(j) PROVE Tidy'
  <2>1. pid[j] \in Pids /\ waiters[pid[j]] = j /\ pending[pid[j]] = None /\ life[j] = "reaped"
    BY <1>8, Zenon DEF Forget, TypeOK, Tidy
  <2> QED BY <1>8, <2>1 DEF Forget, TypeOK, Exact, Tidy, NothingLeft, processVars, ringVars
<1>9. ASSUME Wake \/ Swept PROVE Tidy'
  BY <1>9, Zenon DEF Wake, Swept, Tidy, NothingLeft, processVars, callerVars, ringVars
<1>10. ASSUME NEW j \in Jobs, Reap(j) PROVE Tidy'
  <2>1. /\ pid[j] \in Pids /\ life[j] = "zombie" /\ life' = [life EXCEPT ![j] = "reaped"]
        /\ UNCHANGED <<pid, caller, waiters>> /\ deliver(pid[j], j)
    BY <1>10, Zenon DEF Reap, deliver, TypeOK, callerVars
  <2>2. ASSUME NEW p \in Pids, waiters[p] # None \/ p # pid[j], pending[p] = None
        PROVE  pending'[p] = None
    <3>1. \/ pending' = pending
          \/ /\ waiters[pid[j]] = None
             /\ \/ pending' = [pending EXCEPT ![pid[j]] = j]
                \/ \E h : pending' = [[pending EXCEPT ![pid[j]] = j] EXCEPT ![h] = None]
      BY <2>1, Zenon DEF deliver, ringVars
    <3>2. DOMAIN pending = Pids
      BY Zenon DEF TypeOK
    <3> QED BY <2>1, <2>2, <3>1, <3>2, Zenon
  <2>3. \A k \in Jobs : caller[k] = "done" => pid[k] \in Pids /\ pid[k] # pid[j]
    BY <2>1 DEF TypeOK, Exact, Tidy
  <2> QED BY <2>1, <2>2, <2>3, Zenon DEF TypeOK, Tidy, NothingLeft
<1>11. CASE UNCHANGED vars
  BY <1>11, Zenon DEF vars, processVars, callerVars, ringVars, Tidy, NothingLeft
<1> QED BY <1>1, <1>2, <1>3, <1>4, <1>5, <1>6, <1>7, <1>8, <1>9, <1>10, <1>11 DEF Next, Call, Sweep

\* As long as no pid comes round, a Wait that has returned has left neither a
\* channel nor a status behind, whatever was delivered while it blocked.
THEOREM WaitLeavesNothing ==
  ASSUME ~MayReuse
  PROVE  Spec => []NothingLeft
<1>1. Init => Exact /\ Tidy
  BY Zenon DEF Init, Exact, ExactStatus, Tidy, NothingLeft
<1>2. Tidy => NothingLeft
  BY Zenon DEF Tidy
<1>3. TypeOK /\ Exact /\ [Next]_vars => Exact'
  BY ExactStep
<1>4. TypeOK /\ Exact /\ Tidy /\ [Next]_vars => Tidy'
  BY TidyStep
<1> QED BY <1>1, <1>2, <1>3, <1>4, ReaperTypeCorrect, PTL DEF Spec
=============================================================================
