-------------------------------- MODULE Execd --------------------------------
(***************************************************************************)
(* jdix-execd inside a Pod: pkg/execd/server.go, sandbox.go and proxy.go,  *)
(* the main of cmd/jdix-execd, and as much of jdix-init as bind depends on *)
(* (Listen and handleConfigure of pkg/initd/server.go).                    *)
(*                                                                         *)
(* Handlers run concurrently and hold Server.mu only where the code does,  *)
(* so a bind is cut at every point where it is not held.  Each bind starts *)
(* a sandbox process of its own, but every jdix-init listens on the same   *)
(* socket path.  A deadline is the number of ticks left until it.          *)
(***************************************************************************)
EXTENDS Integers, FiniteSets

CONSTANTS
  Calls,       \* bind requests, each with its own token
  NoCall,
  SandboxID,   \* the sandbox each request names (a retry names the same)
  TTL,         \* TTLSeconds of each request; 0 is no deadline
  Asks,        \* what keepalives ask for; 0 also for what does not parse
  DefaultExtend,  \* what one that asks for nothing gets
  Overlap      \* control-plane requests may overlap

ASSUME CallsAssumption == NoCall \notin Calls
ASSUME TTLAssumption == TTL \in [Calls -> Nat]
ASSUME ExtendAssumption == Asks \subseteq Int /\ DefaultExtend \in Nat \ {0}
ASSUME OverlapAssumption == Overlap \in BOOLEAN

VARIABLES
  call,        \* per request: where handleBind is
  proc,        \* per request: the sandbox process it started
  configured,  \* per sandbox process: whose configuration it took
  socket,      \* the process the socket path leads to
  sb,          \* Server.sb
  expired,     \* Server.expired
  expiresAt,   \* sandbox.expiresAt, as the time left until it
  timed,       \* sandboxes whose ttlTimer is not nil
  armed,       \* timers running
  firing,      \* timers that went off; their expire waits for the lock
  teardown,    \* the expire that won: the sandbox it is stopping
  renewing,    \* the sandbox a keepalive in flight was authorised for
  down         \* main: serving, draining or exited

procVars == <<proc, configured, socket>>
timerVars == <<timed, armed, firing>>
execdVars == <<call, procVars, sb, expired, expiresAt, timerVars, teardown,
          renewing, down>>

\* expiresAt is the zero time.
Never == -1

InFlight == {"launch", "wait", "configure", "publish", "stop"}
Replies == {"ok", "already_bound", "gone", "bind_failed", "configure_failed"}

NoTeardown == [by |-> "nobody", of |-> NoCall]

ExecdTypeOK ==
  /\ call \in [Calls -> {"unsent"} \cup InFlight \cup Replies]
  /\ proc \in [Calls -> {"none", "starting", "listening", "crashed", "dead"}]
  /\ configured \in [Calls -> Calls \cup {NoCall}]
  /\ socket \in Calls \cup {NoCall}
  /\ sb \in Calls \cup {NoCall}
  /\ expired \in BOOLEAN
  /\ expiresAt \in [Calls -> Nat \cup {Never}]
  /\ timed \subseteq Calls /\ armed \subseteq Calls /\ firing \subseteq Calls
  /\ teardown \in [by: {"nobody", "ttl", "unbind"}, of: Calls \cup {NoCall}]
  /\ renewing \in Calls \cup {NoCall}
  /\ down \in {"no", "draining", "exited"}

ExecdInit ==
  /\ call = [c \in Calls |-> "unsent"]
  /\ proc = [c \in Calls |-> "none"]
  /\ configured = [c \in Calls |-> NoCall]
  /\ socket = NoCall /\ sb = NoCall /\ expired = FALSE
  /\ expiresAt = [c \in Calls |-> Never]
  /\ timed = {} /\ armed = {} /\ firing = {}
  /\ teardown = NoTeardown /\ renewing = NoCall
  /\ down = "no"

Running == down # "exited"

\* Nothing else is being done for the control plane.
ControlIdle ==
  /\ \A c \in Calls : call[c] \notin InFlight
  /\ teardown.by # "unbind"

ControlRequest == down = "no" /\ (Overlap \/ ControlIdle)

Goto(c, l) == call' = [call EXCEPT ![c] = l]

-----------------------------------------------------------------------------
(* handleBind and launch.                                                  *)

\* Mutant: the check for an earlier bind is gone.
BindUnchecked(c) ==
  /\ ControlRequest /\ call[c] = "unsent"
  /\ Goto(c, IF expired THEN "gone" ELSE "launch")
  /\ UNCHANGED <<procVars, sb, expired, expiresAt, timerVars, teardown, renewing, down>>

\* The two checks at the top, under the lock.
Bind(c) ==
  /\ ControlRequest /\ call[c] = "unsent"
  /\ Goto(c, IF sb # NoCall THEN "already_bound" ELSE IF expired THEN "gone" ELSE "launch")
  /\ UNCHANGED <<procVars, sb, expired, expiresAt, timerVars, teardown, renewing, down>>

\* launch starts the process, or refuses the request or fails to.
Launch(c) ==
  /\ Running /\ call[c] = "launch"
  /\ \/ Goto(c, "wait") /\ proc' = [proc EXCEPT ![c] = "starting"]
     \/ Goto(c, "bind_failed") /\ UNCHANGED proc
  /\ UNCHANGED <<configured, socket, sb, expired, expiresAt, timerVars, teardown,
                 renewing, down>>

\* jdix-init: Listen removes whatever socket is there and makes its own.
InitListens(c) ==
  /\ proc[c] = "starting"
  /\ proc' = [proc EXCEPT ![c] = "listening"]
  /\ socket' = c
  /\ UNCHANGED <<call, configured, sb, expired, expiresAt, timerVars, teardown,
                 renewing, down>>

InitCrashes(c) ==
  /\ proc[c] \in {"starting", "listening"}
  /\ proc' = [proc EXCEPT ![c] = "crashed"]
  /\ UNCHANGED <<call, configured, socket, sb, expired, expiresAt, timerVars, teardown,
                 renewing, down>>

Reachable == socket # NoCall /\ proc[socket] = "listening"

\* waitForSocket dials the path, whoever listens there.
SocketUp(c) ==
  /\ Running /\ call[c] = "wait" /\ Reachable
  /\ Goto(c, "configure")
  /\ expiresAt' = [expiresAt EXCEPT ![c] = IF TTL[c] > 0 THEN TTL[c] ELSE Never]
  /\ UNCHANGED <<procVars, sb, expired, timerVars, teardown, renewing, down>>

Kill(c) == proc' = [proc EXCEPT ![c] = "dead"]

\* Mutant: a sandbox that did not come up in time is left running.
SocketTimesOutOnly(c) ==
  /\ Running /\ call[c] = "wait"
  /\ Goto(c, "bind_failed")
  /\ UNCHANGED <<procVars, sb, expired, expiresAt, timerVars,
                 teardown, renewing, down>>

SocketTimesOut(c) ==
  /\ Running /\ call[c] = "wait"
  /\ Goto(c, "bind_failed")
  /\ Kill(c)
  /\ UNCHANGED <<configured, socket, sb, expired, expiresAt, timerVars,
                 teardown, renewing, down>>

\* jdix-init takes a configuration once (handleConfigure).
Configurable == Reachable /\ configured[socket] = NoCall

\* configureInit; it may also fail after the configuration was taken (its
\* deadline, or a caller that has gone).
Configure(c) ==
  /\ Running /\ call[c] = "configure"
  /\ \/ /\ Configurable
        /\ configured' = [configured EXCEPT ![socket] = c]
        /\ Goto(c, "publish") \/ Goto(c, "stop")
     \/ Goto(c, "stop") /\ UNCHANGED configured
  /\ UNCHANGED <<proc, socket, sb, expired, expiresAt, timerVars, teardown,
                 renewing, down>>

\* sb.stop returns, at the latest with a SIGKILL after GraceKill.
StopUnconfigured(c) ==
  /\ Running /\ call[c] = "stop"
  /\ Goto(c, "configure_failed")
  /\ Kill(c)
  /\ UNCHANGED <<configured, socket, sb, expired, expiresAt, timerVars, teardown,
                 renewing, down>>

\* The second critical section; neither sb nor expired is looked at again.
Publish(c) ==
  /\ Running /\ call[c] = "publish"
  /\ Goto(c, "ok")
  /\ sb' = c
  /\ IF expiresAt[c] # Never
     THEN timed' = timed \cup {c} /\ armed' = armed \cup {c}
     ELSE UNCHANGED <<timed, armed>>
  /\ UNCHANGED <<procVars, expired, expiresAt, firing, teardown, renewing, down>>

-----------------------------------------------------------------------------
(* expire, from handleUnbind or from the timer.                            *)

\* Mutant: the sandbox stays published while it is being stopped.
MarkExpiredOnly(reason) ==
  IF expired
  THEN UNCHANGED <<sb, expired, teardown>>
  ELSE /\ expired' = TRUE
       /\ teardown' = [by |-> reason, of |-> sb]
       /\ UNCHANGED sb

\* The critical section of expire.
MarkExpired(reason) ==
  IF expired
  THEN UNCHANGED <<sb, expired, teardown>>
  ELSE /\ expired' = TRUE
       /\ sb' = NoCall
       /\ teardown' = [by |-> reason, of |-> sb]

Unbind ==
  /\ ControlRequest
  /\ MarkExpired("unbind")
  /\ UNCHANGED <<call, procVars, expiresAt, timerVars, renewing, down>>

TimerFires(c) ==
  /\ Running /\ c \in armed /\ expiresAt[c] = 0
  /\ armed' = armed \ {c}
  /\ firing' = firing \cup {c}
  /\ UNCHANGED <<call, procVars, sb, expired, expiresAt, timed, teardown, renewing, down>>

ExpireTTL(c) ==
  /\ Running /\ c \in firing
  /\ firing' = firing \ {c}
  /\ MarkExpired("ttl")
  /\ UNCHANGED <<call, procVars, expiresAt, timed, armed, renewing, down>>

\* Mutant: onExpire is called only when there was a sandbox to stop.
TeardownBoundOnly ==
  /\ Running /\ teardown # NoTeardown
  /\ teardown' = NoTeardown
  /\ IF teardown.of = NoCall
     THEN UNCHANGED <<proc, armed, down>>
     ELSE Kill(teardown.of) /\ armed' = armed \ {teardown.of} /\ down' = "draining"
  /\ UNCHANGED <<call, configured, socket, sb, expired, expiresAt, timed, firing,
                 renewing>>

\* stop has returned, and onExpire tells main.
Teardown ==
  /\ Running /\ teardown # NoTeardown
  /\ teardown' = NoTeardown
  /\ IF teardown.of = NoCall
     THEN UNCHANGED <<proc, armed>>
     ELSE Kill(teardown.of) /\ armed' = armed \ {teardown.of}
  /\ down' = "draining"
  /\ UNCHANGED <<call, configured, socket, sb, expired, expiresAt, timed, firing,
                 renewing>>

-----------------------------------------------------------------------------
(* keepalive, and main.                                                    *)

\* requireSandbox, on the data plane: the token is sb's, the deadline is not
\* over.
KeepaliveAuthorised ==
  /\ down = "no" /\ renewing = NoCall /\ sb # NoCall
  /\ expiresAt[sb] # 0
  /\ renewing' = sb
  /\ UNCHANGED <<call, procVars, sb, expired, expiresAt, timerVars, teardown, down>>

Renewal(ask) == IF ask <= 0 THEN DefaultExtend ELSE ask

\* Mutant: the deadline moves and the timer does not.
KeepaliveNoReset ==
  /\ Running /\ renewing # NoCall
  /\ renewing' = NoCall
  /\ IF sb # NoCall /\ SandboxID[sb] = SandboxID[renewing]
     THEN /\ \E ask \in Asks : expiresAt' = [expiresAt EXCEPT ![sb] = Renewal(ask)]
          /\ armed' = armed \ {sb}
     ELSE UNCHANGED <<expiresAt, armed>>
  /\ UNCHANGED <<call, procVars, sb, expired, timed, firing, teardown, down>>

\* keepalive itself: Reset starts the timer again, whether or not it went off.
Keepalive ==
  /\ Running /\ renewing # NoCall
  /\ renewing' = NoCall
  /\ IF sb # NoCall /\ SandboxID[sb] = SandboxID[renewing]
     THEN /\ \E ask \in Asks : expiresAt' = [expiresAt EXCEPT ![sb] = Renewal(ask)]
          /\ armed' = IF sb \in timed THEN armed \cup {sb} ELSE armed
     ELSE UNCHANGED <<expiresAt, armed>>
  /\ UNCHANGED <<call, procVars, sb, expired, timed, firing, teardown, down>>

\* SIGTERM from the kubelet.
ShutDown ==
  /\ down = "no"
  /\ down' = "draining"
  /\ UNCHANGED <<call, procVars, sb, expired, expiresAt, timerVars, teardown, renewing>>

\* Shutdown waits for handlers up to ten seconds; what bwrap started dies with
\* its parent.
ExitProcess ==
  /\ down = "draining"
  /\ down' = "exited"
  /\ proc' = [c \in Calls |-> IF proc[c] = "none" THEN "none" ELSE "dead"]
  /\ UNCHANGED <<call, configured, socket, sb, expired, expiresAt, timerVars, teardown,
                 renewing>>

Tick ==
  /\ Running
  /\ expiresAt' = [c \in Calls |-> IF expiresAt[c] > 0 THEN expiresAt[c] - 1 ELSE expiresAt[c]]
  /\ UNCHANGED <<call, procVars, sb, expired, timerVars, teardown, renewing, down>>

-----------------------------------------------------------------------------

BindStep(c) ==
  \/ Launch(c) \/ SocketUp(c) \/ SocketTimesOut(c) \/ Configure(c)
  \/ StopUnconfigured(c) \/ Publish(c)

ExecdNext ==
  \/ \E c \in Calls : \/ Bind(c) \/ BindStep(c) \/ InitListens(c) \/ InitCrashes(c)
                      \/ TimerFires(c) \/ ExpireTTL(c)
  \/ Unbind \/ Teardown \/ KeepaliveAuthorised \/ Keepalive
  \/ ShutDown \/ ExitProcess \/ Tick

ExecdSpec == ExecdInit /\ [][ExecdNext]_execdVars

\* The runtime runs ready goroutines and fires due timers, time passes, and
\* Shutdown has a timeout.  Clients and processes promise nothing.
Fairness ==
  /\ \A c \in Calls : WF_execdVars(BindStep(c)) /\ WF_execdVars(TimerFires(c)) /\ WF_execdVars(ExpireTTL(c))
  /\ WF_execdVars(Teardown) /\ WF_execdVars(ExitProcess) /\ WF_execdVars(Tick)

ExecdFairSpec == ExecdSpec /\ Fairness

-----------------------------------------------------------------------------
(* Properties.                                                             *)

OneShot == INSTANCE OneShotExecd WITH serving <- sb, spent <- expired

\* When the control plane sends one request at a time, execd serves one bind
\* and is spent after it, whatever timers, keepalives and crashes do
\* (handleBind, expire).
ImplementsOneShotExecd == OneShot!Spec

\* What is published is usable and is its own: the socket leads to the
\* process that bind started, and that process holds that bind's
\* configuration ("a 200 from /internal/v1/bind genuinely means ready").
BoundIsReady ==
  sb # NoCall /\ Running =>
    proc[sb] = "crashed" \/ (Reachable /\ socket = sb /\ configured[sb] = sb)

Alive(c) == proc[c] \in {"starting", "listening"}

\* Every sandbox process has someone left who will stop it: the bind that
\* started it, the published sandbox, or the expire under way (launch's error
\* paths, stop).
EveryProcessHeld ==
  \A c \in Calls :
    Alive(c) => call[c] \in InFlight \/ sb = c \/ teardown.of = c

\* Why one request at a time is enough: while a bind is in flight nothing is
\* published, expired or timed, so what it found at its first critical
\* section still holds at its second, and the socket can only be its own
\* (handleBind does not look again).
Orderly ==
  /\ \A c, d \in Calls : call[c] \in InFlight /\ call[d] \in InFlight => c = d
  /\ \A c \in Calls : call[c] \in InFlight => sb = NoCall /\ ~expired
  /\ \A c \in Calls : call[c] = "ok" => sb = c \/ expired
  /\ \A c \in timed \cup armed \cup firing \cup ({sb, teardown.of} \ {NoCall}) : call[c] = "ok"
  /\ teardown # NoTeardown => expired
  /\ expired => sb = NoCall
  /\ \A c \in Calls : Alive(c) => /\ Running
                                  /\ \/ call[c] \in InFlight \ {"launch"}
                                     \/ sb = c \/ teardown.of = c
  /\ \A c \in Calls :
       call[c] = "publish" \/ sb = c =>
         socket = c /\ configured[c] = c /\ (proc[c] \in {"listening", "crashed"} \/ ~Running)

\* A Pod that was told to expire goes (expire, onExpire and main).
ExpiryEndsPod == expired ~> down = "exited"

\* "A sandbox that outlives its TTL is the platform's number one leak, so the
\* Pod terminates itself" (cmd/jdix-execd): a sandbox bound with a TTL is
\* ended by it, unless it is extended for ever.
DeadlineEndsPod ==
  \/ []<><<Keepalive>>_execdVars
  \/ \A c \in Calls : (sb = c /\ TTL[c] > 0) ~> down = "exited"

-----------------------------------------------------------------------------
(* What comments of the code say and interleavings refute.                 *)

\* expire "tears the sandbox down and marks the Pod unusable".
UnusableOnceExpired == expired => sb = NoCall

\* "keepalive extends the TTL": the TTL does not end a sandbox before the
\* deadline it was last given.
KeepaliveHonoured ==
  [][\A c \in Calls :
       ExpireTTL(c) /\ ~expired /\ sb # NoCall => expiresAt[sb] = 0]_execdVars

\* cmd/jdix-execd's sentence again, of every sandbox that has a deadline: also
\* of one that got it from a keepalive.
AnyDeadlineEndsPod ==
  \/ []<><<Keepalive>>_execdVars
  \/ \A c \in Calls : (sb = c /\ expiresAt[c] # Never) ~> down = "exited"

\* docs/NFS-CSI-FILESYSTEM-ISOLATION.md: an abnormal end of the platform or of
\* initd is terminal too, and the Pod exits.
CrashEndsPod == \A c \in Calls : (sb = c /\ proc[c] = "crashed") ~> down = "exited"
=============================================================================
