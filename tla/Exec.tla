-------------------------------- MODULE Exec --------------------------------
(***************************************************************************)
(* Running commands in the sandbox: handleExec, handleExecStream,          *)
(* handlePTY, readControl and enforceDeadline of pkg/initd, with the       *)
(* process table of proc.go.                                               *)
(*                                                                         *)
(* A command is a process group: the leader jdix-init started, and perhaps *)
(* one descendant it leaves behind.  A handler waits for the leader (the   *)
(* Reaper module says why that wait returns), then for its output to end;  *)
(* beside it runs a goroutine that enforces the deadline.                  *)
(***************************************************************************)
EXTENDS Naturals

CONSTANTS
  Sessions,
  Requests     \* what clients ask for: the form, and what the command leaves
               \* behind: "nothing", or a descendant of its group with
               \* ("piped") or without ("detached") its output

ASSUME RequestsAssumption ==
  Requests \subseteq [form: {"sync", "stream", "pty"},
                      leaves: {"nothing", "piped", "detached"}]

VARIABLES
  request,     \* what the session's client asks for
  handler,     \* where the handler is
  leader,      \* the process it started
  child,       \* the descendant
  ctx,         \* the request's context
  entry,       \* the pid's entry of the process table
  enforcer,    \* the enforceDeadline goroutine
  client,      \* whether the client is connected, and what it was told
  stdin        \* the command's standard input

execVars == <<request, handler, leader, child, ctx, entry, enforcer, client, stdin>>

Process == {"none", "running", "exited"}

ExecTypeOK ==
  /\ request \in [Sessions -> Requests]
  /\ handler \in [Sessions -> {"unsent", "waiting", "draining", "done"}]
  /\ leader \in [Sessions -> Process]
  /\ child \in [Sessions -> Process]
  /\ ctx \in [Sessions -> {"live", "deadline", "cancelled"}]
  /\ entry \in [Sessions -> {"none", "running", "done"}]
  /\ enforcer \in [Sessions -> {"none", "armed", "grace", "finished"}]
  /\ client \in [Sessions -> {"connected", "gone", "told"}]
  /\ stdin \in [Sessions -> {"open", "eof_sent", "eof_read", "closed"}]

ExecInit ==
  /\ request \in [Sessions -> Requests]
  /\ handler = [e \in Sessions |-> "unsent"]
  /\ leader = [e \in Sessions |-> "none"]
  /\ child = [e \in Sessions |-> "none"]
  /\ ctx = [e \in Sessions |-> "live"]
  /\ entry = [e \in Sessions |-> "none"]
  /\ enforcer = [e \in Sessions |-> "none"]
  /\ client = [e \in Sessions |-> "connected"]
  /\ stdin = [e \in Sessions |-> "open"]

Set(f, e, v) == [f EXCEPT ![e] = v]

-----------------------------------------------------------------------------
(* The processes.                                                          *)

Fork(e) ==
  /\ leader[e] = "running" /\ child[e] = "none" /\ request[e].leaves # "nothing"
  /\ child' = Set(child, e, "running")
  /\ UNCHANGED <<request, handler, leader, ctx, entry, enforcer, client, stdin>>

LeaderExits(e) ==
  /\ leader[e] = "running"
  /\ leader' = Set(leader, e, "exited")
  /\ UNCHANGED <<request, handler, child, ctx, entry, enforcer, client, stdin>>

ChildExits(e) ==
  /\ child[e] = "running"
  /\ child' = Set(child, e, "exited")
  /\ UNCHANGED <<request, handler, leader, ctx, entry, enforcer, client, stdin>>

AfterKill(was) == IF was = "running" THEN "exited" ELSE was

\* kill(-pid, SIGKILL).
KillGroup(e) ==
  /\ leader' = Set(leader, e, AfterKill(leader[e]))
  /\ child' = Set(child, e, AfterKill(child[e]))

\* kill(-pid, sig) of a signal each process may survive; without effect on a
\* group that is gone.
SignalGroup(e) ==
  /\ leader' \in {leader, Set(leader, e, AfterKill(leader[e]))}
  /\ child' \in {child, Set(child, e, AfterKill(child[e]))}

-----------------------------------------------------------------------------
(* The process table.                                                      *)

addPID(e) == entry' = Set(entry, e, "running")
finish(e) == entry' = Set(entry, e, "done")
forgetPID(e) == entry' = Set(entry, e, "none")

\* status: done, and exists.
HasExited(e) == entry[e] = "done"
StillRuns(e) == entry[e] = "running"

-----------------------------------------------------------------------------
(* The handler.                                                            *)

\* start, or the PTY path: the process runs, its entry and its enforcer exist.
Start(e) ==
  /\ handler[e] = "unsent"
  /\ handler' = Set(handler, e, "waiting")
  /\ leader' = Set(leader, e, "running")
  /\ addPID(e)
  /\ enforcer' = Set(enforcer, e, "armed")
  /\ UNCHANGED <<request, child, ctx, client, stdin>>

\* Mutant: finish before Wait.
FinishWithoutWait(e) ==
  /\ handler[e] = "waiting"
  /\ handler' = Set(handler, e, "draining")
  /\ finish(e)
  /\ UNCHANGED <<request, leader, child, ctx, enforcer, client, stdin>>

\* reaper.Wait returns, and finish.
WaitAndFinish(e) ==
  /\ handler[e] = "waiting" /\ leader[e] = "exited"
  /\ handler' = Set(handler, e, "draining")
  /\ finish(e)
  /\ UNCHANGED <<request, leader, child, ctx, enforcer, client, stdin>>

\* Mutant: handlePTY waits for the output before it closes the terminal.
DrainedAtEof(e) == child[e] = "running" => request[e].leaves = "detached"

\* The output ends when nobody holds it; handlePTY closes the terminal first.
Drained(e) == (child[e] = "running" => request[e].leaves = "detached") \/ request[e].form = "pty"

\* The deferred calls: forget, and cancel after it.
RunDeferred(e) ==
  /\ handler' = Set(handler, e, "done")
  /\ forgetPID(e)
  /\ ctx' = IF ctx[e] = "live" THEN Set(ctx, e, "cancelled") ELSE ctx
  /\ UNCHANGED <<request, leader, child, enforcer, stdin>>

\* The result is written, or the exit frame sent with ctx.
Reply(e) ==
  /\ handler[e] = "draining" /\ Drained(e)
  /\ client' = IF client[e] = "connected" /\ (request[e].form = "sync" \/ ctx[e] = "live")
               THEN Set(client, e, "told") ELSE client
  /\ RunDeferred(e)

\* A pump that reads something it can no longer send gives up.
AbandonOutput(e) ==
  /\ handler[e] = "draining" /\ request[e].form = "stream" /\ ~Drained(e)
  /\ ctx[e] # "live" \/ client[e] = "gone"
  /\ UNCHANGED client
  /\ RunDeferred(e)

Serving(e) == handler[e] \in {"waiting", "draining"}

\* timeoutOf: every request has one.
Deadline(e) ==
  /\ Serving(e) /\ ctx[e] = "live"
  /\ ctx' = Set(ctx, e, "deadline")
  /\ UNCHANGED <<request, handler, leader, child, entry, enforcer, client, stdin>>

\* The request's context ends with the connection, but not a hijacked one's.
Disconnect(e) ==
  /\ Serving(e) /\ client[e] = "connected"
  /\ client' = Set(client, e, "gone")
  /\ ctx' = IF request[e].form = "sync" /\ ctx[e] = "live" THEN Set(ctx, e, "cancelled") ELSE ctx
  /\ UNCHANGED <<request, handler, leader, child, entry, enforcer, stdin>>

\* handleProcessSignal, and readControl's signal frame.
Signal(e) ==
  /\ entry[e] # "none"
  /\ SignalGroup(e) \/ KillGroup(e)
  /\ UNCHANGED <<request, handler, ctx, entry, enforcer, client, stdin>>

\* The SDK's CloseStdin: a stdin frame without data.
CloseStdin(e) ==
  /\ request[e].form = "stream" /\ Serving(e)
  /\ client[e] = "connected" /\ stdin[e] = "open"
  /\ stdin' = Set(stdin, e, "eof_sent")
  /\ UNCHANGED <<request, handler, leader, child, ctx, entry, enforcer, client>>

\* readControl writes the data of a stdin frame, and closes stdin only when
\* it can read no more frames.
ReadControl(e) ==
  /\ request[e].form # "sync" /\ Serving(e)
  /\ \/ /\ ctx[e] = "live" /\ client[e] = "connected" /\ stdin[e] = "eof_sent"
        /\ stdin' = Set(stdin, e, "eof_read")
     \/ /\ (ctx[e] # "live" \/ client[e] = "gone") /\ stdin[e] # "closed"
        /\ stdin' = Set(stdin, e, "closed")
  /\ UNCHANGED <<request, handler, leader, child, ctx, entry, enforcer, client>>

-----------------------------------------------------------------------------
(* enforceDeadline.                                                        *)

\* SIGTERM, unless the table says the process has exited.
EnforcerWakes(e) ==
  /\ enforcer[e] = "armed" /\ ctx[e] # "live"
  /\ IF HasExited(e)
     THEN enforcer' = Set(enforcer, e, "finished") /\ UNCHANGED <<leader, child>>
     ELSE enforcer' = Set(enforcer, e, "grace") /\ SignalGroup(e)
  /\ UNCHANGED <<request, handler, ctx, entry, client, stdin>>

\* Mutant: the second look at the table takes a running process for done.
EnforcerGivesUp(e) ==
  /\ enforcer[e] = "grace"
  /\ enforcer' = Set(enforcer, e, "finished")
  /\ IF HasExited(e) THEN KillGroup(e) ELSE UNCHANGED <<leader, child>>
  /\ UNCHANGED <<request, handler, ctx, entry, client, stdin>>

\* SIGKILL after the grace period, if the process is still there.
EnforcerKills(e) ==
  /\ enforcer[e] = "grace"
  /\ enforcer' = Set(enforcer, e, "finished")
  /\ IF StillRuns(e) THEN KillGroup(e) ELSE UNCHANGED <<leader, child>>
  /\ UNCHANGED <<request, handler, ctx, entry, client, stdin>>

-----------------------------------------------------------------------------

Served(e) == WaitAndFinish(e) \/ Reply(e)
Enforced(e) == EnforcerWakes(e) \/ EnforcerKills(e)

ExecNext ==
  \E e \in Sessions :
    \/ Fork(e) \/ LeaderExits(e) \/ ChildExits(e)
    \/ Start(e) \/ Served(e) \/ AbandonOutput(e) \/ Enforced(e)
    \/ Deadline(e) \/ Disconnect(e) \/ Signal(e)
    \/ CloseStdin(e) \/ ReadControl(e)

ExecSpec == ExecInit /\ [][ExecNext]_execVars

\* Goroutines run and deadlines pass; processes need never exit by themselves.
ExecFairSpec ==
  /\ ExecSpec
  /\ \A e \in Sessions :
       WF_execVars(Served(e)) /\ WF_execVars(Enforced(e)) /\ WF_execVars(Deadline(e))

-----------------------------------------------------------------------------
(* Properties.                                                             *)

\* The process table lists exactly the commands being served, and says done
\* only of one that has exited; a handler has returned only after its command.
TableAgrees ==
  /\ ExecTypeOK
  /\ \A e \in Sessions :
       /\ entry[e] = "running" <=> handler[e] = "waiting"
       /\ entry[e] = "done" <=> handler[e] = "draining"
       /\ handler[e] \in {"draining", "done"} => leader[e] = "exited"
       /\ handler[e] = "done" => ctx[e] # "live"
       /\ enforcer[e] = "none" <=> handler[e] = "unsent"
       /\ enforcer[e] = "grace" => ctx[e] # "live"

\* A command whose time is over, or whose client has gone, does not keep
\* running, even if it ignores SIGTERM (enforceDeadline).
DeadlineKills ==
  \A e \in Sessions : (handler[e] = "waiting" /\ ctx[e] # "live") ~> leader[e] = "exited"

\* The descendant may keep the handler waiting for the end of the output.
Held(e) == request[e].form # "pty" /\ request[e].leaves = "piped"

\* Every request is answered, whatever the command does with signals, and a
\* terminal whatever holds it, because handlePTY closes it before it waits
\* for the output.
ExecEnds ==
  \A e \in Sessions : handler[e] = "waiting" /\ ~Held(e) ~> handler[e] = "done"

-----------------------------------------------------------------------------
(* What comments of the code say and it does not do.                       *)

\* The timeout "stops a forgotten command from occupying the sandbox for its
\* whole TTL" (defaultTimeout): every request ends.
TimeoutEnds == \A e \in Sessions : handler[e] = "waiting" ~> handler[e] = "done"

\* enforceDeadline "terminates a process group once its context expires": it
\* leaves alone the group of a command that was answered in time.
SparesFinished ==
  [][\A e \in Sessions :
       EnforcerWakes(e) /\ enforcer'[e] = "grace" => handler[e] # "done"]_execVars

\* exec_stream: "The generator ends when the command exits; its status is
\* available afterwards": a client that stays is told the exit status.
ExitFrameDelivered ==
  \A e \in Sessions : handler[e] = "done" => client[e] # "connected"

\* CloseStdin "signals end of input": once readControl has read the frame,
\* stdin is closed.
EndOfInput == \A e \in Sessions : stdin[e] # "eof_read"
=============================================================================
