------------------------------- MODULE Reaper -------------------------------
(***************************************************************************)
(* pkg/reaper: the single owner of wait4 in jdix-init and jdix-execd.      *)
(*                                                                         *)
(* A job is one process.  Its exit status is the job itself, so that a     *)
(* status that reaches the wrong caller is seen.  A channel of waiters is  *)
(* named by the job whose StartCmd or Adopt made it.  Every operation that *)
(* holds the mutex is one action; Wait is three, because it lets the mutex *)
(* go while it receives.                                                   *)
(***************************************************************************)
EXTENDS Integers, Sequences

CONSTANTS
  Jobs,
  Kind,        \* "started" by StartCmd, "adopted" after pty.Start, or "orphan"
  Pids,
  MayReuse,    \* whether a pid can come round again
  MaxPending,  \* maxPending
  None,
  Lost         \* Wait's -1

ASSUME JobsAssumption ==
  None \notin Jobs \cup Pids \cup {Lost} /\ Lost \notin Jobs
ASSUME KindAssumption == Kind \in [Jobs -> {"started", "adopted", "orphan"}]
ASSUME ReuseAssumption == MayReuse \in BOOLEAN
ASSUME MaxPendingAssumption == MaxPending \in Nat \ {0}

VARIABLES
  pid,         \* each job's pid
  life,        \* each job's process
  caller,      \* where the caller that wants its status is
  chan,        \* the channel that caller receives from
  got,         \* the status that caller returned
  waiters,     \* Reaper.waiters
  buffer,      \* what each channel holds
  pending,     \* Reaper.pending
  order,       \* Reaper.order
  reaping,     \* whether Run is inside reap
  sigchld      \* whether a SIGCHLD is in Run's channel

processVars == <<pid, life>>
callerVars == <<caller, chan, got>>
ringVars == <<pending, order>>
runVars == <<reaping, sigchld>>
vars == <<processVars, callerVars, waiters, buffer, ringVars, runVars>>

TypeOK ==
  /\ pid \in [Jobs -> Pids \cup {None}]
  /\ life \in [Jobs -> {"new", "running", "zombie", "reaped"}]
  /\ caller \in [Jobs -> {"none", "adopt", "wait", "receive", "forget", "done"}]
  /\ chan \in [Jobs -> Jobs \cup {None}]
  /\ got \in [Jobs -> Jobs \cup {None, Lost}]
  /\ waiters \in [Pids -> Jobs \cup {None}]
  /\ buffer \in [Jobs -> Jobs \cup {None}]
  /\ pending \in [Pids -> Jobs \cup {None}]
  /\ order \in Seq(Pids)
  /\ reaping \in BOOLEAN /\ sigchld \in BOOLEAN
  /\ \A j \in Jobs : life[j] # "new" => pid[j] \in Pids
  /\ \A j \in Jobs : caller[j] # "none" => pid[j] \in Pids
  /\ \A j \in Jobs : caller[j] = "receive" => chan[j] \in Jobs

\* Run sweeps once when it starts.
Init ==
  /\ pid = [j \in Jobs |-> None]
  /\ life = [j \in Jobs |-> "new"]
  /\ caller = [j \in Jobs |-> "none"]
  /\ chan = [j \in Jobs |-> None]
  /\ got = [j \in Jobs |-> None]
  /\ waiters = [p \in Pids |-> None]
  /\ buffer = [j \in Jobs |-> None]
  /\ pending = [p \in Pids |-> None]
  /\ order = << >>
  /\ reaping = TRUE /\ sigchld = FALSE

-----------------------------------------------------------------------------
(* Processes.                                                              *)

\* The kernel gives a pid that no process, zombies included, holds.
Spawn(j, p) ==
  /\ life[j] = "new"
  /\ \A k \in Jobs : pid[k] = p => MayReuse /\ life[k] = "reaped"
  /\ pid' = [pid EXCEPT ![j] = p]
  /\ life' = [life EXCEPT ![j] = "running"]

\* A process of the sandbox whose parent is gone.
Orphan(j, p) ==
  /\ Kind[j] = "orphan" /\ Spawn(j, p)
  /\ UNCHANGED <<callerVars, waiters, buffer, ringVars, runVars>>

\* The signal may find another one in the channel.
Exit(j) ==
  /\ life[j] = "running"
  /\ life' = [life EXCEPT ![j] = "zombie"]
  /\ sigchld' = TRUE
  /\ UNCHANGED <<pid, callerVars, waiters, buffer, ringVars, reaping>>

-----------------------------------------------------------------------------
(* The callers.                                                            *)

StartCmd(j, p) ==
  /\ Kind[j] = "started" /\ Spawn(j, p)
  /\ waiters' = [waiters EXCEPT ![p] = j]
  /\ caller' = [caller EXCEPT ![j] = "wait"]
  /\ UNCHANGED <<chan, got, buffer, ringVars, runVars>>

\* Mutant: handlePTY does not adopt its process.
PtyStartOnly(j, p) ==
  /\ Kind[j] = "adopted" /\ Spawn(j, p)
  /\ caller' = [caller EXCEPT ![j] = "wait"]
  /\ UNCHANGED <<chan, got, waiters, buffer, ringVars, runVars>>

\* pty.StartWithSize, and execd's launch: the process runs before Adopt.
PtyStart(j, p) ==
  /\ Kind[j] = "adopted" /\ Spawn(j, p)
  /\ caller' = [caller EXCEPT ![j] = "adopt"]
  /\ UNCHANGED <<chan, got, waiters, buffer, ringVars, runVars>>

Adopt(j) ==
  LET p == pid[j]
  IN  /\ caller[j] = "adopt"
      /\ waiters' = IF pending[p] = None /\ waiters[p] = None
                    THEN [waiters EXCEPT ![p] = j] ELSE waiters
      /\ caller' = [caller EXCEPT ![j] = "wait"]
      /\ UNCHANGED <<processVars, chan, got, buffer, ringVars, runVars>>

Return(j, status) ==
  /\ got' = [got EXCEPT ![j] = status]
  /\ caller' = [caller EXCEPT ![j] = "done"]

Holds(seq, p) == \E i \in DOMAIN seq : seq[i] = p

\* seq without its element p, which it holds once (RingMatches).
Without(seq, p) ==
  LET at == CHOOSE i \in DOMAIN seq : seq[i] = p
  IN  [i \in 1 .. Len(seq) - 1 |-> seq[IF i < at THEN i ELSE i + 1]]

forget(p) ==
  /\ pending' = [pending EXCEPT ![p] = None]
  /\ order' = IF Holds(order, p) THEN Without(order, p) ELSE order

\* Mutant: Wait looks for its channel before it looks into pending.
WaitWaitersFirst(j) ==
  LET p == pid[j]
  IN  /\ caller[j] = "wait"
      /\ IF waiters[p] = None
         THEN Return(j, Lost) /\ UNCHANGED chan
         ELSE /\ chan' = [chan EXCEPT ![j] = waiters[p]]
              /\ caller' = [caller EXCEPT ![j] = "receive"]
              /\ UNCHANGED got
      /\ UNCHANGED <<processVars, waiters, ringVars, buffer, runVars>>

\* Mutant: Wait returns without taking its entry out.
ForgetNothing(j) ==
  /\ caller[j] = "forget"
  /\ caller' = [caller EXCEPT ![j] = "done"]
  /\ UNCHANGED <<processVars, chan, got, waiters, buffer, ringVars, runVars>>

\* Wait's first critical section.
Wait(j) ==
  LET p == pid[j]
  IN  /\ caller[j] = "wait"
      /\ IF pending[p] # None
         THEN /\ Return(j, pending[p])
              /\ forget(p)
              /\ waiters' = [waiters EXCEPT ![p] = None]
              /\ UNCHANGED chan
         ELSE /\ IF waiters[p] = None
                 THEN Return(j, Lost) /\ UNCHANGED chan
                 ELSE /\ chan' = [chan EXCEPT ![j] = waiters[p]]
                      /\ caller' = [caller EXCEPT ![j] = "receive"]
                      /\ UNCHANGED got
              /\ UNCHANGED <<waiters, ringVars>>
      /\ UNCHANGED <<processVars, buffer, runVars>>

\* Wait blocks, without the mutex, on the channel it found.
Receive(j) ==
  /\ caller[j] = "receive" /\ buffer[chan[j]] # None
  /\ got' = [got EXCEPT ![j] = buffer[chan[j]]]
  /\ buffer' = [buffer EXCEPT ![chan[j]] = None]
  /\ caller' = [caller EXCEPT ![j] = "forget"]
  /\ UNCHANGED <<processVars, chan, waiters, ringVars, runVars>>

\* Wait's second critical section.
Forget(j) ==
  /\ caller[j] = "forget"
  /\ waiters' = [waiters EXCEPT ![pid[j]] = None]
  /\ caller' = [caller EXCEPT ![j] = "done"]
  /\ UNCHANGED <<processVars, chan, got, buffer, ringVars, runVars>>

-----------------------------------------------------------------------------
(* Run and reap.                                                           *)

\* A new status takes a place in the ring; one that replaces another keeps it.
Remember(p) == IF pending[p] = None THEN Append(order, p) ELSE order

deliver(p, status) ==
  LET ring == Remember(p)
      kept == [pending EXCEPT ![p] = status]
  IN  IF waiters[p] # None
      THEN /\ buffer' = IF buffer[waiters[p]] = None
                        THEN [buffer EXCEPT ![waiters[p]] = status] ELSE buffer
           /\ UNCHANGED <<waiters, ringVars>>
      ELSE /\ IF Len(ring) > MaxPending
              THEN order' = Tail(ring) /\ pending' = [kept EXCEPT ![Head(ring)] = None]
              ELSE order' = ring /\ pending' = kept
           /\ UNCHANGED <<waiters, buffer>>

\* A signal in the channel starts a sweep.
Wake ==
  /\ ~reaping /\ sigchld
  /\ reaping' = TRUE /\ sigchld' = FALSE
  /\ UNCHANGED <<processVars, callerVars, waiters, buffer, ringVars>>

\* Mutant: one wait4 for one signal.
ReapOnce(j) ==
  /\ reaping /\ life[j] = "zombie"
  /\ life' = [life EXCEPT ![j] = "reaped"]
  /\ deliver(pid[j], j)
  /\ reaping' = FALSE
  /\ UNCHANGED <<pid, callerVars, sigchld>>

\* wait4 collects a child, and its status is delivered.
Reap(j) ==
  /\ reaping /\ life[j] = "zombie"
  /\ life' = [life EXCEPT ![j] = "reaped"]
  /\ deliver(pid[j], j)
  /\ UNCHANGED <<pid, callerVars, runVars>>

\* wait4 finds nothing more to collect.
Swept ==
  /\ reaping /\ \A j \in Jobs : life[j] # "zombie"
  /\ reaping' = FALSE
  /\ UNCHANGED <<processVars, callerVars, waiters, buffer, ringVars, sigchld>>

-----------------------------------------------------------------------------

Call(j) == Adopt(j) \/ Wait(j) \/ Receive(j) \/ Forget(j)

Sweep == Wake \/ Swept \/ \E j \in Jobs : Reap(j)

Next ==
  \/ \E j \in Jobs :
       \/ \E p \in Pids : Orphan(j, p) \/ StartCmd(j, p) \/ PtyStart(j, p)
       \/ Exit(j) \/ Call(j)
  \/ Sweep

Spec == Init /\ [][Next]_vars

\* Goroutines run; processes need not exit.
FairSpec == Spec /\ WF_vars(Sweep) /\ \A j \in Jobs : WF_vars(Call(j))

-----------------------------------------------------------------------------
(* Properties.                                                             *)

\* Wait "blocks until the process exits" and never returns another one's
\* status; at worst the status was evicted.
ExactStatus ==
  \A j \in Jobs : got[j] # None => got[j] \in {j, Lost} /\ life[j] = "reaped"

\* order holds each pid of pending once and nothing else, within its bound.
RingMatches ==
  /\ \A p \in Pids : pending[p] # None <=> Holds(order, p)
  /\ \A i, k \in DOMAIN order : order[i] = order[k] => i = k
  /\ Len(order) <= MaxPending

\* A call that has returned leaves no entry behind.
NothingLeft ==
  \A j \in Jobs : caller[j] = "done" =>
    waiters[pid[j]] = None /\ pending[pid[j]] = None

\* j's status was pushed out of a full ring: it is nowhere any more.
Evicted(j) ==
  /\ life[j] = "reaped" /\ Len(order) = MaxPending
  /\ pending[pid[j]] # j /\ got[j] # j /\ \A k \in Jobs : buffer[k] # j

\* Whoever waits for a process that exits gets its status, even if the exit
\* came before Adopt or before Wait, unless the ring was full and pushed it
\* out before it was claimed (Adopt, Wait, deliver).
WaitReturns == \A j \in Jobs :
  (caller[j] # "none" /\ life[j] = "zombie") ~>
    (caller[j] = "done" /\ got[j] = j) \/ Evicted(j)

\* Every zombie is collected, although the signals of several coalesce.
ZombiesCollected == \A j \in Jobs : life[j] = "zombie" ~> life[j] = "reaped"
=============================================================================
