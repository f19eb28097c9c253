-------------------------------- MODULE Handle --------------------------------
(***************************************************************************)
(* A sandbox as a client of the SDKs holds it: Create, WaitReady, Close    *)
(* and the renewals in the background of sdk/go and sdk/python, against    *)
(* the two deadlines of the sandbox, execd's own and status.ExpiresAt,     *)
(* which the controller enforces.  Times are the ticks left until them.    *)
(***************************************************************************)
EXTENDS Integers

CONSTANTS
  Sdks,         \* the SDKs: "go", "python"
  Asked,        \* TTLs asked for, up to the template's maximum; 0 takes its default
  TemplateTTL,
  MinInterval,  \* renewals are not closer than this
  KeepDefault,  \* the TTL renewals ask for when none was given
  MaxCall       \* how long a renewal may take

ASSUME HandleSdks == Sdks \subseteq {"go", "python"}
ASSUME HandleTimes ==
  /\ Asked \subseteq Nat /\ {TemplateTTL, KeepDefault} \subseteq Nat \ {0}
  /\ MinInterval \in Nat /\ MaxCall \in Nat /\ MaxCall < MinInterval

VARIABLES
  sdk, asked, keeps, waits,  \* how the client uses it: KeepAlive, WaitReady
  handle,    \* where the client is
  life,      \* the sandbox itself
  endpoint,  \* the handle knows the endpoint
  loop,      \* the renewals in the background go on
  next,      \* ticks until the next one
  call,      \* how long the one in flight has taken
  missed,    \* the last one did not get through
  deadline,  \* ticks until execd ends the sandbox
  status,    \* ticks until the controller does
  closed     \* what the last Close returned

optVars == <<sdk, asked, keeps, waits>>
loopVars == <<loop, next, call, missed>>
handleVars == <<optVars, handle, life, endpoint, loopVars, deadline, status, closed>>

NoCall == -1

HandleTypeOK ==
  /\ sdk \in Sdks \cup {"none"} /\ asked \in Asked \cup {0} /\ keeps \in BOOLEAN /\ waits \in BOOLEAN
  /\ handle \in {"none", "creating", "open", "refused", "lost", "closed", "crashed"}
  /\ life \in {"none", "pending", "running", "failed", "lapsed", "expired", "deleted"}
  /\ endpoint \in BOOLEAN /\ loop \in BOOLEAN /\ missed \in BOOLEAN
  /\ next \in Nat /\ call \in Nat \cup {NoCall}
  /\ deadline \in Nat /\ status \in Nat
  /\ closed \in {"no", "ok", "error"}

HandleInit ==
  /\ sdk = "none" /\ asked = 0 /\ keeps = FALSE /\ waits = FALSE
  /\ handle = "none" /\ life = "none" /\ endpoint = FALSE
  /\ loop = FALSE /\ next = 0 /\ call = NoCall /\ missed = FALSE
  /\ deadline = 0 /\ status = 0 /\ closed = "no"

-----------------------------------------------------------------------------
(* The sandbox.                                                            *)

Granted == IF asked > 0 THEN asked ELSE TemplateTTL

\* bind starts both deadlines.
BindSandbox ==
  /\ life = "pending"
  /\ life' = "running" /\ deadline' = Granted /\ status' = Granted
  /\ UNCHANGED <<optVars, handle, endpoint, loopVars, closed>>

FailSandbox ==
  /\ life = "pending"
  /\ life' = "failed"
  /\ UNCHANGED <<optVars, handle, endpoint, loopVars, deadline, status, closed>>

\* execd's timer.
Lapse ==
  /\ life = "running" /\ deadline = 0
  /\ life' = "lapsed"
  /\ UNCHANGED <<optVars, handle, endpoint, loopVars, deadline, status, closed>>

\* watchExpiry of the controller; nothing moves status.ExpiresAt.
ExpireStatus ==
  /\ life = "running" /\ status = 0
  /\ life' = "expired"
  /\ UNCHANGED <<optVars, handle, endpoint, loopVars, deadline, status, closed>>

-----------------------------------------------------------------------------
(* The client.                                                             *)

KeepTTL == IF asked > 0 THEN asked ELSE KeepDefault

\* Mutant: renewals are as far apart as half the TTL.
IntervalHalf == IF KeepTTL \div 2 < MinInterval THEN MinInterval ELSE KeepTTL \div 2

Interval == IF KeepTTL \div 3 < MinInterval THEN MinInterval ELSE KeepTTL \div 3

StartCreate ==
  /\ handle = "none"
  /\ handle' = "creating" /\ life' = "pending"
  /\ sdk' \in Sdks /\ asked' \in Asked /\ keeps' \in BOOLEAN /\ waits' \in BOOLEAN
  /\ UNCHANGED <<endpoint, loopVars, deadline, status, closed>>

retryable(method) == method \in {"GET", "HEAD"}

\* The answer of POST /v1/sandboxes, or none.
Created ==
  /\ handle = "creating"
  /\ \/ /\ life = "failed"
        /\ handle' = "refused"
        /\ UNCHANGED <<endpoint, loop, next>>
     \/ /\ life # "failed"
        /\ handle' = "open" /\ endpoint' = (life = "running")
        /\ loop' = keeps /\ next' = Interval
     \/ /\ ~retryable("POST")
        /\ handle' = "lost"
        /\ UNCHANGED <<endpoint, loop, next>>
  /\ UNCHANGED <<optVars, life, call, missed, deadline, status, closed>>

\* WaitReady polls until the sandbox runs, and takes over its endpoint; of a
\* failed or expired one it returns an error.
WaitReady ==
  /\ handle = "open" /\ waits /\ ~endpoint /\ life # "pending"
  /\ endpoint' = (life = "running")
  /\ waits' = (life = "running")
  /\ UNCHANGED <<sdk, asked, keeps, handle, life, loopVars, deadline, status, closed>>

\* The Python thread returns at the first renewal that fails.
LoopAfterMiss == loop /\ sdk = "go"

\* It is time: without an endpoint the renewal fails at once.  A loop that
\* was told to stop when its timer had fired may renew once more.
Renew ==
  /\ loop /\ call = NoCall /\ next = 0
  /\ next' = Interval
  /\ IF endpoint THEN call' = 0 /\ loop' = (handle # "closed")
     ELSE loop' = (LoopAfterMiss /\ handle # "closed") /\ UNCHANGED call
  /\ UNCHANGED <<optVars, handle, life, endpoint, missed, deadline, status, closed>>

\* The Go ticker keeps its beat; the Python thread waits after the answer.
NextAfterCall == IF sdk = "python" THEN Interval ELSE next

\* keepalive of execd sets a new deadline; of a sandbox that has ended it
\* fails.
Renewed ==
  /\ call # NoCall /\ life = "running" /\ deadline > 0
  /\ deadline' = KeepTTL
  /\ call' = NoCall /\ missed' = FALSE /\ next' = NextAfterCall
  /\ UNCHANGED <<optVars, handle, life, endpoint, loop, status, closed>>

\* A renewal is lost, or its answer is; not two in a row.
Miss ==
  /\ call # NoCall /\ (~missed \/ life # "running" \/ deadline = 0)
  /\ deadline' = deadline \/ (life = "running" /\ deadline > 0 /\ deadline' = KeepTTL)
  /\ call' = NoCall /\ missed' = TRUE
  /\ loop' = LoopAfterMiss /\ next' = NextAfterCall
  /\ UNCHANGED <<optVars, handle, life, endpoint, status, closed>>

\* Mutant: the loop is not told to stop.
CloseKeepsRenewing ==
  /\ handle = "open" /\ handle' = "closed"
  /\ \/ life' = "deleted" /\ closed' \in {"ok", "error"}
     \/ closed' = "error" /\ UNCHANGED life
  /\ UNCHANGED <<optVars, endpoint, loopVars, deadline, status>>

\* Close deletes the sandbox; the request may fail, before or after it had
\* its effect.
Close ==
  /\ handle = "open" /\ handle' = "closed"
  /\ loop' \in {FALSE, loop /\ call = NoCall /\ next = 0}
  /\ \/ life' = "deleted" /\ closed' \in {"ok", "error"}
     \/ ~retryable("DELETE") /\ closed' = "error" /\ UNCHANGED life
  /\ UNCHANGED <<optVars, endpoint, next, call, missed, deadline, status>>

\* sync.Once, and _closed: a second Close does nothing.
CloseAgain ==
  /\ handle = "closed"
  /\ closed' = "ok"
  /\ UNCHANGED <<optVars, handle, life, endpoint, loopVars, deadline, status>>

ClientCrashes ==
  /\ handle = "open" /\ handle' = "crashed"
  /\ loop' = FALSE /\ call' = NoCall
  /\ UNCHANGED <<optVars, life, endpoint, next, missed, deadline, status, closed>>

Less(t) == IF t = 0 THEN 0 ELSE t - 1

\* Timers and polls are on time, and a renewal is given up after MaxCall.
OnTime ==
  /\ loop /\ call = NoCall => next > 0
  /\ call < MaxCall
  /\ life = "running" => handle # "creating" /\ (handle = "open" /\ waits => endpoint)

HandleTick ==
  /\ OnTime
  /\ next' = Less(next) /\ deadline' = Less(deadline) /\ status' = Less(status)
  /\ call' = IF call = NoCall THEN NoCall ELSE call + 1
  /\ UNCHANGED <<optVars, handle, life, endpoint, loop, missed, closed>>

HandleNext ==
  \/ BindSandbox \/ FailSandbox \/ Lapse \/ ExpireStatus
  \/ StartCreate \/ Created \/ WaitReady \/ Renew \/ Renewed \/ Miss
  \/ Close \/ CloseAgain \/ ClientCrashes \/ HandleTick

HandleSpec == HandleInit /\ [][HandleNext]_handleVars

-----------------------------------------------------------------------------
(* Properties.                                                             *)

\* The client asked for renewals at least three minimal intervals apart and
\* knows where to send them.
Renewing == handle = "open" /\ keeps /\ endpoint /\ asked >= 3 * MinInterval

\* "so a single missed renewal is not fatal" (startKeepAlive of the Go SDK):
\* execd's deadline does not pass under an open handle, however long a
\* renewal takes and whenever in the ticker's beat the sandbox was bound, as
\* long as no two renewals in a row are lost.
RenewedInTime == Renewing /\ sdk = "go" => life # "lapsed"

\* After Close at most one renewal more extends the sandbox, one in flight or
\* one whose timer had fired: the one that gets through is the last
\* (keepAliveStop), so that a Close that failed leaves the sandbox to its
\* deadline.
CloseEndsRenewals ==
  [][handle = "closed" /\ life = "running" /\ deadline' > deadline => ~loop']_handleVars

-----------------------------------------------------------------------------
(* What comments of the SDKs say and the code does not do.                 *)

\* "Renew at a third of the TTL so one missed renewal is not fatal", of both
\* SDKs.
OneMissNotFatal == Renewing => life # "lapsed"

\* "KeepAlive extends the TTL in the background for as long as the Sandbox is
\* open": it does not end while every renewal gets through.
KeptAlive == Renewing /\ ~missed => life \notin {"lapsed", "expired"}

\* "Close deletes the sandbox.  It is safe to call more than once": once it
\* returned without an error the sandbox is gone.
ClosedIsGone == closed = "ok" => life \notin {"pending", "running"}
=============================================================================
