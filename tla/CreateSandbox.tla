---------------------------- MODULE CreateSandbox ----------------------------
(***************************************************************************)
(* createSandbox of pkg/apiserver/server.go, with checkQuota, waitReady    *)
(* and the tables they use.  The id of a sandbox is new, so a sandbox is   *)
(* named by the request that created it.                                   *)
(***************************************************************************)
EXTENDS Handlers

CONSTANTS
  Creates,              \* the requests to create a sandbox
  Tenants,
  Keys,                 \* Idempotency-Key values
  Tenant,               \* the tenant of each request
  Key,                  \* its Idempotency-Key, or None
  Body,                 \* its body, as requestSum tells bodies apart
  Refused,              \* requests whose body is invalid or whose API key does
                        \* not allow the template
  MaxConcurrent,        \* the tenants' quota; 0 is no limit
  MaxCreatePerMinute

ASSUME CreateAssumption ==
  /\ Creates \subseteq Requests /\ Refused \subseteq Creates /\ None \notin Keys
  /\ Tenant \in [Creates -> Tenants]
  /\ Key \in [Creates -> Keys \cup {None}]
ASSUME QuotaAssumption == MaxConcurrent \in Nat /\ MaxCreatePerMinute \in Nat

VARIABLES
  sandbox,    \* per request: the sandbox it is about to be answered with
  objects,    \* Sandbox objects
  boxes,      \* rows of the sandboxes table
  aged,       \* those created more than a minute ago
  idem,       \* the idempotency table
  expired,    \* requests whose ReadyTimeout has passed
  read,       \* requests whose waitReady has read the sandbox at least once
  unsaved     \* requests whose SaveIdempotency failed, which nobody is told

createVars == <<sandbox, objects, boxes, aged, idem, expired, read, unsaved>>

Slots == Tenants \X Keys

CreateTypeOK ==
  /\ sandbox \in [Creates -> Creates \cup {None}]
  /\ objects \in [Creates -> {"absent", "pending", "settled", "deleted"}]
  /\ boxes \subseteq Creates /\ aged \subseteq boxes
  /\ idem \in [Slots -> Creates \cup {None}]
  /\ expired \subseteq Creates /\ read \subseteq Creates /\ unsaved \subseteq Creates

CreateInit ==
  /\ sandbox = [r \in Creates |-> None]
  /\ objects = [r \in Creates |-> "absent"]
  /\ boxes = {} /\ aged = {}
  /\ idem = [k \in Slots |-> None]
  /\ expired = {} /\ read = {} /\ unsaved = {}

Slot(r) == <<Tenant[r], Key[r]>>

\* CountRunning: deleted_at is null in every row, because nothing sets it.
Running(t) == {b \in boxes : Tenant[b] = t}
CreatedSince(t) == {b \in boxes \ aged : Tenant[b] = t}

-----------------------------------------------------------------------------

Unknown(r) == Key[r] = None \/ idem[Slot(r)] = None

\* The answer to a key that is known.
Replay(r) ==
  LET prev == idem[Slot(r)] IN
  IF Body[prev] = Body[r]
  THEN Goto(r, "poll") /\ sandbox' = [sandbox EXCEPT ![r] = prev]
  ELSE Answer(r, "mismatch") /\ UNCHANGED sandbox

\* Mutant: the quota is checked before the Idempotency-Key is looked up.
LookupAfterQuota(r) ==
  /\ r \in Creates /\ Arrives(r)
  /\ IF MaxConcurrent > 0 /\ Cardinality(Running(Tenant[r])) >= MaxConcurrent
     THEN Answer(r, "quota_concurrent") /\ UNCHANGED <<sandbox, faults>>
     ELSE /\ StoreWorks(r)
          /\ IF Unknown(r) THEN Goto(r, "rate") /\ UNCHANGED sandbox ELSE Replay(r)
  /\ UNCHANGED <<store, objects, boxes, aged, idem, expired, read, unsaved>>

\* createSandbox up to the idempotency lookup: "it comes before the quota
\* check".
Lookup(r) ==
  /\ r \in Creates /\ Arrives(r)
  /\ \/ r \in Refused /\ Answer(r, "refused") /\ UNCHANGED <<sandbox, faults>>
     \/ /\ r \notin Refused /\ (Key[r] = None \/ StoreWorks(r)) /\ UNCHANGED faults
        /\ IF Unknown(r) THEN Goto(r, "concurrent") /\ UNCHANGED sandbox ELSE Replay(r)
     \/ /\ r \notin Refused /\ Key[r] # None /\ StoreFails(r)
        /\ Answer(r, "error") /\ UNCHANGED sandbox
  /\ UNCHANGED <<store, objects, boxes, aged, idem, expired, read, unsaved>>

\* Mutant: the comparison with the quota is off by one.
CheckConcurrentLate(r) ==
  /\ at[r] = "concurrent"
  /\ StoreWorks(r)
  /\ IF MaxConcurrent > 0 /\ Cardinality(Running(Tenant[r])) > MaxConcurrent
     THEN Answer(r, "quota_concurrent")
     ELSE Goto(r, "rate")
  /\ UNCHANGED <<store, createVars>>

\* The first half of checkQuota.
CheckConcurrent(r) ==
  /\ at[r] = "concurrent"
  /\ \/ /\ StoreWorks(r)
        /\ IF MaxConcurrent > 0 /\ Cardinality(Running(Tenant[r])) >= MaxConcurrent
           THEN Answer(r, "quota_concurrent")
           ELSE Goto(r, "rate")
     \/ StoreFails(r) /\ Answer(r, "error")
  /\ UNCHANGED <<store, createVars>>

CheckRate(r) ==
  /\ at[r] = "rate"
  /\ \/ /\ StoreWorks(r) \/ (MaxCreatePerMinute = 0 /\ UNCHANGED faults)
        /\ IF MaxCreatePerMinute > 0
                /\ Cardinality(CreatedSince(Tenant[r])) >= MaxCreatePerMinute
           THEN Answer(r, "quota_create_rate")
           ELSE Goto(r, "create")
     \/ MaxCreatePerMinute > 0 /\ StoreFails(r) /\ Answer(r, "error")
  /\ UNCHANGED <<store, createVars>>

NewObject(r) == objects' = [objects EXCEPT ![r] = "pending"]

Create(r) ==
  /\ at[r] = "create"
  /\ \/ KubeWorks(r) /\ NewObject(r) /\ Goto(r, "record")
     \/ KubeFails(r) /\ (NewObject(r) \/ UNCHANGED objects) /\ Answer(r, "error")
  /\ UNCHANGED <<store, sandbox, boxes, aged, idem, expired, read, unsaved>>

\* An upsert by id, and the id is new.
RecordSandbox(r) == boxes' = boxes \cup {r}

\* An error of RecordSandbox is ignored.
Record(r) ==
  /\ at[r] = "record"
  /\ \/ StoreWorks(r) /\ RecordSandbox(r)
     \/ StoreFails(r) /\ UNCHANGED boxes
  /\ Goto(r, IF Key[r] = None THEN "poll" ELSE "save")
  /\ sandbox' = [sandbox EXCEPT ![r] = r]
  /\ UNCHANGED <<store, objects, aged, idem, expired, read, unsaved>>

\* MemStore overwrites the record of a key.
MemSaveIdempotency(r) == r

\* Mutant: ON CONFLICT DO UPDATE.
PGSaveLast(r) == r

\* ON CONFLICT DO NOTHING: the first writer decides.
PGSaveIdempotency(r) == IF idem[Slot(r)] = None THEN r ELSE idem[Slot(r)]

\* SaveIdempotency; its error is ignored.
Save(r) ==
  /\ at[r] = "save"
  /\ \/ /\ StoreWorks(r)
        /\ idem' = [idem EXCEPT ![Slot(r)] = IF store = "memory"
                                             THEN MemSaveIdempotency(r)
                                             ELSE PGSaveIdempotency(r)]
        /\ UNCHANGED unsaved
     \/ StoreFails(r) /\ unsaved' = unsaved \cup {r} /\ UNCHANGED idem
  /\ Goto(r, "poll")
  /\ UNCHANGED <<store, sandbox, objects, boxes, aged, expired, read>>

-----------------------------------------------------------------------------
(* respondWithSandbox and waitReady.                                       *)

\* The wait is over.
Waited(r, a) == Answer(r, a) /\ expired' = expired \ {r} /\ read' = read \ {r}
Waits(r, step) == Goto(r, step) /\ UNCHANGED expired

\* One read: a NotFound is polled through until the deadline, a settled phase
\* ends the wait, any other error too.
Poll(r) ==
  LET o == objects[sandbox[r]] IN
  /\ at[r] = "poll"
  /\ \/ o = "settled" /\ KubeWorks(r) /\ Waited(r, "ok")
     \/ o = "pending" /\ KubeWorks(r) /\ Waits(r, "polled") /\ read' = read \cup {r}
     \/ /\ o = "deleted" /\ KubeWorks(r)
        /\ IF r \in expired THEN Waited(r, "not_found")
                            ELSE Waits(r, "polled") /\ UNCHANGED read
     \/ KubeFails(r) /\ Waited(r, "error")
  /\ UNCHANGED <<store, sandbox, objects, boxes, aged, idem, unsaved>>

\* The second look at the clock, and the wait for the next poll.
Polled(r) ==
  /\ at[r] = "polled"
  /\ IF r \in expired \cup departed
     THEN Waited(r, IF r \in read THEN "ok" ELSE "blank")
     ELSE Waits(r, "poll") /\ UNCHANGED read
  /\ UNCHANGED <<store, faults, sandbox, objects, boxes, aged, idem, unsaved>>

ReadyTimeout(r) ==
  /\ at[r] \in {"poll", "polled"} /\ r \notin expired
  /\ expired' = expired \cup {r}
  /\ UNCHANGED <<handlerVars, sandbox, objects, boxes, aged, idem, read, unsaved>>

-----------------------------------------------------------------------------

\* The controllers bring a sandbox up, or fail it; its object stays.
Settle(r) ==
  /\ objects[r] = "pending"
  /\ objects' = [objects EXCEPT ![r] = "settled"]
  /\ UNCHANGED <<handlerVars, sandbox, boxes, aged, idem, expired, read, unsaved>>

\* deleteSandbox, to the end of the finalizer: the store is not told.
deleteSandbox(r) ==
  /\ objects[r] \in {"pending", "settled"}
  /\ objects' = [objects EXCEPT ![r] = "deleted"]
  /\ UNCHANGED <<handlerVars, sandbox, boxes, aged, idem, expired, read, unsaved>>

\* A row's created_at is now more than a minute ago.
MinutePasses(r) ==
  /\ r \in boxes \ aged
  /\ aged' = aged \cup {r}
  /\ UNCHANGED <<handlerVars, sandbox, objects, boxes, idem, expired, read, unsaved>>

\* "Nothing survives a restart" of MemStore.
CreateRestart ==
  /\ IF store = "memory"
     THEN boxes' = {} /\ aged' = {} /\ idem' = [k \in Slots |-> None]
     ELSE UNCHANGED <<boxes, aged, idem>>
  /\ expired' = {} /\ read' = {}
  /\ UNCHANGED <<sandbox, objects, unsaved>>

CreateHandler(r) ==
  \/ Lookup(r) \/ CheckConcurrent(r) \/ CheckRate(r) \/ Create(r)
  \/ Record(r) \/ Save(r) \/ Poll(r) \/ Polled(r)

CreateStep ==
  \E r \in Creates :
    CreateHandler(r) \/ ReadyTimeout(r) \/ Settle(r) \/ deleteSandbox(r) \/ MinutePasses(r)

-----------------------------------------------------------------------------
(* Properties.                                                             *)

\* Requests of one tenant with one key and one body: retries of one another.
Retries(r) ==
  {q \in Creates \ {r} : Key[r] # None /\ Slot(q) = Slot(r) /\ Body[q] = Body[r]}

\* However many retries of a request run beside one another, those answered
\* by a sandbox they did not create are all answered by the same one, the
\* first writer's, for good (SaveIdempotency of PGStore, Idempotency).
ReplaysAgree ==
  store = "postgres" =>
    \A r \in Creates : sandbox[r] \notin {None, r} =>
      /\ idem[Slot(r)] = sandbox[r]
      /\ objects[sandbox[r]] # "absent"
      /\ Body[sandbox[r]] = Body[r]

\* Once a client has been told of its sandbox, no retry of the request starts
\* another or is refused by the quota the first attempt filled, whatever
\* else runs, departs or restarts, unless the save failed unnoticed
\* (createSandbox: the lookup comes before checkQuota, the save before the
\* answer).
AnsweredOnce ==
  [][\A r \in Creates :
       /\ store = "postgres" /\ at[r] = "new" /\ at'[r] # "new"
       /\ \E q \in Retries(r) \ unsaved : answer[q] = "ok"
       => sandbox'[r] # None \/ answer'[r] \in {"refused", "mismatch", "error"}]_<<handlerVars, createVars>>

\* checkQuota reads and createSandbox records in two calls: requests that run
\* beside one another overshoot the quota, each by one at most.
OvershootBounded ==
  MaxConcurrent > 0 =>
    \A t \in Tenants : Cardinality(Running(t)) < MaxConcurrent + MaxInFlight

-----------------------------------------------------------------------------
(* What comments and messages of the code say and the code does not do.    *)

\* IdempotencyRecord: "a retry returns the same sandbox instead of starting a
\* second one"; PGStore.SaveIdempotency: "two concurrent retries must agree
\* on one sandbox".
OneSandboxPerKey ==
  \A r \in Creates : objects[r] # "absent" =>
    \A q \in Retries(r) : objects[q] = "absent"

\* checkQuota, to a refused tenant: "delete one or wait for a TTL to elapse".
RefusedOnlyWhenFull ==
  [][\A r \in Creates :
       answer[r] = "none" /\ answer'[r] = "quota_concurrent" =>
         Cardinality({q \in Creates : /\ Tenant[q] = Tenant[r]
                                      /\ objects[q] \in {"pending", "settled"}})
           >= MaxConcurrent]_<<handlerVars, createVars>>

\* respondWithSandbox, for a sandbox that has since been deleted: "404 says
\* that"; an answer that is not an error names the sandbox.
NeverBlank == \A r \in Requests : answer[r] # "blank"
=============================================================================
