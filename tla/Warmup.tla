-------------------------------- MODULE Warmup --------------------------------
(***************************************************************************)
(* Warm-up requests of pkg/apiserver/warmup.go: a tenant asks for warm     *)
(* Pods, an administrator decides, and an approval writes the SandboxPool. *)
(* A row of the warmup_requests table is named by the request that made it.*)
(***************************************************************************)
EXTENDS Handlers, FiniteSetsExt

CONSTANTS
  Asks,            \* requests for warm capacity
  Reviews,         \* reviews of them
  PoolOf,          \* per Ask: the pool it is about (its tenant and template)
  Asked,           \* per Ask: how many Pods
  Of,              \* per Review: the Ask it decides on
  Approve,         \* per Review: whether it approves
  Grant,           \* per Review: body.replicas; 0 is "as asked"
  TotalIdlePods    \* the platform's budget

ASSUME WarmupAssumption ==
  /\ Asks \subseteq Requests /\ Reviews \subseteq Requests
  /\ Asked \in [Asks -> Nat \ {0}] /\ Of \in [Reviews -> Asks]
  /\ Approve \in [Reviews -> BOOLEAN] /\ Grant \in [Reviews -> Nat]
  /\ TotalIdlePods \in Nat

VARIABLES
  rows,     \* the warmup_requests table
  pools,    \* SandboxPool objects
  seen      \* per Review: the resourceVersion of the pool its upsertPool read

warmupVars == <<rows, pools, seen>>

Pools == {PoolOf[w] : w \in Asks}
NoPool == [rv |-> 0, replicas |-> 0, max |-> 0]

WarmupTypeOK ==
  /\ rows \in [Asks -> [status: {"absent", "pending", "approved", "rejected"},
                        replicas: Nat]]
  /\ pools \in [Pools -> [rv: Nat, replicas: Nat, max: Nat]]
  /\ seen \in [Reviews -> Nat]

WarmupInit ==
  /\ rows = [w \in Asks |-> [status |-> "absent", replicas |-> 0]]
  /\ pools = [p \in Pools |-> NoPool]
  /\ seen = [v \in Reviews |-> 0]

-----------------------------------------------------------------------------

\* requestWarmup: the row is all it writes.
requestWarmup(w) ==
  /\ w \in Asks /\ Arrives(w)
  /\ \/ /\ StoreWorks(w) /\ Answer(w, "ok")
        /\ rows' = [rows EXCEPT ![w] = [status |-> "pending", replicas |-> Asked[w]]]
     \/ (StoreFails(w) \/ KubeFails(w)) /\ Answer(w, "error") /\ UNCHANGED rows
  /\ UNCHANGED <<store, pools, seen>>

\* The start of reviewWarmup.
ReadRequest(v) ==
  /\ v \in Reviews /\ Arrives(v)
  /\ \/ /\ StoreWorks(v)
        /\ CASE rows[Of[v]].status = "absent" -> Answer(v, "not_found")
             [] rows[Of[v]].status = "pending" ->
                  Goto(v, IF Approve[v] THEN "budget" ELSE "reject")
             [] OTHER -> Answer(v, "already_reviewed")
     \/ StoreFails(v) /\ Answer(v, "error")
  /\ UNCHANGED <<store, warmupVars>>

Replicas(v) == IF Grant[v] > 0 THEN Grant[v] ELSE Asked[Of[v]]

\* SaveWarmupRequest over an existing row: MemStore replaces it, PGStore
\* leaves its replicas as they are.
MemSaveWarmupRequest(v, status) ==
  [status |-> status,
   replicas |-> IF status = "approved" THEN Replicas(v) ELSE Asked[Of[v]]]

PGSaveWarmupRequest(v, status) == [rows[Of[v]] EXCEPT !.status = status]

SaveRequest(v, step, status) ==
  /\ at[v] = step
  /\ \/ /\ StoreWorks(v) /\ Answer(v, "ok")
        /\ rows' = [rows EXCEPT ![Of[v]] = IF store = "memory"
                                           THEN MemSaveWarmupRequest(v, status)
                                           ELSE PGSaveWarmupRequest(v, status)]
     \/ StoreFails(v) /\ Answer(v, "error") /\ UNCHANGED rows
  /\ UNCHANGED <<store, pools, seen>>

Reject(v) == SaveRequest(v, "reject", "rejected")
SaveApproved(v) == SaveRequest(v, "approve", "approved")

Approved == {w \in Asks : rows[w].status = "approved"}

\* The warm Pods that approved requests hold, numbered per request.
Granted == UNION {{w} \X (1..rows[w].replicas) : w \in Approved}

\* PoolBudget: the sum of the approved rows' replicas.
Allocated == Cardinality(Granted)

\* Mutant: what is allocated already is forgotten.
CheckBudgetAlone(v) ==
  /\ at[v] = "budget"
  /\ StoreWorks(v)
  /\ IF Replicas(v) > TotalIdlePods THEN Answer(v, "budget_exceeded") ELSE Goto(v, "tenant")
  /\ UNCHANGED <<store, warmupVars>>

CheckBudget(v) ==
  /\ at[v] = "budget"
  /\ \/ /\ StoreWorks(v)
        /\ IF Replicas(v) > TotalIdlePods - Allocated
           THEN Answer(v, "budget_exceeded")
           ELSE Goto(v, "tenant")
     \/ StoreFails(v) /\ Answer(v, "error")
  /\ UNCHANGED <<store, warmupVars>>

Target(v) == PoolOf[Of[v]]

\* upsertPool as far as the read of the pool.
ReadPool(v) ==
  /\ at[v] = "tenant"
  /\ \/ /\ StoreWorks(v) /\ v \notin departed
        /\ seen' = [seen EXCEPT ![v] = pools[Target(v)].rv]
        /\ Goto(v, "pool")
     \/ (StoreFails(v) \/ KubeFails(v)) /\ Answer(v, "error") /\ UNCHANGED seen
  /\ UNCHANGED <<store, rows, pools>>

\* The pool upsertPool writes, given the one it read.
Upserted(v, pool) ==
  [rv |-> pool.rv + 1,
   replicas |-> Replicas(v),
   max |-> IF pool.max < Replicas(v) THEN Replicas(v) * 3 ELSE pool.max]

\* Mutant: a pool that could not be written is not an error.
WritePoolRegardless(v) ==
  /\ at[v] = "pool"
  /\ \/ KubeWorks(v) /\ seen[v] = pools[Target(v)].rv
        /\ pools' = [pools EXCEPT ![Target(v)] = Upserted(v, @)]
     \/ KubeFails(v) /\ UNCHANGED pools
  /\ Goto(v, "approve")
  /\ UNCHANGED <<store, rows, seen>>

\* Create and Update both fail when the pool is no longer as it was read.
WritePool(v) ==
  LET written == pools' = [pools EXCEPT ![Target(v)] = Upserted(v, @)]
      current == seen[v] = pools[Target(v)].rv
  IN
  /\ at[v] = "pool"
  /\ \/ KubeWorks(v) /\ current /\ written /\ Goto(v, "approve")
     \/ KubeWorks(v) /\ ~current /\ UNCHANGED pools /\ Answer(v, "error")
     \/ /\ KubeFails(v) /\ (UNCHANGED pools \/ (current /\ written))
        /\ Answer(v, "error")
  /\ UNCHANGED <<store, rows, seen>>

WarmupRestart ==
  /\ rows' = IF store = "memory"
             THEN [w \in Asks |-> [status |-> "absent", replicas |-> 0]] ELSE rows
  /\ UNCHANGED <<pools, seen>>

WarmupHandler(r) ==
  \/ requestWarmup(r) \/ ReadRequest(r) \/ Reject(r) \/ CheckBudget(r)
  \/ ReadPool(r) \/ WritePool(r) \/ SaveApproved(r)

WarmupStep == \E r \in Asks \cup Reviews : WarmupHandler(r)

-----------------------------------------------------------------------------
(* Properties.                                                             *)

\* An approved request has its pool, of a size some review of that pool
\* granted, whichever reviews raced for it and whatever failed half-way
\* (reviewWarmup: the pool is written before the decision is saved).
ApprovedHasPool ==
  \A w \in Approved :
    \E v \in Reviews : /\ Approve[v] /\ Target(v) = PoolOf[w]
                       /\ pools[PoolOf[w]].replicas = Replicas(v)
                       /\ pools[PoolOf[w]].max >= Replicas(v)

\* reviewWarmup reads the budget and saves its decision in two calls: reviews
\* that run beside one another overshoot the budget, by one grant each.
BudgetOvershootBounded ==
  store = "memory" =>
    Allocated <= TotalIdlePods + (MaxInFlight - 1) * Max({Replicas(v) : v \in Reviews} \cup {0})

-----------------------------------------------------------------------------
(* What comments of the code say and the code does not do.                 *)

\* reviewWarmup: what counts "is what is actually allocated, and deriving it
\* means the two can never disagree".
PoolsWithinBudget ==
  FoldFunctionOnSet(+, 0, [p \in Pools |-> pools[p].replicas], Pools) <= TotalIdlePods

\* reviewWarmup refuses a request that is not pending: a decision stands.
DecisionsStand ==
  [][\A w \in Asks : rows[w].status \in {"approved", "rejected"} => rows'[w] = rows[w]]_rows
=============================================================================
