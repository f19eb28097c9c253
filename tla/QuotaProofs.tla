----------------------------- MODULE QuotaProofs -----------------------------
(***************************************************************************)
(* How far the API server's two limits, a tenant's quota of sandboxes and  *)
(* the budget of idle Pods, can be passed when handlers that have read the *)
(* same total go on together: for every set of requests, every limit and   *)
(* every number of requests handled at a time.                             *)
(***************************************************************************)
EXTENDS ApiServerProofs, FiniteSetTheorems, WellFoundedInduction

-----------------------------------------------------------------------------
(* The quota.                                                              *)

\* Requests that checkQuota let through and that have not recorded a sandbox.
Past(t) == {r \in Creates : Tenant[r] = t /\ at[r] \in {"rate", "create", "record"}}

\* What a tenant has, or is about to have.
Committed(t) == Running(t) \cup Past(t)

QuotaInv ==
  /\ Cardinality(InFlight) <= MaxInFlight
  /\ MaxConcurrent > 0 =>
       \A t \in Tenants : Cardinality(Committed(t)) < MaxConcurrent + MaxInFlight

\* A request comes into flight only while there is room for it.
LEMMA InFlightStep ==
  ASSUME ServerTypes, [Next]_vars
  PROVE  \/ InFlight' \subseteq InFlight
         \/ \E r \in Requests : /\ Cardinality(InFlight) < MaxInFlight
                                /\ InFlight' \subseteq InFlight \cup {r}
PROOF
<1>1. at \in [Requests -> Steps]
  BY DEF ServerTypes, TypeOK, HandlersTypeOK
<1>2. ASSUME NEW r \in Requests, Arrives(r) \/ r \in InFlight,
             \E s, a : Goto(r, s) \/ Answer(r, a)
      PROVE  \/ InFlight' \subseteq InFlight
             \/ /\ Cardinality(InFlight) < MaxInFlight
                /\ InFlight' \subseteq InFlight \cup {r}
  BY <1>1, <1>2 DEF InFlight, Arrives, Goto, Answer
<1>3. ASSUME NEW r \in Creates, CreateHandler(r)
      PROVE  Arrives(r) \/ r \in InFlight
  BY <1>3, CreateAssumption, Zenon DEF CreateHandler, Lookup, CheckConcurrent, CheckRate, Create, Record, Save,
       Poll, Polled, InFlight
<1>4. ASSUME NEW r \in Asks \cup Reviews, WarmupHandler(r)
      PROVE  /\ Arrives(r) \/ r \in InFlight
             /\ \E s, a : Goto(r, s) \/ Answer(r, a)
  <2>1. Arrives(r) \/ r \in InFlight
    BY <1>4, WarmupAssumption DEF WarmupHandler, requestWarmup, ReadRequest, Reject, SaveApproved,
         SaveRequest, CheckBudget, ReadPool, WritePool, InFlight
  <2>2. \E s, a : Goto(r, s) \/ Answer(r, a)
    BY <1>4 DEF WarmupHandler, requestWarmup, ReadRequest, Reject, SaveApproved,
         SaveRequest, CheckBudget, ReadPool, WritePool
  <2>3. QED
    BY <2>1, <2>2
<1>5. CASE \E r \in Creates : CreateHandler(r)
  BY <1>2, <1>3, <1>5, CreateMoves, CreateAssumption
<1>6. CASE WarmupStep
  BY <1>2, <1>4, <1>6, WarmupAssumption, Zenon DEF WarmupStep
<1>7. CASE Restart
  BY <1>1, <1>7 DEF Restart, HandlersRestart, InFlight
<1>8. CASE UNCHANGED at
  BY <1>8, Zenon DEF InFlight
<1>9. QED
  BY <1>5, <1>6, <1>7, <1>8 DEF Next, CreateStep, ReadyTimeout, Settle, deleteSandbox, MinutePasses,
       Depart, handlerVars, vars

\* What a tenant has or is about to have grows only where checkQuota found
\* room.
LEMMA CommittedStep ==
  ASSUME ServerTypes, [Next]_vars, NEW t \in Tenants
  PROVE  \/ Committed(t)' \subseteq Committed(t)
         \/ /\ Running(t)' = Running(t)
            /\ MaxConcurrent > 0 => Cardinality(Running(t)) < MaxConcurrent
PROOF
<1>1. at \in [Requests -> Steps] /\ Creates \subseteq Requests
  BY CreateAssumption DEF ServerTypes, TypeOK, HandlersTypeOK
<1>2. ASSUME NEW r \in Creates, CreateHandler(r)
      PROVE  \/ Committed(t)' \subseteq Committed(t)
             \/ /\ Running(t)' = Running(t)
                /\ MaxConcurrent > 0 => Cardinality(Running(t)) < MaxConcurrent
  <2>1. CASE Lookup(r)
    <3>1. boxes' = boxes
      BY <2>1, Zenon DEF Lookup
    <3>2. \E s \in {"concurrent", "poll", "done"} : at' = [at EXCEPT ![r] = s]
      BY <2>1 DEF Lookup, Replay, Goto, Answer
    <3>3. QED
      BY <1>1, <3>1, <3>2 DEF Committed, Running, Past
  <2>2. CASE CheckConcurrent(r)
    <3>1. boxes' = boxes
      BY <2>2 DEF CheckConcurrent, createVars
    <3>2. CASE at' = [at EXCEPT ![r] = "done"]
      BY <1>1, <3>1, <3>2 DEF Committed, Running, Past
    <3>3. CASE /\ at' = [at EXCEPT ![r] = "rate"]
               /\ ~(MaxConcurrent > 0 /\ Cardinality(Running(Tenant[r])) >= MaxConcurrent)
      <4>1. CASE Tenant[r] = t
        <5>1. Cardinality(Running(t)) \in Nat
          <6>1. Running(t) \subseteq Requests
            BY <1>1 DEF Running, ServerTypes, TypeOK, CreateTypeOK
          <6>2. QED
            BY <6>1, RequestAssumption, FS_Subset, FS_CardinalityType
        <5>2. QED
          BY <3>1, <3>3, <4>1, <5>1, QuotaAssumption DEF Running
      <4>2. CASE Tenant[r] # t
        BY <1>1, <3>1, <3>3, <4>2 DEF Committed, Running, Past
      <4>3. QED
        BY <4>1, <4>2
    <3>4. QED
      BY <2>2, <3>2, <3>3, Zenon DEF CheckConcurrent, Goto, Answer
  <2>3. CASE CheckRate(r) \/ Create(r)
    <3>1. boxes' = boxes /\ at[r] \in {"rate", "create"}
      BY <2>3, Zenon DEF CheckRate, Create, createVars
    <3>2. \E s \in Steps : at' = [at EXCEPT ![r] = s]
      BY <2>3 DEF CheckRate, Create, Goto, Answer, Steps
    <3>3. QED
      BY <1>1, <3>1, <3>2, Zenon DEF Committed, Running, Past
  <2>4. CASE Record(r)
    <3>1. boxes' \subseteq boxes \cup {r} /\ at[r] = "record"
      BY <2>4 DEF Record, RecordSandbox
    <3>2. \E s \in {"poll", "save"} : at' = [at EXCEPT ![r] = s]
      BY <2>4, ZenonT(30) DEF Record, Goto
    <3>3. QED
      BY <1>1, <3>1, <3>2 DEF Committed, Running, Past
  <2>5. CASE Save(r) \/ Poll(r) \/ Polled(r)
    <3>1. boxes' = boxes
      BY <2>5, Zenon DEF Save, Poll, Polled
    <3>2. \E s \in {"poll", "polled", "done"} : at' = [at EXCEPT ![r] = s]
      BY <2>5, Zenon DEF Save, Poll, Polled, Waited, Waits, Goto, Answer
    <3>3. QED
      BY <1>1, <3>1, <3>2 DEF Committed, Running, Past
  <2>6. QED
    BY <1>2, <2>1, <2>2, <2>3, <2>4, <2>5 DEF CreateHandler
<1>3. ASSUME NEW r \in Asks \cup Reviews, WarmupHandler(r), UNCHANGED createVars
      PROVE  Committed(t)' \subseteq Committed(t)
  <2>1. boxes' = boxes
    BY <1>3, Zenon DEF createVars
  <2>2. \E s \in ReviewSteps \cup {"done"} : at' = [at EXCEPT ![r] = s]
    BY <1>3 DEF WarmupHandler, requestWarmup, ReadRequest, Reject, SaveApproved, SaveRequest,
         CheckBudget, ReadPool, WritePool, Goto, Answer, ReviewSteps
  <2>3. \A s \in ReviewSteps \cup {"done"} : s \notin {"rate", "create", "record"}
    BY DEF ReviewSteps
  <2>4. QED
    BY <1>1, <2>1, <2>2, <2>3 DEF Committed, Running, Past
<1>4. CASE Restart
  <2>1. boxes' \subseteq boxes
    BY <1>4 DEF Restart, CreateRestart
  <2>2. \A r \in Requests : at'[r] = at[r] \/ at'[r] = "done"
    BY <1>4 DEF Restart, HandlersRestart
  <2>3. QED
    BY <1>1, <2>1, <2>2 DEF Committed, Running, Past
<1>5. CASE UNCHANGED <<at, boxes>>
  BY <1>5 DEF Committed, Running, Past
<1>6. QED
  BY <1>2, <1>3, <1>4, <1>5 DEF Next, CreateStep, WarmupStep, ReadyTimeout, Settle, deleteSandbox,
       MinutePasses, Depart, handlerVars, createVars, vars

\* Both halves of the quota's invariant hold through every step: requests
\* that are past the check are in flight, so there are never more of them
\* than MaxInFlight on top of what the check saw.
LEMMA QuotaStep ==
  ASSUME ServerTypes, QuotaInv, [Next]_vars
  PROVE  QuotaInv'
PROOF
<1>1. ServerTypes'
  BY TypeStep
<1>2. /\ InFlight \subseteq Requests /\ InFlight' \subseteq Requests
      /\ IsFiniteSet(InFlight) /\ IsFiniteSet(InFlight')
      /\ Cardinality(InFlight) \in Nat /\ Cardinality(InFlight') \in Nat
  <2>1. InFlight \subseteq Requests /\ InFlight' \subseteq Requests
    BY DEF InFlight
  <2>2. QED
    BY <2>1, RequestAssumption, FS_Subset, FS_CardinalityType
<1>3. Cardinality(InFlight') <= MaxInFlight
  <2>1. CASE InFlight' \subseteq InFlight
    BY <1>2, <2>1, FS_Subset, HandlerBounds DEF QuotaInv
  <2>2. ASSUME NEW r \in Requests, Cardinality(InFlight) < MaxInFlight,
               InFlight' \subseteq InFlight \cup {r}
        PROVE  Cardinality(InFlight') <= MaxInFlight
    <3>1. /\ IsFiniteSet(InFlight \cup {r})
          /\ Cardinality(InFlight \cup {r}) \in Nat
          /\ Cardinality(InFlight \cup {r}) <= Cardinality(InFlight) + 1
      <4>1. /\ IsFiniteSet(InFlight \cup {r})
            /\ Cardinality(InFlight \cup {r}) =
                 IF r \in InFlight THEN Cardinality(InFlight) ELSE Cardinality(InFlight) + 1
        BY <1>2, FS_AddElement
      <4>2. QED
        BY <1>2, <4>1
    <3>2. Cardinality(InFlight') <= Cardinality(InFlight \cup {r})
      BY <2>2, <3>1, FS_Subset
    <3>3. QED
      BY <1>2, <2>2, <3>1, <3>2, HandlerBounds
  <2>3. QED
    BY <2>1, <2>2, InFlightStep
<1>4. ASSUME MaxConcurrent > 0, NEW t \in Tenants
      PROVE  Cardinality(Committed(t)') < MaxConcurrent + MaxInFlight
  <2>1. /\ Committed(t) \subseteq Requests /\ Committed(t)' \subseteq Requests
        /\ Running(t) \subseteq Requests /\ Past(t)' \subseteq InFlight'
    <3>1. boxes \subseteq Requests /\ boxes' \subseteq Requests /\ Creates \subseteq Requests
      BY <1>1, CreateAssumption DEF ServerTypes, TypeOK, CreateTypeOK
    <3>2. QED
      BY <3>1 DEF Committed, Running, Past, InFlight
  <2>2. /\ IsFiniteSet(Committed(t)) /\ IsFiniteSet(Committed(t)')
        /\ IsFiniteSet(Running(t)) /\ IsFiniteSet(Past(t)')
        /\ Cardinality(Committed(t)) \in Nat /\ Cardinality(Committed(t)') \in Nat
        /\ Cardinality(Running(t)) \in Nat /\ Cardinality(Past(t)') \in Nat
    BY <1>2, <2>1, RequestAssumption, FS_Subset, FS_CardinalityType
  <2>3. CASE Committed(t)' \subseteq Committed(t)
    <3>1. Cardinality(Committed(t)') <= Cardinality(Committed(t))
      BY <2>2, <2>3, FS_Subset
    <3>2. QED
      BY <1>4, <2>2, <3>1, HandlerBounds, QuotaAssumption DEF QuotaInv
  <2>4. CASE Running(t)' = Running(t) /\ Cardinality(Running(t)) < MaxConcurrent
    <3>1. Committed(t)' = Running(t) \cup Past(t)'
      BY <2>4 DEF Committed
    <3>2. Cardinality(Committed(t)') <= Cardinality(Running(t)) + Cardinality(Past(t)')
      <4>1. Cardinality(Running(t) \cap Past(t)') \in Nat
        BY <2>2, FS_Subset, FS_CardinalityType
      <4>2. QED
        BY <2>2, <3>1, <4>1, FS_Union
    <3>3. Cardinality(Past(t)') <= MaxInFlight
      BY <1>2, <1>3, <2>1, <2>2, FS_Subset, HandlerBounds
    <3>4. QED
      BY <2>2, <2>4, <3>2, <3>3, HandlerBounds, QuotaAssumption
  <2>5. QED
    BY <1>4, <2>3, <2>4, CommittedStep
<1>5. QED
  BY <1>3, <1>4 DEF QuotaInv

\* The quota's invariant holds in every reachable state.
LEMMA QuotaInvariance == Spec => []QuotaInv
PROOF
<1>1. Init => QuotaInv
  <2>1. SUFFICES ASSUME Init PROVE QuotaInv
    OBVIOUS
  <2>2. InFlight = {} /\ \A t \in Tenants : Committed(t) = {}
    BY <2>1, CreateAssumption DEF Init, HandlersInit, CreateInit, InFlight, Committed, Running, Past
  <2>3. QED
    BY <2>2, FS_EmptySet, HandlerBounds, QuotaAssumption DEF QuotaInv
<1>2. ServerTypes /\ QuotaInv /\ [Next]_vars => QuotaInv'
  BY QuotaStep
<1>3. QED
  BY <1>1, <1>2, TypesHold, PTL DEF Spec

\* However many requests of a tenant run beside one another, its sandboxes
\* stay below its quota plus the requests handled at a time (checkQuota and
\* RecordSandbox are two calls).
THEOREM QuotaOvershoot == Spec => []OvershootBounded
PROOF
<1>1. ServerTypes /\ QuotaInv => OvershootBounded
  <2>1. SUFFICES ASSUME ServerTypes, QuotaInv, MaxConcurrent > 0, NEW t \in Tenants
                 PROVE  Cardinality(Running(t)) < MaxConcurrent + MaxInFlight
    BY DEF OvershootBounded
  <2>2. Running(t) \subseteq Committed(t) /\ Committed(t) \subseteq Requests
    BY <2>1, CreateAssumption DEF Committed, Running, Past, ServerTypes, TypeOK, CreateTypeOK
  <2>3. /\ IsFiniteSet(Committed(t)) /\ Cardinality(Committed(t)) \in Nat
        /\ Cardinality(Running(t)) \in Nat
        /\ Cardinality(Running(t)) <= Cardinality(Committed(t))
    BY <2>2, RequestAssumption, FS_Subset, FS_CardinalityType
  <2>4. QED
    BY <2>1, <2>3, HandlerBounds, QuotaAssumption DEF QuotaInv
<1>2. QED
  BY <1>1, TypesHold, QuotaInvariance, PTL

-----------------------------------------------------------------------------
(* The budget.                                                             *)

\* A finite, non-empty set of numbers has a largest one, and Max is it.
LEMMA MaxOfFinite ==
  ASSUME NEW S \in SUBSET Nat, IsFiniteSet(S), S # {}
  PROVE  Max(S) \in S /\ \A n \in S : n <= Max(S)
PROOF
<1> DEFINE HasMax(U) == \E m \in U : \A n \in U : m >= n
           Bad == {U \in FiniteSubsetsOf(S) : U # {} /\ ~HasMax(U)}
<1>1. Bad = {}
  <2>1. SUFFICES ASSUME Bad # {} PROVE FALSE
    OBVIOUS
  <2>2. Bad \subseteq FiniteSubsetsOf(S)
    OBVIOUS
  <2>3. PICK U \in Bad : \A V \in Bad : <<V, U>> \notin StrictSubsetOrdering(S)
    BY <2>1, <2>2, FS_StrictSubsetOrderingWellFounded, WFMin, Zenon
  <2>4. PICK x \in U : TRUE
    BY <2>3
  <2>5. U \in SUBSET S /\ IsFiniteSet(U) /\ ~HasMax(U)
    BY <2>3 DEF FiniteSubsetsOf
  <2>6. IsFiniteSet(U \ {x}) /\ U \ {x} \in SUBSET S
    BY <2>5, FS_Subset
  <2>7. U \ {x} \notin Bad
    BY <2>3, <2>4, <2>5, <2>6, Zenon DEF StrictSubsetOrdering
  <2>8. CASE U \ {x} = {}
    BY <2>4, <2>5, <2>8
  <2>9. CASE HasMax(U \ {x})
    <3>1. PICK m \in U \ {x} : \A n \in U \ {x} : m >= n
      BY <2>9
    <3>2. m \in Nat /\ x \in Nat /\ \A n \in U : n \in Nat
      BY <2>4, <2>5, <3>1
    <3>3. CASE m >= x
      BY <2>5, <3>1, <3>3
    <3>4. CASE x >= m
      <4>1. \A n \in U : x >= n
        BY <3>1, <3>2, <3>4
      <4>2. QED
        BY <2>4, <2>5, <4>1
    <3>5. QED
      BY <3>2, <3>3, <3>4
  <2>10. QED
    BY <2>6, <2>7, <2>8, <2>9 DEF FiniteSubsetsOf
<1>2. HasMax(S)
  BY <1>1 DEF FiniteSubsetsOf
<1>3. Max(S) \in S /\ \A n \in S : Max(S) >= n
  BY <1>2, Zenon DEF Max
<1>4. QED
  BY <1>3

\* The largest grant a review makes.
Largest == Max({Replicas(v) : v \in Reviews} \cup {0})

\* It bounds every grant.
LEMMA LargestBounds == Largest \in Nat /\ \A v \in Reviews : Replicas(v) <= Largest
PROOF
<1> DEFINE Grants == {Replicas(v) : v \in Reviews}
           grant == [v \in Reviews |-> Replicas(v)]
<1>1. Grants \subseteq Nat
  BY ReviewsTyped
<1>2. IsFiniteSet(Reviews)
  BY WarmupAssumption, RequestAssumption, FS_Subset
<1>3. grant \in Surjection(Reviews, Grants)
  BY DEF Surjection
<1>4. IsFiniteSet(Grants)
  BY <1>2, <1>3, FS_Surjection
<1>5. IsFiniteSet(Grants \cup {0}) /\ Grants \cup {0} \in SUBSET Nat /\ Grants \cup {0} # {}
  BY <1>1, <1>4, FS_AddElement
<1>6. /\ Max(Grants \cup {0}) \in Grants \cup {0}
      /\ \A n \in Grants \cup {0} : n <= Max(Grants \cup {0})
  <2> HIDE DEF Grants
  <2>1. QED
    BY <1>5, MaxOfFinite
<1>7. QED
  BY <1>1, <1>6 DEF Largest

\* Reviews that CheckBudget let through and that have not saved their
\* decision, and the Pods they are about to grant.
Promising == {v \in Reviews : at[v] \in {"tenant", "pool", "approve"}}
Promised == UNION {{v} \X (1..Replicas(v)) : v \in Promising}

BudgetInv ==
  store = "memory" =>
    /\ \A w \in Approved : rows[w].replicas <= Largest
    /\ Allocated + Cardinality(Promised) <= TotalIdlePods + (MaxInFlight - 1) * Largest

\* What reviews promise is finite, and at most the largest grant each.
LEMMA PromisesBounded ==
  ASSUME NEW P, P \subseteq Reviews, NEW G, G = UNION {{v} \X (1..Replicas(v)) : v \in P}
  PROVE  /\ IsFiniteSet(P) /\ Cardinality(P) \in Nat
         /\ IsFiniteSet(G) /\ Cardinality(G) \in Nat
         /\ Cardinality(G) <= Cardinality(P) * Largest
PROOF
<1>1. Largest \in Nat /\ \A v \in Reviews : Replicas(v) \in Nat /\ Replicas(v) <= Largest
  BY LargestBounds, ReviewsTyped
<1>2. IsFiniteSet(P) /\ Cardinality(P) \in Nat
  BY WarmupAssumption, RequestAssumption, FS_Subset, FS_CardinalityType
<1>3. IsFiniteSet(1..Largest) /\ Cardinality(1..Largest) = Largest
  BY <1>1, FS_Interval
<1>4. G \subseteq P \X (1..Largest)
  <2>1. SUFFICES ASSUME NEW v \in P, NEW i \in 1..Replicas(v) PROVE i \in 1..Largest
    OBVIOUS
  <2>2. QED
    BY <1>1, <2>1
<1>5. /\ IsFiniteSet(P \X (1..Largest))
      /\ Cardinality(P \X (1..Largest)) = Cardinality(P) * Largest
  BY <1>2, <1>3, FS_Product, Zenon
<1>6. QED
  BY <1>2, <1>4, <1>5, FS_Subset, FS_CardinalityType

\* What approved requests hold is finite.
LEMMA GrantsFinite ==
  ASSUME ServerTypes, \A w \in Approved : rows[w].replicas <= Largest
  PROVE  IsFiniteSet(Granted) /\ Allocated \in Nat
PROOF
<1>1. Largest \in Nat /\ \A w \in Asks : rows[w].replicas \in Nat
  BY LargestBounds DEF ServerTypes, TypeOK, WarmupTypeOK
<1>2. IsFiniteSet(Asks)
  BY WarmupAssumption, RequestAssumption, FS_Subset
<1>3. Granted \subseteq Asks \X (1..Largest)
  <2>1. SUFFICES ASSUME NEW w \in Approved, NEW i \in 1..rows[w].replicas
                 PROVE  w \in Asks /\ i \in 1..Largest
    BY DEF Granted
  <2>2. QED
    BY <1>1, <2>1 DEF Approved
<1>4. IsFiniteSet(Asks \X (1..Largest))
  <2>1. IsFiniteSet(1..Largest)
    BY <1>1, FS_Interval
  <2>2. QED
    BY <1>2, <2>1, FS_Product, Zenon
<1>5. QED
  BY <1>3, <1>4, FS_Subset, FS_CardinalityType DEF Allocated

\* A step that gives no approved request more and lets no review past the
\* check keeps the bound.
LEMMA ShrinkingKeepsBudget ==
  ASSUME ServerTypes, BudgetInv, store' = store,
         Approved' \subseteq Approved, \A w \in Approved' : rows'[w] = rows[w],
         Promising' \subseteq Promising
  PROVE  BudgetInv'
PROOF
<1>1. SUFFICES ASSUME store = "memory"
               PROVE  /\ \A w \in Approved' : rows'[w].replicas <= Largest
                      /\ Allocated' + Cardinality(Promised')
                           <= TotalIdlePods + (MaxInFlight - 1) * Largest
  BY DEF BudgetInv, Largest, Replicas
<1>2. IsFiniteSet(Granted) /\ Allocated \in Nat
  BY <1>1, GrantsFinite DEF BudgetInv
<1>3. Granted' \subseteq Granted
  BY DEF Granted
<1>4. Allocated' \in Nat /\ Allocated' <= Allocated
  BY <1>2, <1>3, FS_Subset, FS_CardinalityType DEF Allocated
<1>5. IsFiniteSet(Promised) /\ Cardinality(Promised) \in Nat
  BY PromisesBounded, Zenon DEF Promised, Promising
<1>6. Promised' \subseteq Promised
  BY Zenon DEF Promised, Replicas
<1>7. Cardinality(Promised') \in Nat /\ Cardinality(Promised') <= Cardinality(Promised)
  BY <1>5, <1>6, FS_Subset, FS_CardinalityType
<1>8. Largest \in Nat /\ (MaxInFlight - 1) * Largest \in Nat /\ TotalIdlePods \in Nat
  BY LargestBounds, HandlerBounds, WarmupAssumption
<1>9. QED
  BY <1>1, <1>2, <1>4, <1>5, <1>7, <1>8 DEF BudgetInv

\* n Pods of one request are n.
LEMMA PodsOfOne ==
  ASSUME NEW x, NEW n \in Nat
  PROVE  IsFiniteSet({x} \X (1..n)) /\ Cardinality({x} \X (1..n)) = n
PROOF
<1>1. IsFiniteSet({x}) /\ Cardinality({x}) = 1
  BY FS_Singleton
<1>2. IsFiniteSet(1..n) /\ Cardinality(1..n) = n
  BY FS_Interval
<1>3. /\ IsFiniteSet({x} \X (1..n))
      /\ Cardinality({x} \X (1..n)) = Cardinality({x}) * Cardinality(1..n)
  BY <1>1, <1>2, FS_Product, Zenon
<1>4. QED
  BY <1>1, <1>2, <1>3

\* A review that finds room in the budget is one of those in flight: the
\* others promise at most the largest grant each, and it promises what is left.
LEMMA CheckKeepsBudget ==
  ASSUME ServerTypes, BudgetInv, Cardinality(InFlight) <= MaxInFlight,
         NEW v \in Reviews, at[v] = "budget", at' = [at EXCEPT ![v] = "tenant"],
         UNCHANGED <<store, rows>>, ~(Replicas(v) > TotalIdlePods - Allocated)
  PROVE  BudgetInv'
PROOF
<1>1. SUFFICES ASSUME store = "memory"
               PROVE  /\ \A w \in Approved' : rows'[w].replicas <= Largest
                      /\ Allocated' + Cardinality(Promised')
                           <= TotalIdlePods + (MaxInFlight - 1) * Largest
  BY ZenonT(30) DEF BudgetInv, Largest, Replicas
<1>2. Approved' = Approved /\ Allocated' = Allocated
  BY Zenon DEF Approved, Allocated, Granted
<1>3. Allocated \in Nat
  BY <1>1, GrantsFinite DEF BudgetInv
<1>4. at \in [Requests -> Steps] /\ v \in Requests /\ Replicas(v) \in Nat /\ Reviews \subseteq Requests
  BY ReviewsTyped, WarmupAssumption DEF ServerTypes, TypeOK, HandlersTypeOK
<1>5. Promising' = Promising \cup {v} /\ v \notin Promising
  BY <1>4, Zenon DEF Promising
<1>6. /\ IsFiniteSet(Promising) /\ Cardinality(Promising) \in Nat
      /\ IsFiniteSet(Promised) /\ Cardinality(Promised) \in Nat
      /\ Cardinality(Promised) <= Cardinality(Promising) * Largest
  BY PromisesBounded, Zenon DEF Promised, Promising
<1>7. Cardinality(Promising) <= MaxInFlight - 1
  <2>1. IsFiniteSet(InFlight) /\ Cardinality(InFlight) \in Nat
    BY RequestAssumption, FS_Subset, FS_CardinalityType DEF InFlight
  <2>2. Promising \cup {v} \subseteq InFlight
    BY <1>4 DEF Promising, InFlight
  <2>3. Cardinality(Promising \cup {v}) = Cardinality(Promising) + 1
    BY <1>5, <1>6, FS_AddElement, Zenon
  <2>4. Cardinality(Promising \cup {v}) <= Cardinality(InFlight)
    BY <2>1, <2>2, FS_Subset, Zenon
  <2>5. QED
    BY <1>6, <2>1, <2>3, <2>4, HandlerBounds
<1>8. Cardinality(Promised') <= Cardinality(Promised) + Replicas(v) /\ Cardinality(Promised') \in Nat
  <2> DEFINE its == {v} \X (1..Replicas(v))
  <2>1. Promised' = Promised \cup its
    BY <1>5, Zenon DEF Promised, Replicas
  <2>2. IsFiniteSet(its) /\ Cardinality(its) = Replicas(v)
    BY <1>4, PodsOfOne, Zenon
  <2> HIDE DEF its
  <2>3. /\ IsFiniteSet(Promised')
        /\ Cardinality(Promised') = Cardinality(Promised) + Cardinality(its) - Cardinality(Promised \cap its)
    BY <1>6, <2>1, <2>2, FS_Union
  <2>4. Cardinality(Promised \cap its) \in Nat
    BY <1>6, FS_Intersection, FS_CardinalityType, Zenon
  <2>5. QED
    BY <1>4, <1>6, <2>2, <2>3, <2>4, FS_CardinalityType
<1>9. Cardinality(Promising) * Largest <= (MaxInFlight - 1) * Largest
  <2>1. Largest \in Nat /\ MaxInFlight - 1 \in Nat
    BY LargestBounds, HandlerBounds
  <2>2. \A a, b, c \in Nat : a <= b => a * c <= b * c
    OBVIOUS
  <2>3. QED
    BY <1>6, <1>7, <2>1, <2>2
<1>10. QED
  <2>1. Largest \in Nat /\ MaxInFlight - 1 \in Nat /\ TotalIdlePods \in Nat
    BY LargestBounds, HandlerBounds, WarmupAssumption
  <2>2. Cardinality(Promising) * Largest \in Nat /\ (MaxInFlight - 1) * Largest \in Nat
    BY <1>6, <2>1
  <2>3. Allocated + Replicas(v) <= TotalIdlePods
    BY <1>3, <1>4, <2>1
  <2>4. Allocated' + Cardinality(Promised') <= TotalIdlePods + (MaxInFlight - 1) * Largest
    BY <1>2, <1>3, <1>4, <1>6, <1>8, <1>9, <2>1, <2>2, <2>3
  <2>5. QED
    BY <1>1, <1>2, <2>4 DEF BudgetInv

\* Saving an approval turns what the review promised into what its request
\* holds (MemStore.SaveWarmupRequest).
LEMMA SaveKeepsBudget ==
  ASSUME ServerTypes, BudgetInv, NEW v \in Reviews, at[v] = "approve",
         at' = [at EXCEPT ![v] = "done"], UNCHANGED store,
         store = "memory" =>
           rows' = [rows EXCEPT ![Of[v]] = MemSaveWarmupRequest(v, "approved")]
  PROVE  BudgetInv'
PROOF
<1>1. SUFFICES ASSUME store = "memory"
               PROVE  /\ \A w \in Approved' : rows'[w].replicas <= Largest
                      /\ Allocated' + Cardinality(Promised')
                           <= TotalIdlePods + (MaxInFlight - 1) * Largest
  BY DEF BudgetInv, Largest, Replicas
<1>2. /\ at \in [Requests -> Steps] /\ v \in Requests /\ Replicas(v) \in Nat /\ Of[v] \in Asks
      /\ rows \in [Asks -> [status: {"absent", "pending", "approved", "rejected"}, replicas: Nat]]
      /\ Reviews \subseteq Requests
  BY ReviewsTyped, WarmupAssumption, Zenon DEF ServerTypes, TypeOK, HandlersTypeOK, WarmupTypeOK
<1>3. rows'[Of[v]].replicas = Replicas(v) /\ \A w \in Asks \ {Of[v]} : rows'[w] = rows[w]
  BY <1>1, <1>2 DEF MemSaveWarmupRequest
<1>4. Approved' \subseteq Approved \cup {Of[v]} /\ Approved' \subseteq Asks
  BY <1>3, Zenon DEF Approved
<1>5. \A w \in Approved' : rows'[w].replicas <= Largest
  BY <1>1, <1>3, <1>4, LargestBounds, Zenon DEF BudgetInv
<1> DEFINE held == {Of[v]} \X (1..Replicas(v))
           its  == {v} \X (1..Replicas(v))
<1>6. IsFiniteSet(Granted) /\ Allocated \in Nat
  BY <1>1, GrantsFinite, Zenon DEF BudgetInv
<1>7. Allocated' \in Nat /\ Allocated' <= Allocated + Replicas(v)
  <2>1. Granted' \subseteq Granted \cup held
    <3>1. SUFFICES ASSUME NEW w \in Approved', NEW i \in 1..rows'[w].replicas
                   PROVE  <<w, i>> \in Granted \cup held
      BY DEF Granted
    <3>2. CASE w = Of[v]
      BY <1>3, <3>1, <3>2, Zenon
    <3>3. CASE w # Of[v]
      BY <1>3, <1>4, <3>1, <3>3 DEF Granted
    <3>4. QED
      BY <3>2, <3>3, Zenon
  <2>2. IsFiniteSet(held) /\ Cardinality(held) = Replicas(v)
    BY <1>2, PodsOfOne, ZenonT(30)
  <2> HIDE DEF held
  <2>3. /\ IsFiniteSet(Granted \cup held)
        /\ Cardinality(Granted \cup held)
             = Cardinality(Granted) + Cardinality(held) - Cardinality(Granted \cap held)
    BY <1>6, <2>2, FS_Union
  <2>4. Cardinality(Granted \cap held) \in Nat /\ Cardinality(Granted \cup held) \in Nat
    BY <1>6, <2>3, FS_Intersection, FS_CardinalityType, Zenon
  <2>5. /\ IsFiniteSet(Granted') /\ Cardinality(Granted') \in Nat
        /\ Cardinality(Granted') <= Cardinality(Granted \cup held)
    BY <2>1, <2>3, FS_Subset, FS_CardinalityType, Zenon
  <2>6. QED
    BY <1>2, <1>6, <2>2, <2>3, <2>4, <2>5 DEF Allocated
<1>8. Cardinality(Promised') \in Nat /\ Cardinality(Promised) = Cardinality(Promised') + Replicas(v)
  <2>1. Promising = Promising' \cup {v} /\ v \notin Promising' /\ Promising' \subseteq Reviews
    BY <1>2 DEF Promising
  <2>2. Promised = Promised' \cup its /\ Promised' \cap its = {}
    <3>1. \A x : x \in Promised <=> \E u \in Promising : x \in {u} \X (1..Replicas(u))
      BY Zenon DEF Promised
    <3>2. \A x : x \in Promised' <=> \E u \in Promising' : x \in {u} \X (1..Replicas(u))
      BY DEF Promised, Replicas
    <3>3. Promised = Promised' \cup its
      BY <2>1, <3>1, <3>2
    <3>4. Promised' \cap its = {}
      BY <2>1, <3>2
    <3>5. QED
      BY <3>3, <3>4
  <2>3. IsFiniteSet(its) /\ Cardinality(its) = Replicas(v)
    BY <1>2, PodsOfOne, Zenon
  <2>4. Promised' = UNION {{u} \X (1..Replicas(u)) : u \in Promising'}
    BY DEF Promised, Replicas
  <2>5. IsFiniteSet(Promised') /\ Cardinality(Promised') \in Nat
    BY <2>1, <2>4, PromisesBounded, Zenon
  <2> HIDE DEF its
  <2>6. Cardinality(Promised) = Cardinality(Promised') + Cardinality(its) - Cardinality({})
    BY <2>2, <2>3, <2>5, FS_Union
  <2>7. QED
    BY <1>2, <2>3, <2>5, <2>6, FS_EmptySet
<1>9. Allocated' + Cardinality(Promised') <= TotalIdlePods + (MaxInFlight - 1) * Largest
  <2>1. (MaxInFlight - 1) * Largest \in Nat /\ TotalIdlePods \in Nat
    BY LargestBounds, HandlerBounds, WarmupAssumption
  <2>2. QED
    BY <1>1, <1>2, <1>6, <1>7, <1>8, <2>1 DEF BudgetInv
<1>10. QED
  BY <1>5, <1>9

\* Every step keeps the bound.
LEMMA BudgetStep ==
  ASSUME ServerTypes, QuotaInv, BudgetInv, [Next]_vars
  PROVE  BudgetInv'
PROOF
<1>1. /\ at \in [Requests -> Steps] /\ Reviews \subseteq Requests /\ Asks \subseteq Requests
      /\ rows \in [Asks -> [status: {"absent", "pending", "approved", "rejected"}, replicas: Nat]]
  BY WarmupAssumption DEF ServerTypes, TypeOK, HandlersTypeOK, WarmupTypeOK
<1>2. ASSUME NEW r \in Creates, CreateHandler(r), UNCHANGED warmupVars
      PROVE  BudgetInv'
  <2>1. r \notin Reviews /\ r \in Requests
    BY KindsAssumption, CreateAssumption
  <2>2. Promising' \subseteq Promising
    BY <1>1, <1>2, <2>1, CreateMoves, Zenon DEF Goto, Answer, Promising
  <2>3. rows' = rows /\ Approved' = Approved
    BY <1>2 DEF warmupVars, Approved
  <2>4. store' = store
    BY <1>2, Zenon DEF CreateHandler, Lookup, CheckConcurrent, CheckRate, Create, Record, Save, Poll, Polled
  <2>5. QED
    BY <2>2, <2>3, <2>4, ShrinkingKeepsBudget
<1>3. ASSUME NEW r \in Asks \cup Reviews, WarmupHandler(r)
      PROVE  BudgetInv'
  <2>1. at[r] \in ReviewSteps => r \in Reviews /\ Of[r] \in Asks
    BY <1>1, <1>3, ReviewsTyped, Zenon DEF ServerTypes, ReviewsOnly
  <2>2. CASE requestWarmup(r)
    <3>1. /\ store' = store
          /\ rows' = rows \/ rows' = [rows EXCEPT ![r] = [status |-> "pending", replicas |-> Asked[r]]]
      BY <2>2, Zenon DEF requestWarmup
    <3>2. Approved' \subseteq Approved /\ \A w \in Approved' : rows'[w] = rows[w]
      BY <1>1, <3>1 DEF Approved
    <3>3. Promising' \subseteq Promising
      BY <1>1, <2>2 DEF requestWarmup, Answer, Promising
    <3>4. QED
      BY <3>1, <3>2, <3>3, ShrinkingKeepsBudget, Zenon
  <2>3. CASE ReadRequest(r)
    <3>1. Approved' = Approved /\ store' = store /\ rows' = rows
      BY <2>3 DEF ReadRequest, warmupVars, Approved
    <3>2. Promising' \subseteq Promising
      BY <1>1, <2>3 DEF ReadRequest, Goto, Answer, Promising
    <3>3. QED
      BY <3>1, <3>2, ShrinkingKeepsBudget
  <2>4. CASE Reject(r)
    <3>1. Approved' \subseteq Approved /\ store' = store /\ \A w \in Approved' : rows'[w] = rows[w]
      BY <1>1, <2>1, <2>4 DEF Reject, SaveRequest, ReviewSteps, Approved, MemSaveWarmupRequest,
           PGSaveWarmupRequest
    <3>2. Promising' \subseteq Promising
      BY <1>1, <2>4, Zenon DEF Reject, SaveRequest, Answer, Promising
    <3>3. QED
      BY <3>1, <3>2, ShrinkingKeepsBudget
  <2>5. CASE CheckBudget(r)
    <3>1. rows' = rows /\ store' = store /\ Approved' = Approved /\ at[r] = "budget" /\ r \in Reviews
      BY <2>1, <2>5 DEF CheckBudget, warmupVars, ReviewSteps, Approved
    <3>2. CASE at' = [at EXCEPT ![r] = "done"]
      <4>1. Promising' \subseteq Promising
        BY <1>1, <3>2 DEF Promising
      <4>2. QED
        BY <3>1, <4>1, ShrinkingKeepsBudget
    <3>3. CASE at' = [at EXCEPT ![r] = "tenant"] /\ ~(Replicas(r) > TotalIdlePods - Allocated)
      BY <3>1, <3>3, CheckKeepsBudget, ZenonT(30) DEF QuotaInv
    <3>4. QED
      BY <2>5, <3>2, <3>3 DEF CheckBudget, Goto, Answer
  <2>6. CASE ReadPool(r) \/ WritePool(r)
    <3>1. /\ rows' = rows /\ store' = store /\ Approved' = Approved /\ at[r] \in {"tenant", "pool"}
          /\ r \in Reviews
      BY <2>1, <2>6, Zenon DEF ReadPool, WritePool, ReviewSteps, Approved
    <3>2. \E s \in {"pool", "approve", "done"} : at' = [at EXCEPT ![r] = s]
      BY <2>6, Zenon DEF ReadPool, WritePool, Goto, Answer
    <3>3. Promising' \subseteq Promising
      BY <1>1, <3>1, <3>2 DEF Promising
    <3>4. QED
      BY <3>1, <3>3, ShrinkingKeepsBudget
  <2>7. CASE SaveApproved(r)
    <3>1. r \in Reviews /\ at[r] = "approve" /\ at' = [at EXCEPT ![r] = "done"] /\ store' = store
      BY <2>1, <2>7, Zenon DEF SaveApproved, SaveRequest, ReviewSteps, Answer
    <3>2. store = "memory" => rows' = [rows EXCEPT ![Of[r]] = MemSaveWarmupRequest(r, "approved")]
      BY <2>7, Zenon DEF SaveApproved, SaveRequest, StoreFails
    <3>3. QED
      BY <3>1, <3>2, SaveKeepsBudget, ZenonT(30)
  <2>8. QED
    BY <1>3, <2>2, <2>3, <2>4, <2>5, <2>6, <2>7, Zenon DEF WarmupHandler
<1>4. CASE Restart
  <2>1. Approved' \subseteq Approved /\ store' = store /\ \A w \in Approved' : rows'[w] = rows[w]
    BY <1>1, <1>4 DEF Restart, HandlersRestart, WarmupRestart, Approved
  <2>2. Promising' \subseteq Promising
    BY <1>1, <1>4 DEF Restart, HandlersRestart, Promising
  <2>3. QED
    BY <2>1, <2>2, ShrinkingKeepsBudget, Zenon
<1>5. CASE UNCHANGED <<store, at, rows>>
  <2>1. Approved' = Approved /\ Promising' = Promising
    BY <1>5 DEF Approved, Promising
  <2>2. QED
    BY <1>5, <2>1, ShrinkingKeepsBudget
<1>6. QED
  BY <1>2, <1>3, <1>4, <1>5, Zenon DEF Next, CreateStep, WarmupStep, ReadyTimeout, Settle, deleteSandbox,
       MinutePasses, Depart, handlerVars, warmupVars, vars

\* However many reviews run beside one another, what they approve together
\* exceeds the budget by less than one largest grant per request handled at a
\* time (reviewWarmup calls PoolBudget and SaveWarmupRequest separately).
THEOREM BudgetOvershoot == Spec => []BudgetOvershootBounded
PROOF
<1>1. Init => BudgetInv
  <2>1. SUFFICES ASSUME Init PROVE BudgetInv
    OBVIOUS
  <2>2. Approved = {} /\ Promising = {}
    BY <2>1, WarmupAssumption, Zenon DEF Init, WarmupInit, HandlersInit, Approved, Promising
  <2>3. Granted = {} /\ Promised = {}
    BY <2>2 DEF Granted, Promised
  <2>4. Allocated + Cardinality(Promised) = 0
    BY <2>3, FS_EmptySet DEF Allocated
  <2>5. (MaxInFlight - 1) * Largest \in Nat /\ TotalIdlePods \in Nat
    BY LargestBounds, HandlerBounds, WarmupAssumption
  <2>6. QED
    BY <2>2, <2>4, <2>5 DEF BudgetInv
<1>2. ServerTypes /\ QuotaInv /\ BudgetInv /\ [Next]_vars => BudgetInv'
  BY BudgetStep
<1>3. ServerTypes /\ BudgetInv => BudgetOvershootBounded
  <2>1. SUFFICES ASSUME ServerTypes, BudgetInv, store = "memory"
                 PROVE  Allocated <= TotalIdlePods + (MaxInFlight - 1) * Largest
    BY DEF BudgetOvershootBounded, Largest
  <2>2. Allocated \in Nat
    BY <2>1, GrantsFinite DEF BudgetInv
  <2>3. Cardinality(Promised) \in Nat
    BY PromisesBounded, Zenon DEF Promised, Promising
  <2>4. (MaxInFlight - 1) * Largest \in Nat /\ TotalIdlePods \in Nat
    BY LargestBounds, HandlerBounds, WarmupAssumption
  <2>5. QED
    BY <2>1, <2>2, <2>3, <2>4 DEF BudgetInv
<1>4. QED
  BY <1>1, <1>2, <1>3, TypesHold, QuotaInvariance, PTL DEF Spec
=============================================================================
