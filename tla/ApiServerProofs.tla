---------------------------- MODULE ApiServerProofs ----------------------------
(***************************************************************************)
(* What the API server's handlers guarantee for every set of requests,     *)
(* every quota and every number of requests handled at a time.             *)
(***************************************************************************)
EXTENDS ApiServer, TLAPS

\* Steps of reviewWarmup are steps of reviews only.
ReviewSteps == {"reject", "budget", "tenant", "pool", "approve"}
ReviewsOnly == \A r \in Requests : at[r] \in ReviewSteps => r \in Reviews

ServerTypes == TypeOK /\ ReviewsOnly

-----------------------------------------------------------------------------
\* A query or a write counts at most one fault, within the bound.
LEMMA FaultsCounted ==
  ASSUME HandlersTypeOK, NEW r, NEW kind,
         StoreWorks(r) \/ StoreFails(r) \/ KubeWorks(r) \/ KubeFails(r) \/ Fault(kind)
           \/ UNCHANGED faults
  PROVE  faults' \in 0..MaxFaults
PROOF
  BY HandlerBounds DEF HandlersTypeOK, StoreWorks, StoreFails, KubeWorks, KubeFails, Fault

\* Going on to a step, or answering, keeps the types of what every handler
\* has.
LEMMA MovesTyped ==
  ASSUME HandlersTypeOK, NEW r \in Requests, NEW s \in Steps, NEW a \in Responses,
         Goto(r, s) \/ Answer(r, a)
  PROVE  /\ at' \in [Requests -> Steps] /\ answer' \in [Requests -> Responses]
         /\ departed' \subseteq Requests
PROOF
<1>1. "done" \in Steps /\ "lost" \in Responses
  BY DEF Steps, Responses
<1>2. QED
  BY <1>1 DEF HandlersTypeOK, Goto, Answer

CreateSteps == {"concurrent", "rate", "create", "record", "save", "poll", "polled"}

\* A step of createSandbox goes on within createSandbox, or answers.
LEMMA CreateMoves ==
  ASSUME NEW r \in Creates, CreateHandler(r)
  PROVE  (\E s \in CreateSteps : Goto(r, s)) \/ (\E a \in Responses : Answer(r, a))
PROOF
<1>1. {"ok", "blank", "refused", "not_found", "mismatch", "quota_concurrent",
       "quota_create_rate", "error"} \subseteq Responses
  BY DEF Responses
<1>2. CASE Lookup(r)
  BY <1>1, <1>2 DEF Lookup, Replay, CreateSteps
<1>3. CASE CheckConcurrent(r) \/ CheckRate(r)
  BY <1>1, <1>3 DEF CheckConcurrent, CheckRate, CreateSteps
<1>4. CASE Create(r)
  BY <1>1, <1>4 DEF Create, CreateSteps
<1>5. CASE Record(r) \/ Save(r)
  BY <1>5 DEF Record, Save, CreateSteps
<1>6. CASE Poll(r) \/ Polled(r)
  BY <1>1, <1>6 DEF Poll, Polled, Waited, Waits, CreateSteps
<1>7. QED
  BY <1>2, <1>3, <1>4, <1>5, <1>6 DEF CreateHandler

\* The types of what all handlers share hold through every step of
\* createSandbox, and none of them is a step of reviewWarmup.
LEMMA HandlersTypeCreate ==
  ASSUME HandlersTypeOK, ReviewsOnly, NEW r \in Creates, CreateHandler(r)
  PROVE  HandlersTypeOK' /\ ReviewsOnly'
PROOF
<1>1. r \in Requests
  BY CreateAssumption, Zenon
<1>2. faults' \in 0..MaxFaults /\ store' = store
  BY FaultsCounted DEF CreateHandler, Lookup, CheckConcurrent, CheckRate, Create, Record, Save, Poll,
       Polled
<1>3. CreateSteps \cup {"done"} \subseteq Steps \ ReviewSteps
  BY DEF Steps, ReviewSteps, CreateSteps
<1>4. "lost" \in Responses
  BY DEF Responses
<1>5. HandlersTypeOK'
  BY <1>1, <1>2, <1>3, <1>4, CreateMoves, MovesTyped DEF HandlersTypeOK
<1>6. ReviewsOnly'
  BY <1>1, <1>3, CreateMoves DEF ReviewsOnly, HandlersTypeOK, Goto, Answer
<1>7. QED
  BY <1>5, <1>6

\* The tables of createSandbox keep their types: rows and idempotency records
\* name requests that created a sandbox, and an aged row is a row.
LEMMA CreateTypeStep ==
  ASSUME CreateTypeOK, NEW r \in Creates,
         CreateHandler(r) \/ ReadyTimeout(r) \/ Settle(r) \/ deleteSandbox(r) \/ MinutePasses(r)
  PROVE  CreateTypeOK'
PROOF
<1>1. CASE Lookup(r)
  <2>1. CASE UNCHANGED sandbox
    BY <1>1, <2>1 DEF Lookup, CreateTypeOK
  <2>2. CASE ~Unknown(r) /\ sandbox' = [sandbox EXCEPT ![r] = idem[Slot(r)]]
    <3>1. idem[Slot(r)] \in Creates \cup {None}
      BY <2>2, CreateAssumption, Zenon DEF Unknown, Slot, Slots, CreateTypeOK
    <3>2. QED
      BY <1>1, <2>2, <3>1 DEF Lookup, CreateTypeOK
  <2>3. QED
    BY <1>1, <2>1, <2>2 DEF Lookup, Replay
<1>2. CASE CheckConcurrent(r) \/ CheckRate(r)
  BY <1>2 DEF CheckConcurrent, CheckRate, createVars, CreateTypeOK
<1>3. CASE Create(r)
  BY <1>3 DEF Create, NewObject, CreateTypeOK
<1>4. CASE Record(r)
  BY <1>4 DEF Record, RecordSandbox, CreateTypeOK
<1>5. CASE Save(r)
  BY <1>5 DEF Save, MemSaveIdempotency, PGSaveIdempotency, CreateTypeOK
<1>6. CASE Poll(r)
  BY <1>6 DEF Poll, Waited, Waits, CreateTypeOK
<1>7. CASE Polled(r)
  BY <1>7 DEF Polled, Waited, Waits, CreateTypeOK
<1>8. CASE ReadyTimeout(r) \/ Settle(r) \/ deleteSandbox(r) \/ MinutePasses(r)
  BY <1>8 DEF ReadyTimeout, Settle, deleteSandbox, MinutePasses, CreateTypeOK
<1>9. QED
  BY <1>1, <1>2, <1>3, <1>4, <1>5, <1>6, <1>7, <1>8 DEF CreateHandler

\* The pool a review is about is a pool, and what it grants a number.
LEMMA ReviewsTyped ==
  ASSUME NEW v \in Reviews
  PROVE  v \in Requests /\ Of[v] \in Asks /\ Target(v) \in Pools /\ Replicas(v) \in Nat
PROOF
  BY WarmupAssumption DEF Target, Pools, Replicas

\* The warm-up table and the pools keep their types, and only reviews go
\* through the steps of reviewWarmup.
LEMMA WarmupTypeStep ==
  ASSUME HandlersTypeOK, WarmupTypeOK, ReviewsOnly, NEW r \in Asks \cup Reviews, WarmupHandler(r)
  PROVE  HandlersTypeOK' /\ WarmupTypeOK' /\ ReviewsOnly'
PROOF
<1>1. r \in Requests
  BY WarmupAssumption
<1>2. ReviewSteps \cup {"done"} \subseteq Steps
  BY DEF Steps, ReviewSteps
<1>3. {"ok", "not_found", "already_reviewed", "budget_exceeded", "error"} \subseteq Responses
  BY DEF Responses
<1>4. faults' \in 0..MaxFaults /\ store' = store
  BY FaultsCounted DEF WarmupHandler, requestWarmup, ReadRequest, Reject, SaveApproved, SaveRequest,
       CheckBudget, ReadPool, WritePool
<1>5. at[r] \in ReviewSteps => r \in Reviews
  BY <1>1 DEF ReviewsOnly
<1>6. /\ \/ \E s \in ReviewSteps : r \in Reviews /\ Goto(r, s)
         \/ \E a \in Responses : Answer(r, a)
  <2>1. CASE requestWarmup(r)
    BY <1>3, <2>1 DEF requestWarmup
  <2>2. CASE ReadRequest(r)
    BY <1>3, <2>2 DEF ReadRequest, ReviewSteps
  <2>3. CASE Reject(r) \/ SaveApproved(r)
    BY <1>3, <2>3 DEF Reject, SaveApproved, SaveRequest
  <2>4. CASE CheckBudget(r) \/ ReadPool(r) \/ WritePool(r)
    BY <1>3, <1>5, <2>4, Zenon DEF CheckBudget, ReadPool, WritePool, ReviewSteps
  <2>5. QED
    BY <2>1, <2>2, <2>3, <2>4 DEF WarmupHandler
<1>7. HandlersTypeOK'
  BY <1>1, <1>2, <1>4, <1>6, MovesTyped DEF HandlersTypeOK, Steps, Responses
<1>8. ReviewsOnly'
  <2>1. "done" \notin ReviewSteps
    BY DEF ReviewSteps
  <2>2. QED
    BY <1>1, <1>6, <2>1 DEF ReviewsOnly, HandlersTypeOK, Goto, Answer
<1>9. WarmupTypeOK'
  <2>1. CASE requestWarmup(r)
    BY <2>1, WarmupAssumption DEF requestWarmup, WarmupTypeOK
  <2>2. CASE ReadRequest(r) \/ CheckBudget(r)
    BY <2>2 DEF ReadRequest, CheckBudget, warmupVars, WarmupTypeOK
  <2>3. CASE Reject(r) \/ SaveApproved(r)
    <3>1. r \in Reviews /\ Of[r] \in Asks /\ Replicas(r) \in Nat /\ Asked[Of[r]] \in Nat
      BY <1>5, <2>3, ReviewsTyped, WarmupAssumption
         DEF Reject, SaveApproved, SaveRequest, ReviewSteps
    <3>2. PICK status \in {"rejected", "approved"} : \E step \in Steps : SaveRequest(r, step, status)
      BY <1>2, <2>3 DEF Reject, SaveApproved, ReviewSteps
    <3>3. /\ MemSaveWarmupRequest(r, status)
               \in [status: {"absent", "pending", "approved", "rejected"}, replicas: Nat]
          /\ PGSaveWarmupRequest(r, status)
               \in [status: {"absent", "pending", "approved", "rejected"}, replicas: Nat]
      BY <3>1, <3>2 DEF MemSaveWarmupRequest, PGSaveWarmupRequest, WarmupTypeOK
    <3>4. QED
      BY <3>1, <3>2, <3>3 DEF SaveRequest, WarmupTypeOK
  <2>4. CASE ReadPool(r)
    <3>1. Target(r) \in Pools
      BY <1>5, <2>4, ReviewsTyped DEF ReadPool, ReviewSteps
    <3>2. QED
      BY <2>4, <3>1 DEF ReadPool, WarmupTypeOK
  <2>5. CASE WritePool(r)
    <3>1. Target(r) \in Pools /\ Replicas(r) \in Nat
      BY <1>5, <2>5, ReviewsTyped DEF WritePool, ReviewSteps
    <3>2. Upserted(r, pools[Target(r)]) \in [rv: Nat, replicas: Nat, max: Nat]
      BY <3>1 DEF Upserted, WarmupTypeOK
    <3>3. QED
      BY <2>5, <3>1, <3>2 DEF WritePool, WarmupTypeOK
  <2>6. QED
    BY <2>1, <2>2, <2>3, <2>4, <2>5 DEF WarmupHandler
<1>10. QED
  BY <1>7, <1>8, <1>9

\* What happens beside the handlers keeps every type.
LEMMA OutsideTypeStep ==
  ASSUME ServerTypes,
         \/ \E r \in Requests : Depart(r) /\ UNCHANGED <<createVars, warmupVars>>
         \/ Restart
  PROVE  ServerTypes'
PROOF
<1>1. CASE \E r \in Requests : Depart(r) /\ UNCHANGED <<createVars, warmupVars>>
  BY <1>1, HandlerBounds DEF Depart, Fault, createVars, warmupVars, ServerTypes, TypeOK, HandlersTypeOK,
       CreateTypeOK, WarmupTypeOK, ReviewsOnly
<1>2. CASE Restart
  <2>1. HandlersTypeOK'
    BY <1>2, HandlerBounds DEF Restart, HandlersRestart, Fault, ServerTypes, TypeOK, HandlersTypeOK,
         Steps, Responses
  <2>2. CreateTypeOK'
    BY <1>2 DEF Restart, CreateRestart, ServerTypes, TypeOK, CreateTypeOK
  <2>3. WarmupTypeOK'
    BY <1>2 DEF Restart, WarmupRestart, ServerTypes, TypeOK, WarmupTypeOK
  <2>4. ReviewsOnly'
    BY <1>2 DEF Restart, HandlersRestart, ServerTypes, ReviewsOnly, ReviewSteps
  <2>5. QED
    BY <2>1, <2>2, <2>3, <2>4 DEF ServerTypes, TypeOK
<1>3. QED
  BY <1>1, <1>2

\* Every step of the server keeps every type.
LEMMA TypeStep ==
  ASSUME ServerTypes, [Next]_vars
  PROVE  ServerTypes'
PROOF
<1>1. HandlersTypeOK /\ CreateTypeOK /\ WarmupTypeOK /\ ReviewsOnly
  BY DEF ServerTypes, TypeOK
<1>2. ASSUME NEW r \in Creates, CreateHandler(r), UNCHANGED warmupVars
      PROVE  ServerTypes'
  <2>1. HandlersTypeOK' /\ ReviewsOnly'
    BY <1>1, <1>2, HandlersTypeCreate
  <2>2. CreateTypeOK'
    BY <1>1, <1>2, CreateTypeStep
  <2>3. WarmupTypeOK'
    BY <1>1, <1>2 DEF warmupVars, WarmupTypeOK
  <2>4. QED
    BY <2>1, <2>2, <2>3 DEF ServerTypes, TypeOK
<1>3. ASSUME NEW r \in Creates, UNCHANGED warmupVars,
             ReadyTimeout(r) \/ Settle(r) \/ deleteSandbox(r) \/ MinutePasses(r)
      PROVE  ServerTypes'
  <2>1. UNCHANGED handlerVars
    BY <1>3 DEF ReadyTimeout, Settle, deleteSandbox, MinutePasses
  <2>2. HandlersTypeOK' /\ ReviewsOnly'
    BY <1>1, <2>1 DEF handlerVars, HandlersTypeOK, ReviewsOnly
  <2>3. CreateTypeOK'
    BY <1>1, <1>3, CreateTypeStep
  <2>4. WarmupTypeOK'
    BY <1>1, <1>3 DEF warmupVars, WarmupTypeOK
  <2>5. QED
    BY <2>2, <2>3, <2>4 DEF ServerTypes, TypeOK
<1>4. ASSUME WarmupStep, UNCHANGED createVars
      PROVE  ServerTypes'
  <2>1. HandlersTypeOK' /\ WarmupTypeOK' /\ ReviewsOnly'
    BY <1>1, <1>4, WarmupTypeStep DEF WarmupStep
  <2>2. CreateTypeOK'
    BY <1>1, <1>4 DEF createVars, CreateTypeOK
  <2>3. QED
    BY <2>1, <2>2 DEF ServerTypes, TypeOK
<1>5. CASE UNCHANGED vars
  BY <1>1, <1>5 DEF vars, handlerVars, createVars, warmupVars, ServerTypes, TypeOK, HandlersTypeOK,
       CreateTypeOK, WarmupTypeOK, ReviewsOnly
<1>6. QED
  BY <1>2, <1>3, <1>4, <1>5, OutsideTypeStep DEF Next, CreateStep

\* The types, and whose steps are whose, hold in every reachable state.
LEMMA TypesHold == Spec => []ServerTypes
PROOF
<1>1. Init => ServerTypes
  <2>1. Init => HandlersTypeOK /\ ReviewsOnly
    BY HandlerBounds DEF Init, HandlersInit, HandlersTypeOK, ReviewsOnly, ReviewSteps, Steps, Responses
  <2>2. Init => CreateTypeOK
    BY DEF Init, CreateInit, CreateTypeOK
  <2>3. Init => WarmupTypeOK
    BY DEF Init, WarmupInit, WarmupTypeOK, NoPool
  <2>4. QED
    BY <2>1, <2>2, <2>3 DEF ServerTypes, TypeOK
<1>2. ServerTypes /\ [Next]_vars => ServerTypes'
  BY TypeStep
<1>3. QED
  BY <1>1, <1>2, PTL DEF Spec

\* The types hold in every reachable state of the API server: every request
\* is at one step and has one answer, and every table names requests.
THEOREM TypeCorrect == Spec => []TypeOK
PROOF
<1>1. ServerTypes => TypeOK
  BY Zenon DEF ServerTypes
<1>2. QED
  BY <1>1, TypesHold, PTL

-----------------------------------------------------------------------------
(* Idempotency.                                                            *)

\* With PGStore a record names a sandbox that was made, which a request that
\* is past Create has made, and a request that waits or was answered with its
\* sandbox has a record unless its save failed.
IdemInv ==
  /\ \A r \in Creates : at[r] \in {"record", "save"} => objects[r] # "absent"
  /\ \A r \in Creates : sandbox[r] \notin {None, r} => Key[r] # None
  /\ store = "postgres" =>
       /\ \A k \in Slots : idem[k] # None => objects[idem[k]] # "absent"
       /\ \A r \in Creates \ unsaved :
            Key[r] # None /\ (at[r] \in {"poll", "polled"} \/ answer[r] = "ok") =>
              idem[Slot(r)] # None
  /\ ReplaysAgree

\* What no step of a handler does: it makes no sandbox unmade, and moves no
\* other request.
LEMMA OthersStand ==
  ASSUME ServerTypes, NEW r \in Creates, CreateHandler(r)
  PROVE  /\ store' = store
         /\ \A q \in Creates : objects[q] # "absent" => objects'[q] # "absent"
         /\ \A q \in Creates \ {r} : /\ at'[q] = at[q] /\ answer'[q] = answer[q]
                                     /\ sandbox'[q] = sandbox[q]
                                     /\ q \in unsaved <=> q \in unsaved'
PROOF
<1>1. CreateTypeOK /\ HandlersTypeOK /\ Creates \subseteq Requests
  BY CreateAssumption DEF ServerTypes, TypeOK
<1>2. \A q \in Creates \ {r} : at'[q] = at[q] /\ answer'[q] = answer[q]
  BY <1>1, CreateMoves DEF Goto, Answer, HandlersTypeOK
<1>3. CASE Lookup(r)
  BY <1>1, <1>2, <1>3 DEF Lookup, Replay, CreateTypeOK
<1>4. CASE CheckConcurrent(r) \/ CheckRate(r)
  BY <1>2, <1>4, ZenonT(30) DEF CheckConcurrent, CheckRate, createVars
<1>5. CASE Create(r)
  BY <1>1, <1>2, <1>5, ZenonT(30) DEF Create, NewObject, CreateTypeOK
<1>6. CASE Record(r)
  BY <1>1, <1>2, <1>6, ZenonT(30) DEF Record, CreateTypeOK
<1>7. CASE Save(r)
  BY <1>2, <1>7, ZenonT(30) DEF Save
<1>8. CASE Poll(r) \/ Polled(r)
  BY <1>2, <1>8, Zenon DEF Poll, Polled
<1>9. QED
  BY <1>3, <1>4, <1>5, <1>6, <1>7, <1>8, Zenon DEF CreateHandler

\* The records of PGStore are written once, for a sandbox that was made.
LEMMA RecordsStand ==
  ASSUME ServerTypes, IdemInv, NEW r \in Creates, CreateHandler(r), store = "postgres"
  PROVE  /\ \A k \in Slots : idem[k] # None => idem'[k] = idem[k]
         /\ \A k \in Slots : idem'[k] # None => objects'[idem'[k]] # "absent"
PROOF
<1>1. CreateTypeOK /\ idem \in [Slots -> Creates \cup {None}]
  BY DEF ServerTypes, TypeOK, CreateTypeOK
<1>2. CASE Save(r)
  <2>1. objects' = objects /\ objects[r] # "absent"
    BY <1>2 DEF Save, IdemInv
  <2>2. idem' = idem \/ idem' = [idem EXCEPT ![Slot(r)] = PGSaveIdempotency(r)]
    BY <1>2 DEF Save
  <2>3. \A k \in Slots : idem[k] # None => objects[idem[k]] # "absent"
    BY DEF IdemInv
  <2>4. QED
    BY <1>1, <2>1, <2>2, <2>3 DEF PGSaveIdempotency
<1>3. CASE ~Save(r)
  <2>1. idem' = idem
    BY <1>3, ZenonT(30) DEF CreateHandler, Lookup, CheckConcurrent, CheckRate, Create, Record, Poll, Polled,
         createVars
  <2>2. QED
    BY <1>1, <2>1, OthersStand, ZenonT(30) DEF IdemInv
<1>4. QED
  BY <1>2, <1>3

\* The request that moves keeps its part of the invariant.
LEMMA MoverKeepsIdem ==
  ASSUME ServerTypes, IdemInv, NEW r \in Creates, CreateHandler(r)
  PROVE  /\ at'[r] \in {"record", "save"} => objects'[r] # "absent"
         /\ sandbox'[r] \notin {None, r} => Key[r] # None
         /\ /\ store = "postgres" /\ r \notin unsaved' /\ Key[r] # None
            /\ at'[r] \in {"poll", "polled"} \/ answer'[r] = "ok"
            => idem'[Slot(r)] # None
         /\ store = "postgres" /\ sandbox'[r] \notin {None, r} =>
              idem'[Slot(r)] = sandbox'[r] /\ Body[sandbox'[r]] = Body[r]
PROOF
<1>1. /\ at \in [Requests -> Steps] /\ answer \in [Requests -> Responses] /\ r \in Requests
      /\ CreateTypeOK
  BY CreateAssumption DEF ServerTypes, TypeOK, HandlersTypeOK
<1>2. /\ at[r] \in {"record", "save"} => objects[r] # "absent"
      /\ sandbox[r] \notin {None, r} => Key[r] # None
      /\ /\ store = "postgres" /\ r \notin unsaved /\ Key[r] # None
         /\ at[r] \in {"poll", "polled"} \/ answer[r] = "ok"
         => idem[Slot(r)] # None
      /\ store = "postgres" /\ sandbox[r] \notin {None, r} =>
           idem[Slot(r)] = sandbox[r] /\ Body[sandbox[r]] = Body[r]
  BY DEF IdemInv, ReplaysAgree
<1>3. Key[r] # None => Slot(r) \in Slots
  BY CreateAssumption DEF Slot, Slots
<1>4. CASE Lookup(r)
  <2>1. UNCHANGED <<idem, objects, unsaved>>
    BY <1>4 DEF Lookup
  <2>2. CASE Replay(r) /\ ~Unknown(r)
    BY <1>1, <1>2, <1>4, <2>1, <2>2 DEF Replay, Unknown, Goto, Answer, CreateTypeOK
  <2>3. CASE ~(Replay(r) /\ ~Unknown(r))
    <3>1. UNCHANGED sandbox
      BY <1>4, <2>3 DEF Lookup
    <3>2. /\ at'[r] \in {"concurrent", "done"}
          /\ answer'[r] = answer[r] \/ answer'[r] \in {"refused", "error", "lost"}
      BY <1>1, <1>4, <2>3, Zenon DEF Lookup, Goto, Answer
    <3>3. QED
      BY <1>2, <2>1, <3>1, <3>2, Zenon
  <2>4. QED
    BY <2>2, <2>3, Zenon
<1>5. CASE CheckConcurrent(r) \/ CheckRate(r)
  <2>1. UNCHANGED createVars
    BY <1>5, Zenon DEF CheckConcurrent, CheckRate
  <2>2. /\ at'[r] \in {"rate", "create", "done"}
        /\ answer'[r] = answer[r] \/ answer'[r] \in {"quota_concurrent", "quota_create_rate", "error", "lost"}
    BY <1>1, <1>5, Zenon DEF CheckConcurrent, CheckRate, Goto, Answer
  <2>3. QED
    BY <1>2, <2>1, <2>2 DEF createVars
<1>6. CASE Create(r)
  <2>1. UNCHANGED <<sandbox, idem, unsaved>>
    BY <1>6 DEF Create
  <2>2. \/ at'[r] = "record" /\ objects'[r] = "pending"
        \/ at'[r] = "done"
    BY <1>1, <1>6 DEF Create, NewObject, Goto, Answer, CreateTypeOK
  <2>3. answer'[r] = answer[r] \/ answer'[r] \in {"error", "lost"}
    BY <1>1, <1>6, Zenon DEF Create, Goto, Answer
  <2>4. QED
    BY <1>2, <2>1, <2>2, <2>3
<1>7. CASE Record(r)
  <2>1. UNCHANGED <<idem, objects, unsaved, answer>> /\ sandbox'[r] = r
    BY <1>1, <1>7, Zenon DEF Record, Goto, CreateTypeOK
  <2>2. at[r] = "record" /\ at'[r] = (IF Key[r] = None THEN "poll" ELSE "save")
    BY <1>1, <1>7 DEF Record, Goto
  <2>3. QED
    BY <1>2, <2>1, <2>2
<1>8. CASE Save(r)
  <2>1. UNCHANGED <<sandbox, objects, answer>> /\ at'[r] = "poll"
    BY <1>1, <1>8 DEF Save, Goto
  <2>2. CASE r \in unsaved' /\ idem' = idem
    BY <1>2, <2>1, <2>2, ZenonT(30)
  <2>3. CASE /\ unsaved' = unsaved
             /\ store = "postgres" => idem' = [idem EXCEPT ![Slot(r)] = PGSaveIdempotency(r)]
    <3>1. ASSUME store = "postgres", Slot(r) \in Slots
          PROVE  idem'[Slot(r)] # None /\ (idem[Slot(r)] # None => idem'[Slot(r)] = idem[Slot(r)])
      BY <1>1, <2>3, <3>1, CreateAssumption, RequestAssumption DEF PGSaveIdempotency, CreateTypeOK
    <3>2. ASSUME store = "postgres", Slot(r) \notin Slots
          PROVE  idem' = idem
      BY <1>1, <2>3, <3>2, Zenon DEF CreateTypeOK
    <3>3. QED
      BY <1>2, <1>3, <2>1, <3>1, <3>2, Zenon
  <2>4. QED
    BY <1>8, <2>2, <2>3, Zenon DEF Save
<1>9. CASE Poll(r) \/ Polled(r)
  <2>1. UNCHANGED <<sandbox, idem, unsaved, objects>> /\ at[r] \in {"poll", "polled"}
    BY <1>9 DEF Poll, Polled
  <2>2. at'[r] \in {"poll", "polled", "done"}
    BY <1>1, <1>9, ZenonT(30) DEF Poll, Polled, Waited, Waits, Goto, Answer
  <2>3. QED
    BY <1>2, <2>1, <2>2, Zenon
<1>10. QED
  BY <1>4, <1>5, <1>6, <1>7, <1>8, <1>9, Zenon DEF CreateHandler

\* Where nothing that the invariant speaks of moves, it holds on.
LEMMA BesidesKeepsIdem ==
  ASSUME ServerTypes, IdemInv, UNCHANGED <<sandbox, idem, unsaved, store>>,
         \A q \in Creates : objects[q] # "absent" => objects'[q] # "absent",
         \A q \in Creates : \/ at'[q] = at[q] /\ answer'[q] = answer[q]
                            \/ at'[q] = "done" /\ answer'[q] = "lost"
  PROVE  IdemInv'
PROOF
<1>1. /\ idem \in [Slots -> Creates \cup {None}] /\ sandbox \in [Creates -> Creates \cup {None}]
  BY DEF ServerTypes, TypeOK, CreateTypeOK
<1>2. \A r \in Creates : at'[r] \in {"record", "save"} => objects'[r] # "absent"
  BY DEF IdemInv
<1>3. \A r \in Creates : sandbox'[r] \notin {None, r} => Key[r] # None
  BY Zenon DEF IdemInv
<1>4. ASSUME store' = "postgres"
      PROVE  /\ \A k \in Slots : idem'[k] # None => objects'[idem'[k]] # "absent"
             /\ \A r \in Creates \ unsaved' :
                  Key[r] # None /\ (at'[r] \in {"poll", "polled"} \/ answer'[r] = "ok") =>
                    idem'[Slot(r)] # None
  BY <1>1, <1>4, Zenon DEF IdemInv
<1>5. ReplaysAgree'
  BY <1>1 DEF IdemInv, ReplaysAgree
<1>6. QED
  BY <1>2, <1>3, <1>4, <1>5, Zenon DEF IdemInv

\* Every step keeps the invariant of the idempotency records.
LEMMA IdemStep ==
  ASSUME ServerTypes, IdemInv, [Next]_vars
  PROVE  IdemInv'
PROOF
<1>1. CreateTypeOK /\ HandlersTypeOK /\ Creates \subseteq Requests
  BY CreateAssumption, Zenon DEF ServerTypes, TypeOK
<1>2. ASSUME NEW r \in Creates, CreateHandler(r)
      PROVE  IdemInv'
  <2>1. store' = store
    BY <1>2, OthersStand, Zenon
  <2>2. \A q \in Creates : /\ at'[q] \in {"record", "save"} => objects'[q] # "absent"
                           /\ sandbox'[q] \notin {None, q} => Key[q] # None
    BY <1>2, OthersStand, MoverKeepsIdem DEF IdemInv
  <2>3. ASSUME store = "postgres"
        PROVE  \A k \in Slots : idem'[k] # None => objects'[idem'[k]] # "absent"
    BY <1>2, <2>3, RecordsStand, Zenon
  <2>4. ASSUME store = "postgres", NEW q \in Creates \ unsaved', Key[q] # None,
               at'[q] \in {"poll", "polled"} \/ answer'[q] = "ok"
        PROVE  idem'[Slot(q)] # None
    <3>1. Slot(q) \in Slots
      BY <2>4, CreateAssumption, Zenon DEF Slot, Slots
    <3>2. CASE q # r
      <4>1. idem[Slot(q)] # None
        BY <1>2, <2>4, <3>2, OthersStand, Zenon DEF IdemInv
      <4>2. QED
        BY <1>2, <2>4, <3>1, <4>1, RecordsStand, Zenon
    <3>3. QED
      BY <1>2, <2>4, <3>2, MoverKeepsIdem
  <2>5. ASSUME store = "postgres", NEW q \in Creates, sandbox'[q] \notin {None, q}
        PROVE  /\ idem'[Slot(q)] = sandbox'[q]
               /\ objects'[sandbox'[q]] # "absent" /\ Body[sandbox'[q]] = Body[q]
    <3>1. sandbox'[q] \in Creates /\ sandbox'[q] # None
      BY <1>1, <1>2, <2>5, CreateTypeStep, Zenon DEF CreateTypeOK
    <3>2. Slot(q) \in Slots
      BY <2>2, <2>5, CreateAssumption DEF Slot, Slots
    <3>3. CASE q # r
      <4>1. /\ sandbox'[q] = sandbox[q] /\ idem[Slot(q)] = sandbox[q]
            /\ objects[sandbox[q]] # "absent" /\ Body[sandbox[q]] = Body[q]
        BY <1>2, <2>5, <3>3, OthersStand DEF IdemInv, ReplaysAgree
      <4>2. objects'[sandbox'[q]] # "absent"
        BY <1>2, <3>1, <4>1, OthersStand, Zenon
      <4>3. idem'[Slot(q)] = idem[Slot(q)]
        BY <1>2, <2>5, <3>2, <4>1, RecordsStand
      <4>4. QED
        BY <4>1, <4>2, <4>3, Zenon
    <3>4. CASE q = r
      <4>1. idem'[Slot(r)] = sandbox'[r] /\ Body[sandbox'[r]] = Body[r]
        BY <1>2, <2>5, <3>4, MoverKeepsIdem, Zenon
      <4>2. objects'[sandbox'[r]] # "absent"
        BY <2>3, <2>5, <3>2, <3>1, <3>4, <4>1
      <4>3. QED
        BY <3>4, <4>1, <4>2, Zenon
    <3>5. QED
      BY <3>3, <3>4
  <2>6. QED
    BY <2>1, <2>2, <2>3, <2>4, <2>5, Zenon DEF IdemInv, ReplaysAgree
<1>3. ASSUME NEW r \in Creates, ReadyTimeout(r) \/ Settle(r) \/ deleteSandbox(r) \/ MinutePasses(r)
      PROVE  IdemInv'
  <2>1. UNCHANGED <<sandbox, idem, unsaved, store, at, answer>>
    BY <1>3 DEF ReadyTimeout, Settle, deleteSandbox, MinutePasses, handlerVars
  <2>2. \A q \in Creates : objects[q] # "absent" => objects'[q] # "absent"
    BY <1>1, <1>3, Zenon DEF ReadyTimeout, Settle, deleteSandbox, MinutePasses, CreateTypeOK
  <2>3. QED
    BY <2>1, <2>2, BesidesKeepsIdem, Zenon
<1>4. ASSUME NEW r \in Asks \cup Reviews, WarmupHandler(r), UNCHANGED createVars
      PROVE  IdemInv'
  <2>1. r \notin Creates /\ r \in Requests
    BY KindsAssumption, WarmupAssumption
  <2>2. store' = store
    BY <1>4 DEF WarmupHandler, requestWarmup, ReadRequest, Reject, SaveApproved, SaveRequest,
         CheckBudget, ReadPool, WritePool
  <2>3. \E s, a : Goto(r, s) \/ Answer(r, a)
    BY <1>4 DEF WarmupHandler, requestWarmup, ReadRequest, Reject, SaveApproved, SaveRequest,
         CheckBudget, ReadPool, WritePool
  <2>4. \A q \in Creates : at'[q] = at[q] /\ answer'[q] = answer[q]
    BY <1>1, <2>1, <2>3 DEF Goto, Answer, HandlersTypeOK
  <2>5. UNCHANGED <<sandbox, idem, unsaved, store, objects>>
    BY <1>4, <2>2 DEF createVars
  <2>6. QED
    BY <2>4, <2>5, BesidesKeepsIdem
<1>5. CASE Restart
  <2>1. UNCHANGED <<sandbox, unsaved, store, objects>> /\ (store = "postgres" => idem' = idem)
    BY <1>5, Zenon DEF Restart, HandlersRestart, CreateRestart
  <2>2. \A q \in Creates : \/ at'[q] = at[q] /\ answer'[q] = answer[q]
                           \/ at'[q] = "done" /\ answer'[q] = "lost"
    BY <1>1, <1>5, Zenon DEF Restart, HandlersRestart
  <2>3. CASE store = "postgres"
    BY <2>1, <2>2, <2>3, BesidesKeepsIdem, Zenon
  <2>4. CASE store # "postgres"
    BY <2>1, <2>2, <2>4, Zenon DEF IdemInv, ReplaysAgree
  <2>5. QED
    BY <2>3, <2>4, Zenon
<1>6. CASE UNCHANGED <<sandbox, idem, unsaved, store, objects, at, answer>>
  BY <1>6, BesidesKeepsIdem, Zenon
<1>7. QED
  BY <1>2, <1>3, <1>4, <1>5, <1>6 DEF Next, CreateStep, WarmupStep, Depart, handlerVars, createVars, vars

\* Records and the sandboxes they name hold in every reachable state.
LEMMA IdemInvariance == Spec => []IdemInv
PROOF
<1>1. Init => IdemInv
  BY CreateAssumption DEF Init, HandlersInit, CreateInit, IdemInv, ReplaysAgree, Slots
<1>2. ServerTypes /\ IdemInv /\ [Next]_vars => IdemInv'
  BY IdemStep
<1>3. QED
  BY <1>1, <1>2, TypesHold, PTL DEF Spec

Gone == \A r \in departed : at[r] # "new"

\* A client goes away only from a request that has arrived.
LEMMA GoneInvariance == Spec => []Gone
PROOF
<1>1. Init => Gone
  BY DEF Init, HandlersInit, Gone
<1>2. ServerTypes /\ Gone /\ [Next]_vars => Gone'
  <2>1. SUFFICES ASSUME ServerTypes, Gone, [Next]_vars PROVE Gone'
    OBVIOUS
  <2>2. at \in [Requests -> Steps] /\ departed \subseteq Requests
    BY <2>1 DEF ServerTypes, TypeOK, HandlersTypeOK
  <2>3. ASSUME NEW r \in Requests, NEW s \in CreateSteps \cup ReviewSteps, NEW a,
               Goto(r, s) \/ Answer(r, a)
        PROVE  Gone'
    <3>1. s # "new"
      BY DEF CreateSteps, ReviewSteps
    <3>2. QED
      BY <2>1, <2>2, <2>3, <3>1 DEF Gone, Goto, Answer
  <2>4. CASE \E r \in Creates : CreateHandler(r)
    BY <2>3, <2>4, CreateMoves, CreateAssumption DEF CreateSteps
  <2>5. CASE WarmupStep
    <3>1. PICK r \in Asks \cup Reviews : WarmupHandler(r)
      BY <2>5 DEF WarmupStep
    <3>2. \E s \in ReviewSteps : \E a : Goto(r, s) \/ Answer(r, a)
      BY <3>1 DEF WarmupHandler, requestWarmup, ReadRequest, Reject, SaveApproved, SaveRequest,
           CheckBudget, ReadPool, WritePool, ReviewSteps
    <3>3. QED
      BY <2>3, <3>2, WarmupAssumption, Zenon
  <2>6. CASE \E r \in Requests : Depart(r)
    BY <2>1, <2>6 DEF Depart, InFlight, Gone
  <2>7. CASE Restart
    BY <2>7 DEF Restart, HandlersRestart, Gone
  <2>8. CASE UNCHANGED <<at, departed>>
    BY <2>1, <2>8, Zenon DEF Gone
  <2>9. QED
    BY <2>1, <2>4, <2>5, <2>6, <2>7, <2>8 DEF Next, CreateStep, ReadyTimeout, Settle, deleteSandbox,
         MinutePasses, handlerVars, vars
<1>3. QED
  BY <1>1, <1>2, TypesHold, PTL DEF Spec

\* For every set of requests and every fault, retries answered by another
\* request's sandbox are answered by the one the first writer recorded
\* (Idempotency and SaveIdempotency of PGStore).
THEOREM RetriesAgree == Spec => []ReplaysAgree
PROOF
<1>1. IdemInv => ReplaysAgree
  BY DEF IdemInv
<1>2. QED
  BY <1>1, IdemInvariance, PTL

\* Once a client has been told of its sandbox, no retry of its request starts
\* another or is refused by the quota (createSandbox looks the key up before
\* checkQuota and saves it before it answers).
THEOREM AnsweredOnceAlways == Spec => AnsweredOnce
PROOF
<1>1. ServerTypes /\ IdemInv /\ Gone /\ [Next]_vars =>
        [\A r \in Creates :
           /\ store = "postgres" /\ at[r] = "new" /\ at'[r] # "new"
           /\ \E q \in Retries(r) \ unsaved : answer[q] = "ok"
           => sandbox'[r] # None \/ answer'[r] \in {"refused", "mismatch", "error"}]_<<handlerVars, createVars>>
  <2>1. SUFFICES ASSUME ServerTypes, IdemInv, Gone, [Next]_vars, NEW r \in Creates, store = "postgres",
                        at[r] = "new", at'[r] # "new",
                        NEW q \in Retries(r) \ unsaved, answer[q] = "ok"
                 PROVE  sandbox'[r] # None \/ answer'[r] \in {"refused", "mismatch", "error"}
    OBVIOUS
  <2>2. at \in [Requests -> Steps] /\ answer \in [Requests -> Responses] /\ r \in Requests
    BY <2>1, CreateAssumption DEF ServerTypes, TypeOK, HandlersTypeOK
  <2>3. sandbox \in [Creates -> Creates \cup {None}] /\ departed \subseteq Requests
    BY <2>1, Zenon DEF ServerTypes, TypeOK, CreateTypeOK, HandlersTypeOK
  <2>4. Key[r] # None /\ Key[q] = Key[r] /\ Slot(q) = Slot(r) /\ q \in Creates
    BY <2>1 DEF Retries, Slot
  <2>5. idem[Slot(r)] # None
    BY <2>1, <2>4 DEF IdemInv
  <2>6. Lookup(r)
    <3>1. ASSUME NEW w \in Creates, CreateHandler(w) PROVE Lookup(r)
      <4>1. w = r
        BY <2>1, <3>1, OthersStand, Zenon
      <4>2. QED
        BY <2>1, <3>1, <4>1, ZenonT(30) DEF CreateHandler, CheckConcurrent, CheckRate, Create, Record, Save, Poll,
             Polled
    <3>2. ASSUME NEW w \in Asks \cup Reviews, WarmupHandler(w) PROVE FALSE
      <4>1. w # r /\ w \in Requests
        BY KindsAssumption, WarmupAssumption
      <4>2. \E s, a : Goto(w, s) \/ Answer(w, a)
        BY <3>2 DEF WarmupHandler, requestWarmup, ReadRequest, Reject, SaveApproved, SaveRequest,
             CheckBudget, ReadPool, WritePool
      <4>3. QED
        BY <2>1, <2>2, <4>1, <4>2 DEF Goto, Answer
    <3>3. ~Restart
      BY <2>1, <2>2 DEF Restart, HandlersRestart, InFlight
    <3>4. QED
      BY <2>1, <3>1, <3>2, <3>3, ZenonT(30) DEF Next, CreateStep, WarmupStep, Depart, ReadyTimeout, Settle,
           deleteSandbox, MinutePasses, handlerVars, vars
  <2>7. ~Unknown(r)
    BY <2>4, <2>5 DEF Unknown
  <2>8. CASE Replay(r) /\ sandbox' = [sandbox EXCEPT ![r] = idem[Slot(r)]]
    BY <2>3, <2>5, <2>8
  <2>9. CASE \E a \in {"refused", "mismatch", "error"} : Answer(r, a)
    <3>1. r \notin departed
      BY <2>1 DEF Gone
    <3>2. QED
      BY <2>2, <2>9, <3>1, Zenon DEF Answer
  <2>10. QED
    BY <2>6, <2>7, <2>8, <2>9, ZenonT(30) DEF Lookup, Replay
<1>2. QED
  BY <1>1, TypesHold, IdemInvariance, GoneInvariance, PTL DEF Spec, AnsweredOnce

-----------------------------------------------------------------------------
(* Warm-up.                                                                *)

Made(p) == pools[p].rv > 0

\* Who may write a pool is an approval; a pool, once made, is as some approval
\* of it wrote it; a decision is saved only after the pool was made.
PoolInv ==
  /\ \A v \in Reviews : at[v] \in {"budget", "tenant", "pool", "approve"} => Approve[v]
  /\ \A p \in Pools : Made(p) =>
       \E v \in Reviews : /\ Approve[v] /\ Target(v) = p
                          /\ pools[p].replicas = Replicas(v)
                          /\ pools[p].max >= Replicas(v)
  /\ \A v \in Reviews : at[v] = "approve" => Made(Target(v))
  /\ \A w \in Approved : Made(PoolOf[w])

\* Steps that touch neither the table nor the pools, and bring no review past
\* its first read, keep the invariant: createSandbox's, a client that goes
\* away, a restart.
LEMMA OutsideKeepsPools ==
  ASSUME ServerTypes, PoolInv, pools' = pools,
         rows' = rows \/ Approved' = {},
         \A v \in Reviews : at'[v] = at[v] \/ at'[v] \in {"done", "reject"}
  PROVE  PoolInv'
PROOF
<1>1. Approved' \subseteq Approved
  BY DEF Approved
<1>2. QED
  BY <1>1, ZenonT(30) DEF PoolInv, Made

\* reviewWarmup keeps the invariant: upsertPool comes before
\* SaveWarmupRequest, and writes what it grants.
LEMMA ReviewKeepsPools ==
  ASSUME ServerTypes, PoolInv, NEW r \in Asks \cup Reviews, WarmupHandler(r)
  PROVE  PoolInv'
PROOF
<1>1. /\ at \in [Requests -> Steps] /\ r \in Requests /\ Reviews \subseteq Requests
      /\ rows \in [Asks -> [status: {"absent", "pending", "approved", "rejected"}, replicas: Nat]]
      /\ pools \in [Pools -> [rv: Nat, replicas: Nat, max: Nat]]
      /\ \A w \in Asks : PoolOf[w] \in Pools
  BY WarmupAssumption DEF ServerTypes, TypeOK, HandlersTypeOK, WarmupTypeOK, Pools
<1>2. at[r] \in ReviewSteps => r \in Reviews
  BY <1>1 DEF ServerTypes, ReviewsOnly
<1>3. CASE requestWarmup(r)
  <2>1. Approved' \subseteq Approved /\ pools' = pools
    BY <1>1, <1>3 DEF requestWarmup, Approved
  <2>2. \A v \in Reviews : at'[v] = at[v] \/ at'[v] = "done"
    BY <1>1, <1>3, ZenonT(30) DEF requestWarmup, Answer
  <2>3. QED
    BY <2>1, <2>2, ZenonT(30) DEF PoolInv, Made
<1>4. CASE ReadRequest(r)
  <2>1. rows' = rows /\ pools' = pools /\ r \in Reviews
    BY <1>4 DEF ReadRequest, warmupVars
  <2>2. \/ at' = [at EXCEPT ![r] = "done"]
        \/ at' = [at EXCEPT ![r] = IF Approve[r] THEN "budget" ELSE "reject"]
    BY <1>4, Zenon DEF ReadRequest, Goto, Answer
  <2>3. QED
    BY <1>1, <2>1, <2>2 DEF PoolInv, Made, Approved
<1>5. CASE Reject(r)
  <2>1. r \in Reviews /\ Of[r] \in Asks /\ pools' = pools
    BY <1>2, <1>5, ReviewsTyped, Zenon DEF Reject, SaveRequest, ReviewSteps
  <2>2. Approved' \subseteq Approved
    BY <1>1, <1>5, <2>1 DEF Reject, SaveRequest, Approved, MemSaveWarmupRequest, PGSaveWarmupRequest
  <2>3. \A v \in Reviews : at'[v] = at[v] \/ at'[v] = "done"
    BY <1>1, <1>5, Zenon DEF Reject, SaveRequest, Answer
  <2>4. QED
    BY <2>1, <2>2, <2>3 DEF PoolInv, Made
<1>6. CASE CheckBudget(r) \/ ReadPool(r)
  <2>1. rows' = rows /\ pools' = pools /\ r \in Reviews /\ at[r] \in {"budget", "tenant"}
    BY <1>2, <1>6, Zenon DEF CheckBudget, ReadPool, warmupVars, ReviewSteps
  <2>2. \E s \in {"tenant", "pool", "done"} : at' = [at EXCEPT ![r] = s]
    BY <1>6 DEF CheckBudget, ReadPool, Goto, Answer
  <2>3. QED
    BY <1>1, <2>1, <2>2 DEF PoolInv, Made, Approved
<1>7. CASE WritePool(r)
  <2>1. rows' = rows /\ r \in Reviews /\ at[r] = "pool"
    BY <1>2, <1>7, Zenon DEF WritePool, ReviewSteps
  <2>2. Approve[r] /\ Target(r) \in Pools /\ Replicas(r) \in Nat
    BY <2>1, ReviewsTyped, Zenon DEF PoolInv
  <2>3. CASE pools' = pools /\ at' = [at EXCEPT ![r] = "done"]
    BY <1>1, <2>1, <2>3 DEF PoolInv, Made, Approved
  <2>4. CASE /\ pools' = [pools EXCEPT ![Target(r)] = Upserted(r, pools[Target(r)])]
             /\ \E s \in {"approve", "done"} : at' = [at EXCEPT ![r] = s]
    <3>1. /\ pools'[Target(r)].rv > 0 /\ pools'[Target(r)].replicas = Replicas(r)
          /\ pools'[Target(r)].max >= Replicas(r)
      BY <1>1, <2>2, <2>4 DEF Upserted
    <3>2. \A p \in Pools \ {Target(r)} : pools'[p] = pools[p]
      BY <1>1, <2>4, Zenon
    <3>3. \A v \in Reviews : Target(v) \in Pools
      BY ReviewsTyped
    <3>4. \A v \in Reviews \ {r} : at'[v] = at[v]
      BY <1>1, <2>4
    <3>5. at'[r] \in {"approve", "done"} /\ Approved' = Approved /\ Approved \subseteq Asks
      BY <1>1, <2>1, <2>4 DEF Approved
    <3>6. QED
      BY <1>1, <2>1, <2>2, <3>1, <3>2, <3>3, <3>4, <3>5, ZenonT(30) DEF PoolInv, Made
  <2>5. QED
    BY <1>7, <2>3, <2>4, ZenonT(30) DEF WritePool, Goto, Answer
<1>8. CASE SaveApproved(r)
  <2>1. r \in Reviews /\ Of[r] \in Asks /\ pools' = pools /\ at[r] = "approve"
    BY <1>2, <1>8, ReviewsTyped, ZenonT(30) DEF SaveApproved, SaveRequest, ReviewSteps
  <2>2. Approved' \subseteq Approved \cup {Of[r]} /\ Approved \subseteq Asks
    BY <1>1, <1>8, <2>1, ZenonT(30) DEF SaveApproved, SaveRequest, Approved
  <2>3. \A v \in Reviews : at'[v] = at[v] \/ at'[v] = "done"
    BY <1>1, <1>8, Zenon DEF SaveApproved, SaveRequest, Answer
  <2>4. Made(PoolOf[Of[r]])
    BY <2>1, Zenon DEF PoolInv, Target
  <2>5. QED
    BY <2>1, <2>2, <2>3, <2>4, ZenonT(30) DEF PoolInv, Made
<1>9. QED
  BY <1>3, <1>4, <1>5, <1>6, <1>7, <1>8 DEF WarmupHandler

\* Every step keeps it.
LEMMA PoolStep ==
  ASSUME ServerTypes, PoolInv, [Next]_vars
  PROVE  PoolInv'
PROOF
<1>1. at \in [Requests -> Steps]
  BY DEF ServerTypes, TypeOK, HandlersTypeOK
<1>2. ASSUME NEW r \in Creates, CreateHandler(r), UNCHANGED warmupVars
      PROVE  PoolInv'
  <2>1. r \notin Reviews
    BY KindsAssumption
  <2>2. \A v \in Reviews : at'[v] = at[v]
    BY <1>1, <1>2, <2>1, CreateMoves, WarmupAssumption DEF Goto, Answer
  <2>3. QED
    BY <1>2, <2>2, OutsideKeepsPools DEF warmupVars
<1>3. CASE WarmupStep
  BY <1>3, ReviewKeepsPools DEF WarmupStep
<1>4. CASE Restart
  <2>1. pools' = pools /\ (rows' = rows \/ Approved' = {})
    BY <1>4 DEF Restart, WarmupRestart, Approved
  <2>2. \A v \in Reviews : at'[v] = at[v] \/ at'[v] = "done"
    BY <1>4, WarmupAssumption DEF Restart, HandlersRestart
  <2>3. QED
    BY <2>1, <2>2, OutsideKeepsPools
<1>5. CASE UNCHANGED <<at, warmupVars>>
  BY <1>5, OutsideKeepsPools DEF warmupVars
<1>6. QED
  BY <1>2, <1>3, <1>4, <1>5 DEF Next, CreateStep, ReadyTimeout, Settle, deleteSandbox, MinutePasses,
       Depart, handlerVars, vars

\* For every set of reviews, whichever race and whatever fails half-way, an
\* approved request has its pool, of a size some review of that pool granted
\* (reviewWarmup: upsertPool before SaveWarmupRequest).
THEOREM ApprovedPools == Spec => []ApprovedHasPool
PROOF
<1>1. Init => PoolInv
  <2>1. SUFFICES ASSUME Init PROVE PoolInv
    OBVIOUS
  <2>2. Approved = {} /\ \A p \in Pools : ~Made(p)
    BY <2>1 DEF Init, WarmupInit, Approved, Made, NoPool
  <2>3. \A v \in Reviews : at[v] \in {"new", "done"}
    BY <2>1, WarmupAssumption DEF Init, HandlersInit
  <2>4. QED
    BY <2>2, <2>3 DEF PoolInv
<1>2. ServerTypes /\ PoolInv /\ [Next]_vars => PoolInv'
  BY PoolStep
<1>3. PoolInv => ApprovedHasPool
  <2>1. Approved \subseteq Asks
    BY DEF Approved
  <2>2. QED
    BY <2>1, Zenon DEF PoolInv, ApprovedHasPool, Pools
<1>4. QED
  BY <1>1, <1>2, <1>3, TypesHold, PTL DEF Spec
=============================================================================
