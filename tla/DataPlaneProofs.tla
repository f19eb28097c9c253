----------------------------- MODULE DataPlaneProofs -----------------------------
(***************************************************************************)
(* The gateway and the handles of the Go SDK, for every set of requests,   *)
(* keys, names and addresses and every lifetime of the caches: a request   *)
(* is served by the sandbox it named; a revoked key stops; what appears is *)
(* found; a URL leads back to its sandbox; and renewals are in time.       *)
(***************************************************************************)
EXTENDS DataPlane, TLAPS

-----------------------------------------------------------------------------
(* The gateway's inductive invariant.                                      *)

\* A request about to be sent was routed by its label, and its sandbox is its
\* caller's (route).
Routed(r) ==
  req[r].rt.port = None => req[r].rt.id = req[r].ask.url.label

Permitted(r) == TenantOf[req[r].ask.key] = OwnerOf[req[r].rt.id]

DialsRight == \A r \in Requests : req[r].at = "dial" => Routed(r) /\ Permitted(r)

\* A row that shows no revocation was read before the revocation: a row in
\* hand is older than it, and a row in the cache at most a lookup younger
\* (lookup).
RowsPredate ==
  \A r \in Requests :
    req[r].at = "tenant" /\ ~req[r].row /\ revoked[req[r].ask.key] # None =>
      revoked[req[r].ask.key] <= req[r].age

EntriesPredate ==
  \A k \in Keys :
    keyCache[k] # None /\ ~keyCache[k].revoked /\ revoked[k] # None =>
      revoked[k] <= keyCache[k].age + MaxLookup

HasAddress(object) == object # None /\ object.ip # None

\* An address that was shown stays as long as the sandbox does: the object
\* keeps it, and neither the object nor the informer's copy comes back.
ShownStays ==
  \A s \in Ids :
    seen[s] # None =>
      /\ sandbox[s] = None \/ HasAddress(sandbox[s])
      /\ informer[s] = None => sandbox[s] = None
      /\ informer[s] # None => HasAddress(informer[s])

\* An entry without an address was made before the address was shown
\* (Resolve).
MissesPredate ==
  \A s \in Ids :
    /\ seen[s] # None /\ informer[s] # None
    /\ resolved[s] # None /\ ~HasAddress(resolved[s].target)
    => seen[s] <= resolved[s].age

GatewayInv ==
  GatewayTypeOK /\ DialsRight /\ ServedByItsSandbox /\ RowsPredate /\ EntriesPredate
    /\ ShownStays /\ MissesPredate

-----------------------------------------------------------------------------
(* The names and the routes.                                               *)

\* What Append adds is the last of one more, which ParseHost cuts off.
LEMMA AppendAdds ==
  ASSUME NEW S, NEW seq \in Seq(S), NEW elt \in S
  PROVE  Len(Append(seq, elt)) = Len(seq) + 1 /\ Append(seq, elt)[Len(seq) + 1] = elt
PROOF OBVIOUS

\* A label made from a name and a port is read back as the two (ParseHost).
LEMMA PortLabel ==
  ASSUME NEW s \in Ids, NEW p \in Ports
  PROVE  /\ PortReading(Append(s, p))
         /\ BeforeLast(Append(s, p)) = s /\ AfterLast(Append(s, p)) = p
PROOF
<1>1. s \in Seq(STRING) /\ s # <<>> /\ p \in STRING
  BY GatewayNames
<1>2. /\ Len(Append(s, p)) = Len(s) + 1
      /\ Append(s, p)[Len(s) + 1] = p
  BY <1>1, AppendAdds, Zenon
<1>3. Len(s) \in Nat /\ Len(s) > 0
  BY <1>1
<1>4. AfterLast(Append(s, p)) = p
  BY <1>2, <1>3 DEF AfterLast
<1>5. PortReading(Append(s, p))
  BY <1>2, <1>3, <1>4 DEF PortReading
<1>6. BeforeLast(Append(s, p)) = SubSeq(Append(s, p), 1, Len(s))
  BY <1>2, <1>3 DEF BeforeLast
<1>7. SubSeq(Append(s, p), 1, Len(s)) = s
  BY <1>1, <1>2, <1>3
<1>8. QED
  BY <1>4, <1>5, <1>6, <1>7

\* A route that leads to a sandbox leads to a name and perhaps a port, and
\* without a port to the label itself (ParseHost, ParsePath).
LEMMA RouteFound ==
  ASSUME GatewayTypeOK, NEW url, Found(Route(url).id)
  PROVE  /\ Route(url) \in [id: Ids, port: Ports \cup {None}]
         /\ Route(url).port = None => Route(url).id = url.label
         /\ Entry(Route(url).id).target \in [ip: IPs, token: BOOLEAN]
PROOF
<1>1. Route(url).id \in Ids
  BY DEF Found
<1>2. NoRoute.id \notin Ids
  BY GatewayNames DEF NoRoute
<1>3. Route(url) # NoRoute
  BY <1>1, <1>2
<1>4. /\ Route(url) \in [id: Ids, port: Ports \cup {None}]
      /\ Route(url).port = None => Route(url).id = url.label
  <2>1. CASE Route(url) = ParseHost(url.label)
    BY <1>1, <1>3, <2>1, GatewayNames DEF ParseHost, PortReading, Found
  <2>2. CASE Route(url) = ParsePath(url)
    BY <1>1, <1>3, <2>2 DEF ParsePath
  <2>3. QED
    BY <1>3, <2>1, <2>2, Zenon DEF Route
<1>5. Entry(Route(url).id).target \in [ip: IPs, token: BOOLEAN]
  BY <1>1 DEF Found, Entry, GatewayTypeOK, Objects
<1>6. QED
  BY <1>4, <1>5

\* What a resolver's entry is.
LEMMA EntryTyped ==
  ASSUME GatewayTypeOK, NEW s \in Ids
  PROVE  Entry(s) \in [target: Objects \cup {None}, age: 0..ResolveTTL]
PROOF
  BY GatewayBounds DEF Entry, GatewayTypeOK

-----------------------------------------------------------------------------
(* One step keeps the types.                                               *)

\* The requests of a scene are requests.
LEMMA AskTyped ==
  ASSUME GatewayTypeOK, NEW ask \in Scenes[scene].asks
  PROVE  ask \in Asks /\ ask.key \in Keys
PROOF
<1>1. Scenes[scene] \in [asks: SUBSET Asks, keys: SUBSET Keys, ids: SUBSET Ids]
  BY GatewayNames DEF GatewayTypeOK
<1>2. QED
  BY <1>1, GatewayNames

\* A handler between its two queries.
LEMMA TenantTyped ==
  ASSUME GatewayTypeOK, NEW r \in Requests, req[r].at = "tenant"
  PROVE  /\ req[r] \in [at: {"tenant"}, ask: Asks, age: 0..MaxLookup, row: BOOLEAN]
         /\ req[r].ask \in Asks /\ req[r].ask.key \in Keys
         /\ req[r].age \in 0..MaxLookup /\ req[r].row \in BOOLEAN
PROOF
<1>1. req[r] \in [at: {"tenant"}, ask: Asks, age: 0..MaxLookup, row: BOOLEAN]
  BY DEF GatewayTypeOK, Handlings, Idle
<1>2. QED
  BY <1>1, GatewayNames

\* Verify leaves its request routed, or refused with a reason of its own.
LEMMA VerifyMoves ==
  ASSUME NEW r \in Requests, NEW ask \in Asks, NEW row \in BOOLEAN, Verify(r, ask, row)
  PROVE  \E h \in [at: {"route"}, ask: {ask}] \cup [at: {"done"}, answer: Answers \ {"served", "unknown"}] :
           /\ req' = [req EXCEPT ![r] = h]
           /\ h.at = "route" => ~row
PROOF
<1>1. Verdict(ask, row) \in {"verified", "unauthorized", "revoked", "expired_key",
                             "ip_not_allowed", "forbidden"}
  BY DEF Verdict, Valid
<1>2. Verdict(ask, row) = "verified" => ~row
  BY DEF Verdict, Valid
<1>3. CASE Verdict(ask, row) = "verified"
  <2>1. req' = [req EXCEPT ![r] = [at |-> "route", ask |-> ask]]
    BY <1>3 DEF Verify, Become
  <2>2. QED
    BY <1>2, <1>3, <2>1, Zenon
<1>4. CASE Verdict(ask, row) # "verified"
  <2>1. req' = [req EXCEPT ![r] = [at |-> "done", answer |-> Verdict(ask, row)]]
    BY <1>4 DEF Verify, Become, Answer
  <2>2. Verdict(ask, row) \in Answers \ {"served", "unknown"}
    BY <1>1, <1>4 DEF Answers
  <2> DEFINE h == [at |-> "done", answer |-> Verdict(ask, row)]
  <2>3. /\ h \in [at: {"route"}, ask: {ask}] \cup [at: {"done"}, answer: Answers \ {"served", "unknown"}]
        /\ h.at # "route"
    BY <2>2
  <2>4. QED
    BY <2>1, <2>3, Zenon
<1>5. QED
  BY <1>3, <1>4

\* Where a handler's step takes its request: at most one request moves, to a
\* handling that its step allows (Verify, route, forward).
Moves(r) ==
  \E h \in Handlings :
    /\ req' = [req EXCEPT ![r] = h]
    /\ UNCHANGED <<scene, revoked, expired, clusterVars>>

\* Every step of a handler moves its request.
LEMMA HandlerMoves ==
  ASSUME GatewayTypeOK, NEW r \in Requests, GatewayStep(r)
  PROVE  Moves(r)
PROOF
<1>1. req[r] \in Handlings
  BY DEF GatewayTypeOK
<1>2. ASSUME NEW ask \in Scenes[scene].asks, Arrive(r, ask) PROVE Moves(r)
  <2>1. ask \in Asks /\ ask.key \in Keys
    BY AskTyped
  <2>2. CASE ~ParseKey(ask)
    BY <1>2, <2>2 DEF Arrive, Answer, Become, Moves, Handlings, Answers, keyVars
  <2>3. CASE ParseKey(ask) /\ CachedKey(ask.key)
    <3>1. keyCache[ask.key].revoked \in BOOLEAN
      BY <2>1, <2>3 DEF CachedKey, GatewayTypeOK
    <3>2. Verify(r, ask, keyCache[ask.key].revoked)
      BY <1>2, <2>3 DEF Arrive
    <3>3. QED
      BY <1>2, <2>1, <3>1, <3>2, VerifyMoves DEF Arrive, Moves, Handlings, keyVars
  <2>4. CASE ParseKey(ask) /\ ~CachedKey(ask.key)
    <3>1. req' = [req EXCEPT ![r] = [at |-> "tenant", ask |-> ask, age |-> 0,
                                     row |-> APIKey(ask.key)]]
      BY <1>2, <2>4 DEF Arrive, Become
    <3>2. APIKey(ask.key) \in BOOLEAN /\ 0 \in 0..MaxLookup
      BY GatewayBounds DEF APIKey
    <3>3. QED
      BY <1>2, <2>1, <3>1, <3>2, Zenon DEF Arrive, Moves, Handlings, keyVars
  <2>5. QED
    BY <2>2, <2>3, <2>4
<1>3. CASE ReadTenant(r)
  <2>1. req[r].ask \in Asks /\ req[r].row \in BOOLEAN
    BY <1>3, TenantTyped DEF ReadTenant
  <2>2. QED
    BY <1>3, <2>1, VerifyMoves DEF ReadTenant, Moves, Handlings
<1>4. CASE LookupFails(r)
  BY <1>4, Zenon DEF LookupFails, Answer, Become, Moves, Handlings, Answers, keyVars
<1>5. CASE RouteRequest(r)
  <2> DEFINE ask == req[r].ask
             rt == Route(ask.url)
             d == Decision(ask, rt)
  <2>1. ask \in Asks
    BY <1>1, <1>5 DEF RouteRequest, Handlings, Idle
  <2>2. d \in {"unknown", "forbidden", "gone", "redirect", "exposed", "forward"}
    BY DEF Decision
  <2>3. d # "unknown" => Found(rt.id)
    BY DEF Decision
  <2>4. CASE d = "forward"
    <3>1. rt \in [id: Ids, port: Ports \cup {None}] /\ Entry(rt.id).target \in [ip: IPs, token: BOOLEAN]
      BY <2>3, <2>4, RouteFound
    <3>2. req' = [req EXCEPT ![r] = [at |-> "dial", ask |-> ask, rt |-> rt,
                                     target |-> Entry(rt.id).target]]
      BY <1>5, <2>4 DEF RouteRequest, Become
    <3>3. QED
      BY <1>5, <2>1, <3>1, <3>2, Zenon DEF RouteRequest, Moves, Handlings, keyVars
  <2>5. CASE d # "forward"
    <3>1. \E a \in Answers \ {"served"} : req' = [req EXCEPT ![r] = [at |-> "done", answer |-> a]]
      BY <1>5, <2>2, <2>5 DEF RouteRequest, exposePort, Answer, Become, Answers
    <3>2. QED
      BY <1>5, <3>1, Zenon DEF RouteRequest, Moves, Handlings, keyVars
  <2>6. QED
    BY <2>4, <2>5
<1>6. CASE Dial(r)
  <2>1. /\ req[r].ask \in Asks /\ req[r].rt \in [id: Ids, port: Ports \cup {None}]
        /\ req[r].target \in [ip: IPs, token: BOOLEAN]
    BY <1>1, <1>6 DEF Dial, Handlings, Idle
  <2>2. QED
    <3> DEFINE pod == Reached(req[r].rt, req[r].target)
    <3>1. CASE pod # None /\ Admits(req[r].rt, req[r].target, pod)
      <4>1. req' = [req EXCEPT ![r] = [at |-> "done", answer |-> "served", ask |-> req[r].ask,
                                       rt |-> req[r].rt, by |-> pod]]
        BY <1>6, <3>1 DEF Dial, Become
      <4>2. pod \in Ids
        BY <2>1, <3>1 DEF Reached, DirectTransport, APIProxyTransport, GatewayTypeOK
      <4>3. QED
        BY <1>6, <2>1, <4>1, <4>2, Zenon DEF Dial, Moves, Handlings, keyVars
    <3>2. CASE ~(pod # None /\ Admits(req[r].rt, req[r].target, pod))
      <4>1. \E a \in {"unreachable", "refused"} : req' = [req EXCEPT ![r] = [at |-> "done", answer |-> a]]
        BY <1>6, <3>2, Zenon DEF Dial, Become
      <4>2. QED
        BY <1>6, <4>1, Zenon DEF Dial, Moves, Handlings, keyVars, Answers
    <3>3. QED
      BY <3>1, <3>2
<1>7. QED
  BY <1>2, <1>3, <1>4, <1>5, <1>6 DEF GatewayStep

\* The resolver's cache keeps its type: a route refreshes what it consulted.
LEMMA HandlerTypes ==
  ASSUME GatewayTypeOK, NEW r \in Requests, GatewayStep(r)
  PROVE  GatewayTypeOK'
PROOF
<1>1. PICK h \in Handlings : req' = [req EXCEPT ![r] = h]
  BY HandlerMoves DEF Moves
<1>2. req' \in [Requests -> Handlings]
  BY <1>1 DEF GatewayTypeOK
<1>3. keyCache' \in [Keys -> [revoked: BOOLEAN, age: 0..KeyTTL] \cup {None}]
  <2>1. CASE UNCHANGED keyCache
    BY <2>1 DEF GatewayTypeOK
  <2>2. CASE ReadTenant(r)
    <3>1. req[r].row \in BOOLEAN
      BY <2>2, TenantTyped DEF ReadTenant
    <3>2. [revoked |-> req[r].row, age |-> 0] \in [revoked: BOOLEAN, age: 0..KeyTTL]
      BY <3>1, GatewayBounds
    <3>3. QED
      BY <2>2, <3>2, Zenon DEF ReadTenant, CacheKey, GatewayTypeOK
  <2>3. QED
    BY <2>1, <2>2, Zenon DEF GatewayStep, Arrive, LookupFails, RouteRequest, Dial, keyVars
<1>4. resolved' \in [Ids -> [target: Objects \cup {None}, age: 0..ResolveTTL] \cup {None}]
  <2>1. CASE UNCHANGED resolved
    BY <2>1 DEF GatewayTypeOK
  <2>2. CASE RouteRequest(r)
    BY <2>2, EntryTyped DEF RouteRequest, GatewayTypeOK
  <2>3. QED
    BY <2>1, <2>2, Zenon DEF GatewayStep, Arrive, LookupFails, ReadTenant, Dial
<1>5. UNCHANGED <<scene, revoked, expired, clusterVars>>
  BY HandlerMoves, Zenon DEF Moves
<1>6. QED
  BY <1>2, <1>3, <1>4, <1>5 DEF GatewayTypeOK, clusterVars

\* The operator, the watch and the end of a sandbox keep the types.
LEMMA ClusterTypes ==
  ASSUME GatewayTypeOK, ClusterStep
  PROVE  GatewayTypeOK' /\ UNCHANGED <<keyVars, resolved, req>>
PROOF
<1> USE DEF GatewayTypeOK, Objects
<1>1. PICK s \in Ids : \/ DeadlinePasses(s) \/ Expire(s) \/ Delete(s) \/ LosePod(s) \/ Observe(s)
                       \/ \E ip \in IPs : Bind(s, ip)
  BY DEF ClusterStep
<1>2. CASE DeadlinePasses(s)
  BY <1>2 DEF DeadlinePasses, keyVars
<1>3. CASE Expire(s)
  <2>1. sandbox' \in [Ids -> Objects \cup {None}]
    <3>1. sandbox[s] \in Objects /\ [sandbox[s] EXCEPT !.token = FALSE] \in Objects
      BY <1>3, Zenon DEF Expire, Bound
    <3>2. sandbox' = [sandbox EXCEPT ![s] = [sandbox[s] EXCEPT !.token = FALSE]]
      BY <1>3 DEF Expire
    <3>3. QED
      BY <3>1, <3>2
  <2>2. pods' \in [IPs -> Ids \cup {None}]
    BY <1>3 DEF Expire, Without
  <2>3. QED
    BY <1>3, <2>1, <2>2 DEF Expire, keyVars
<1>4. CASE Delete(s)
  BY <1>4 DEF Delete, Without, keyVars
<1>5. CASE LosePod(s)
  BY <1>5, GatewayBounds DEF LosePod, Without, keyVars
<1>6. CASE Observe(s)
  BY <1>6, GatewayBounds DEF Observe, keyVars
<1>7. ASSUME NEW ip \in IPs, Bind(s, ip)
      PROVE  GatewayTypeOK' /\ UNCHANGED <<keyVars, resolved, req>>
  BY <1>7 DEF Bind, keyVars
<1>8. QED
  BY <1>1, <1>2, <1>3, <1>4, <1>5, <1>6, <1>7, Zenon

\* The clock keeps every age below its limit.
LEMMA TickTypes ==
  ASSUME GatewayTypeOK, Tick
  PROVE  GatewayTypeOK'
PROOF
<1>1. \A limit \in Nat : \A age \in 0..limit : Older(age, limit) \in 0..limit
  BY DEF Older
<1>2. RevokedLimit \in Nat /\ KeyTTL \in Nat /\ ResolveTTL \in Nat /\ MaxLookup \in Nat
  BY GatewayBounds DEF RevokedLimit
<1>3. revoked' \in [Keys -> 0..RevokedLimit \cup {None}]
  BY <1>1, <1>2 DEF Tick, GatewayTypeOK
<1>4. keyCache' \in [Keys -> [revoked: BOOLEAN, age: 0..KeyTTL] \cup {None}]
  BY <1>1, <1>2 DEF Tick, GatewayTypeOK
<1>5. resolved' \in [Ids -> [target: Objects \cup {None}, age: 0..ResolveTTL] \cup {None}]
  BY <1>1, <1>2 DEF Tick, GatewayTypeOK
<1>6. seen' \in [Ids -> 0..ResolveTTL \cup {None}]
  BY <1>1, <1>2 DEF Tick, GatewayTypeOK
<1>7. req' \in [Requests -> Handlings]
  <2>1. ASSUME NEW r \in Requests, req[r].at = "tenant"
        PROVE  [req[r] EXCEPT !.age = @ + 1] \in Handlings
    <3>1. req[r] \in [at: {"tenant"}, ask: Asks, age: 0..MaxLookup, row: BOOLEAN]
      BY <2>1, TenantTyped
    <3>2. req[r].age < MaxLookup
      BY <2>1 DEF Tick
    <3>3. [req[r] EXCEPT !.age = @ + 1] \in [at: {"tenant"}, ask: Asks, age: 0..MaxLookup, row: BOOLEAN]
      BY <1>2, <3>1, <3>2
    <3>4. QED
      BY <3>3 DEF Handlings
  <2>2. QED
    BY <2>1 DEF Tick, GatewayTypeOK
<1>8. QED
  BY <1>3, <1>4, <1>5, <1>6, <1>7 DEF Tick, GatewayTypeOK

\* One step of the gateway keeps the types.
LEMMA GatewayTypeStep ==
  ASSUME GatewayTypeOK, [GatewayNext]_gatewayVars
  PROVE  GatewayTypeOK'
PROOF
<1>1. ASSUME NEW k \in Scenes[scene].keys, Revoke(k) \/ KeyExpires(k) PROVE GatewayTypeOK'
  <2>1. k \in Keys /\ 0 \in 0..RevokedLimit
    BY GatewayNames, GatewayBounds DEF GatewayTypeOK, RevokedLimit
  <2>2. QED
    BY <1>1, <2>1 DEF Revoke, KeyExpires, GatewayTypeOK, clusterVars
<1>2. CASE UNCHANGED gatewayVars
  BY <1>2 DEF gatewayVars, keyVars, clusterVars, GatewayTypeOK
<1>3. QED
  BY <1>1, <1>2, HandlerTypes, ClusterTypes, TickTypes DEF GatewayNext

-----------------------------------------------------------------------------
(* A request is served by the sandbox it named.                            *)

\* What is said of a request that another request's step, the cluster or the
\* clock leaves where it is.
Stands(r) == req'[r] = req[r] \/ (req[r].at = "tenant" /\ req'[r].at = "tenant")

\* Only its own handler moves a request on.
LEMMA OthersStand ==
  ASSUME GatewayTypeOK, [GatewayNext]_gatewayVars, NEW r \in Requests, ~GatewayStep(r)
  PROVE  Stands(r)
PROOF
<1>1. ASSUME NEW x \in Requests, GatewayStep(x) PROVE Stands(r)
  <2>1. x # r
    BY <1>1
  <2>2. PICK h \in Handlings : req' = [req EXCEPT ![x] = h]
    BY <1>1, HandlerMoves DEF Moves
  <2>3. QED
    BY <2>1, <2>2 DEF Stands, GatewayTypeOK
<1>2. CASE Tick
  <2>1. CASE req[r].at = "tenant"
    <3>1. req[r] \in [at: {"tenant"}, ask: Asks, age: 0..MaxLookup, row: BOOLEAN]
      BY <2>1, TenantTyped
    <3>2. QED
      BY <1>2, <2>1, <3>1 DEF Tick, Stands
  <2>2. CASE req[r].at # "tenant"
    BY <1>2, <2>2 DEF Tick, Stands
  <2>3. QED
    BY <2>1, <2>2
<1>3. CASE ClusterStep
  BY <1>3, ClusterTypes DEF Stands
<1>4. ASSUME NEW k \in Scenes[scene].keys, Revoke(k) \/ KeyExpires(k) PROVE Stands(r)
  BY <1>4 DEF Revoke, KeyExpires, Stands
<1>5. CASE UNCHANGED gatewayVars
  BY <1>5, Zenon DEF gatewayVars, Stands
<1>6. QED
  BY <1>1, <1>2, <1>3, <1>4, <1>5 DEF GatewayNext

\* A handler that comes to dial was routed by the label and let in by the
\* owner (route).
LEMMA DialBegins ==
  ASSUME GatewayTypeOK, NEW r \in Requests, GatewayStep(r), req'[r].at = "dial"
  PROVE  Routed(r)' /\ Permitted(r)'
PROOF
<1>1. req \in [Requests -> Handlings]
  BY DEF GatewayTypeOK
<1>2. RouteRequest(r)
  <2>1. ASSUME NEW ask \in Scenes[scene].asks, Arrive(r, ask) PROVE FALSE
    <3>1. ask \in Asks /\ ask.key \in Keys
      BY AskTyped
    <3>2. CASE ParseKey(ask) /\ CachedKey(ask.key)
      <4>1. keyCache[ask.key].revoked \in BOOLEAN
        BY <3>1, <3>2 DEF CachedKey, GatewayTypeOK
      <4>2. QED
        BY <1>1, <2>1, <3>1, <3>2, <4>1, VerifyMoves DEF Arrive
    <3>3. QED
      BY <1>1, <2>1, <3>2 DEF Arrive, Answer, Become
  <2>2. CASE ReadTenant(r)
    <3>1. req[r].ask \in Asks /\ req[r].row \in BOOLEAN
      BY <2>2, TenantTyped DEF ReadTenant
    <3>2. QED
      BY <1>1, <2>2, <3>1, VerifyMoves, Zenon DEF ReadTenant
  <2>3. CASE LookupFails(r) \/ Dial(r)
    BY <1>1, <2>3 DEF LookupFails, Dial, Answer, Become
  <2>4. QED
    BY <2>1, <2>2, <2>3 DEF GatewayStep
<1> DEFINE ask == req[r].ask
           rt == Route(ask.url)
<1>3. Decision(ask, rt) = "forward"
  BY <1>1, <1>2 DEF RouteRequest, exposePort, Answer, Become
<1>4. req'[r].ask = ask /\ req'[r].rt = rt
  BY <1>1, <1>2, <1>3 DEF RouteRequest, Become
<1>5. Found(rt.id) /\ TenantOf[ask.key] = OwnerOf[rt.id]
  BY <1>3, Zenon DEF Decision
<1>6. rt.port = None => rt.id = ask.url.label
  BY <1>5, RouteFound, Zenon
<1>7. QED
  BY <1>4, <1>5, <1>6 DEF Routed, Permitted

\* A handler that is served without a port was let in by the Pod whose token
\* it presented: its sandbox's own (presentToken, requireSandbox).
LEMMA ServedByDial ==
  ASSUME GatewayTypeOK, DialsRight, NEW r \in Requests, GatewayStep(r), Served(r)', req'[r].rt.port = None
  PROVE  /\ req'[r].ask.url.label = req'[r].by
         /\ TenantOf[req'[r].ask.key] = OwnerOf[req'[r].by]
PROOF
<1>1. req \in [Requests -> Handlings]
  BY SMTT(30) DEF GatewayTypeOK
<1>2. Dial(r)
  <2>1. ASSUME NEW ask \in Scenes[scene].asks, Arrive(r, ask) PROVE FALSE
    <3>1. ask \in Asks /\ ask.key \in Keys
      BY AskTyped, Zenon
    <3>2. CASE ParseKey(ask) /\ CachedKey(ask.key)
      <4>1. keyCache[ask.key].revoked \in BOOLEAN
        BY <3>1, <3>2, Zenon DEF CachedKey, GatewayTypeOK
      <4>2. QED
        BY <1>1, <2>1, <3>1, <3>2, <4>1, VerifyMoves DEF Arrive, Served
    <3>3. QED
      BY <1>1, <2>1, <3>2, SMTT(30) DEF Arrive, Answer, Become, Served
  <2>2. CASE ReadTenant(r)
    <3>1. req[r].ask \in Asks /\ req[r].row \in BOOLEAN
      BY <2>2, TenantTyped DEF ReadTenant
    <3>2. QED
      BY <1>1, <2>2, <3>1, VerifyMoves, Zenon DEF ReadTenant, Served
  <2>3. CASE LookupFails(r)
    BY <1>1, <2>3 DEF LookupFails, Answer, Become, Served
  <2>4. CASE RouteRequest(r)
    <3>1. Decision(req[r].ask, Route(req[r].ask.url)) # "served"
      BY DEF Decision
    <3>2. QED
      BY <1>1, <2>4, <3>1 DEF RouteRequest, exposePort, Answer, Become, Served
  <2>5. QED
    BY <2>1, <2>2, <2>3, <2>4, Zenon DEF GatewayStep
<1> DEFINE rt == req[r].rt
           pod == Reached(rt, req[r].target)
<1>3. pod # None /\ Admits(rt, req[r].target, pod)
  BY <1>1, <1>2 DEF Dial, Become, Served
<1>4. req'[r].ask = req[r].ask /\ req'[r].rt = rt /\ req'[r].by = pod
  BY <1>1, <1>2, <1>3 DEF Dial, Become
<1>5. rt.id = pod
  BY <1>3, <1>4, Zenon DEF Admits
<1>6. Routed(r) /\ Permitted(r)
  BY <1>2, Zenon DEF Dial, DialsRight
<1>7. QED
  BY <1>4, <1>5, <1>6, Zenon DEF Routed, Permitted

\* One step keeps every request on its way to the right sandbox.
LEMMA ServingStep ==
  ASSUME GatewayTypeOK, DialsRight, ServedByItsSandbox, [GatewayNext]_gatewayVars
  PROVE  DialsRight' /\ ServedByItsSandbox'
PROOF
<1>1. ASSUME NEW r \in Requests, req'[r].at = "dial" PROVE Routed(r)' /\ Permitted(r)'
  <2>1. CASE GatewayStep(r)
    BY <1>1, <2>1, DialBegins
  <2>2. CASE ~GatewayStep(r)
    BY <1>1, <2>2, OthersStand DEF Stands, DialsRight, Routed, Permitted
  <2>3. QED
    BY <2>1, <2>2
<1>2. ASSUME NEW r \in Requests, Served(r)', req'[r].rt.port = None
      PROVE  /\ req'[r].ask.url.label = req'[r].by
             /\ TenantOf[req'[r].ask.key] = OwnerOf[req'[r].by]
  <2>1. CASE GatewayStep(r)
    BY <1>2, <2>1, ServedByDial
  <2>2. CASE ~GatewayStep(r)
    BY <1>2, <2>2, OthersStand DEF Stands, Served, ServedByItsSandbox
  <2>3. QED
    BY <2>1, <2>2, Zenon
<1>3. QED
  BY <1>1, <1>2 DEF DialsRight, ServedByItsSandbox

-----------------------------------------------------------------------------
(* A revoked key stops.                                                    *)

\* A handler that holds a row read it after it arrived, or held it before.
LEMMA TenantKept ==
  ASSUME GatewayTypeOK, NEW r \in Requests, GatewayStep(r), req'[r].at = "tenant"
  PROVE  req'[r].age = 0 /\ req'[r].row = APIKey(req'[r].ask.key) /\ UNCHANGED keyCache
PROOF
<1>1. req \in [Requests -> Handlings]
  BY DEF GatewayTypeOK
<1>2. PICK ask \in Scenes[scene].asks : Arrive(r, ask)
  <2>1. CASE ReadTenant(r)
    <3>1. req[r].ask \in Asks /\ req[r].row \in BOOLEAN
      BY <2>1, TenantTyped DEF ReadTenant
    <3>2. QED
      BY <1>1, <2>1, <3>1, VerifyMoves DEF ReadTenant
  <2>2. CASE LookupFails(r) \/ Dial(r) \/ RouteRequest(r)
    BY <1>1, <2>2 DEF LookupFails, Dial, RouteRequest, exposePort, Answer, Become
  <2>3. QED
    BY <2>1, <2>2 DEF GatewayStep
<1>3. ask \in Asks /\ ask.key \in Keys
  BY AskTyped
<1>4. ~(ParseKey(ask) /\ CachedKey(ask.key))
  <2>1. SUFFICES ASSUME ParseKey(ask) /\ CachedKey(ask.key) PROVE FALSE
    OBVIOUS
  <2>2. keyCache[ask.key].revoked \in BOOLEAN
    BY <1>3, <2>1, Zenon DEF CachedKey, GatewayTypeOK
  <2>3. QED
    BY <1>1, <1>2, <1>3, <2>1, <2>2, VerifyMoves DEF Arrive
<1>5. QED
  BY <1>1, <1>2, <1>4 DEF Arrive, Answer, Become, keyVars

\* The clock: what was revoked and what was read grow old together.
LEMMA AgesTick ==
  ASSUME GatewayTypeOK, RowsPredate, EntriesPredate, Tick
  PROVE  RowsPredate' /\ EntriesPredate'
PROOF
<1>1. /\ RevokedLimit = KeyTTL + MaxLookup
      /\ RevokedLimit \in Nat /\ KeyTTL \in Nat /\ MaxLookup \in Nat
  BY GatewayBounds DEF RevokedLimit
<1>2. ASSUME NEW k \in Keys, keyCache'[k] # None, ~keyCache'[k].revoked, revoked'[k] # None
      PROVE  revoked'[k] <= keyCache'[k].age + MaxLookup
  <2>1. revoked[k] # None /\ keyCache[k] # None
    BY <1>2 DEF Tick
  <2>2. revoked[k] \in 0..RevokedLimit /\ keyCache[k] \in [revoked: BOOLEAN, age: 0..KeyTTL]
    BY <2>1 DEF GatewayTypeOK
  <2>3. /\ revoked'[k] = Older(revoked[k], RevokedLimit)
        /\ keyCache'[k] = [keyCache[k] EXCEPT !.age = Older(@, KeyTTL)]
    BY <2>1 DEF Tick
  <2>4. keyCache'[k].age = Older(keyCache[k].age, KeyTTL) /\ ~keyCache[k].revoked
    BY <1>2, <2>2, <2>3
  <2>5. revoked[k] <= keyCache[k].age + MaxLookup
    BY <2>1, <2>4, Zenon DEF EntriesPredate
  <2>6. QED
    BY <1>1, <2>2, <2>3, <2>4, <2>5 DEF Older
<1>3. ASSUME NEW r \in Requests, req'[r].at = "tenant", ~req'[r].row,
             revoked'[req'[r].ask.key] # None
      PROVE  revoked'[req'[r].ask.key] <= req'[r].age
  <2>1. req[r].at = "tenant"
    BY <1>3 DEF Tick
  <2>2. req[r] \in [at: {"tenant"}, ask: Asks, age: 0..MaxLookup, row: BOOLEAN]
    BY <2>1, TenantTyped
  <2>3. req'[r] = [req[r] EXCEPT !.age = @ + 1]
    BY <2>1 DEF Tick
  <2>4. req'[r].age = req[r].age + 1 /\ req'[r].ask = req[r].ask /\ ~req[r].row
    BY <1>3, <2>2, <2>3
  <2> DEFINE k == req[r].ask.key
  <2>5. k \in Keys
    BY <2>2, GatewayNames
  <2>6. revoked[k] # None /\ revoked'[k] = Older(revoked[k], RevokedLimit)
    BY <1>3, <2>4, <2>5 DEF Tick
  <2>7. revoked[k] \in 0..RevokedLimit
    BY <2>5, <2>6, Zenon DEF GatewayTypeOK
  <2>8. revoked[k] <= req[r].age
    BY <2>1, <2>4, <2>6 DEF RowsPredate
  <2>9. QED
    BY <1>1, <2>2, <2>4, <2>6, <2>7, <2>8 DEF Older
<1>4. QED
  BY <1>2, <1>3 DEF RowsPredate, EntriesPredate

\* One step keeps the rows older than the revocations they do not show.
LEMMA AgesStep ==
  ASSUME GatewayTypeOK, RowsPredate, EntriesPredate, [GatewayNext]_gatewayVars
  PROVE  RowsPredate' /\ EntriesPredate'
PROOF
<1>1. ASSUME NEW r \in Requests, GatewayStep(r) PROVE RowsPredate' /\ EntriesPredate'
  <2>1. UNCHANGED revoked
    BY <1>1, HandlerMoves DEF Moves
  <2>2. RowsPredate'
    <3>1. ASSUME NEW x \in Requests, req'[x].at = "tenant", ~req'[x].row,
                 revoked[req'[x].ask.key] # None
          PROVE  revoked[req'[x].ask.key] <= req'[x].age
      <4>1. x # r
        BY <1>1, <3>1, TenantKept, Zenon DEF APIKey
      <4>2. PICK h \in Handlings : req' = [req EXCEPT ![r] = h]
        BY <1>1, HandlerMoves DEF Moves
      <4>3. req'[x] = req[x]
        BY <4>1, <4>2 DEF GatewayTypeOK
      <4>4. QED
        BY <3>1, <4>3 DEF RowsPredate
    <3>2. QED
      BY <2>1, <3>1, Zenon DEF RowsPredate
  <2>3. CASE UNCHANGED keyCache
    BY <2>1, <2>2, <2>3, Zenon DEF EntriesPredate
  <2>4. CASE ReadTenant(r)
    <3>1. /\ req[r].at = "tenant" /\ req[r].ask.key \in Keys
          /\ req[r].row \in BOOLEAN /\ req[r].age \in 0..MaxLookup
      BY <2>4, TenantTyped DEF ReadTenant
    <3>2. ASSUME NEW k \in Keys, keyCache'[k] # None, ~keyCache'[k].revoked, revoked[k] # None
          PROVE  revoked[k] <= keyCache'[k].age + MaxLookup
      <4>1. CASE k = req[r].ask.key
        <5>1. keyCache'[k] = [revoked |-> req[r].row, age |-> 0]
          BY <2>4, <4>1, Zenon DEF ReadTenant, CacheKey, GatewayTypeOK
        <5>2. revoked[k] <= req[r].age
          BY <3>1, <3>2, <4>1, <5>1 DEF RowsPredate
        <5>3. revoked[k] \in 0..RevokedLimit
          BY <3>2, Zenon DEF GatewayTypeOK
        <5>4. QED
          BY <3>1, <5>1, <5>2, <5>3, GatewayBounds DEF RevokedLimit
      <4>2. CASE k # req[r].ask.key
        BY <2>4, <3>2, <4>2, Zenon DEF ReadTenant, CacheKey, GatewayTypeOK, EntriesPredate
      <4>3. QED
        BY <4>1, <4>2
    <3>3. QED
      BY <2>1, <2>2, <3>2, Zenon DEF EntriesPredate
  <2>5. QED
    BY <1>1, <2>3, <2>4, Zenon DEF GatewayStep, Arrive, LookupFails, RouteRequest, Dial, keyVars
<1>2. CASE ClusterStep
  BY <1>2, ClusterTypes DEF keyVars, RowsPredate, EntriesPredate
<1>3. ASSUME NEW k \in Scenes[scene].keys, Revoke(k) PROVE RowsPredate' /\ EntriesPredate'
  <2>1. /\ revoked' = [revoked EXCEPT ![k] = 0] /\ revoked \in [Keys -> 0..RevokedLimit \cup {None}]
        /\ UNCHANGED <<keyCache, req>>
    BY <1>3 DEF Revoke, GatewayTypeOK
  <2>2. \A j \in Keys : revoked'[j] = IF j = k THEN 0 ELSE revoked[j]
    BY <2>1, Zenon
  <2>3. RowsPredate'
    <3>1. ASSUME NEW r \in Requests, req[r].at = "tenant", ~req[r].row,
                 revoked'[req[r].ask.key] # None
          PROVE  revoked'[req[r].ask.key] <= req[r].age
      <4>1. req[r].ask.key \in Keys /\ req[r].age \in 0..MaxLookup
        BY <3>1, TenantTyped, Zenon
      <4>2. QED
        BY <2>2, <3>1, <4>1, GatewayBounds DEF RowsPredate
    <3>2. QED
      BY <2>1, <3>1 DEF RowsPredate
  <2>4. EntriesPredate'
    <3>1. \A j \in Keys : keyCache[j] # None => keyCache[j].age \in 0..KeyTTL
      BY Zenon DEF GatewayTypeOK
    <3>2. QED
      BY <2>1, <2>2, <3>1, GatewayBounds DEF EntriesPredate
  <2>5. QED
    BY <2>3, <2>4
<1>4. ASSUME NEW k \in Scenes[scene].keys, KeyExpires(k) PROVE RowsPredate' /\ EntriesPredate'
  BY <1>4, Zenon DEF KeyExpires, RowsPredate, EntriesPredate
<1>5. CASE UNCHANGED gatewayVars
  BY <1>5 DEF gatewayVars, keyVars, RowsPredate, EntriesPredate
<1>6. QED
  BY <1>1, <1>2, <1>3, <1>4, <1>5, AgesTick DEF GatewayNext

-----------------------------------------------------------------------------
(* What appears is found.                                                  *)

\* The cluster and the informer: an address once shown stays, and an entry
\* without one is at least as old as the address is known.
LEMMA SeenCluster ==
  ASSUME GatewayTypeOK, ShownStays, MissesPredate, ClusterStep
  PROVE  ShownStays' /\ MissesPredate'
PROOF
<1>1. PICK s \in Ids : \/ DeadlinePasses(s) \/ Expire(s) \/ Delete(s) \/ LosePod(s) \/ Observe(s)
                       \/ \E ip \in IPs : Bind(s, ip)
  BY DEF ClusterStep
<1>2. UNCHANGED resolved
  BY ClusterTypes, Zenon
<1>3. CASE DeadlinePasses(s) \/ LosePod(s)
  BY <1>2, <1>3, Zenon DEF DeadlinePasses, LosePod, ShownStays, MissesPredate
<1>4. CASE Expire(s)
  <2>1. /\ sandbox' = [sandbox EXCEPT ![s].token = FALSE]
        /\ sandbox[s] \in Objects /\ UNCHANGED <<informer, seen>>
    BY <1>4 DEF Expire, Bound, GatewayTypeOK
  <2>2. HasAddress(sandbox[s]) /\ sandbox'[s] # None => HasAddress(sandbox'[s])
    BY <2>1 DEF HasAddress, Objects, GatewayTypeOK
  <2>3. sandbox[s] # None /\ \A t \in Ids : t # s => sandbox'[t] = sandbox[t]
    BY <1>4, <2>1, Zenon DEF Expire, Bound, GatewayTypeOK
  <2>4. QED
    BY <1>2, <2>1, <2>2, <2>3, Zenon DEF ShownStays, MissesPredate
<1>5. CASE Delete(s)
  BY <1>2, <1>5 DEF Delete, GatewayTypeOK, ShownStays, MissesPredate
<1>6. CASE Observe(s)
  <2>1. /\ informer' = [informer EXCEPT ![s] = sandbox[s]]
        /\ informer[s] # sandbox[s] /\ UNCHANGED sandbox
        /\ informer \in [Ids -> Objects \cup {None}]
    BY <1>6, Zenon DEF Observe, GatewayTypeOK
  <2>2. \A t \in Ids : t # s => seen'[t] = seen[t] /\ informer'[t] = informer[t]
    BY <1>6, <2>1, Zenon DEF Observe, GatewayTypeOK
  <2>3. seen'[s] = seen[s] \/ (seen'[s] = 0 /\ HasAddress(sandbox[s]))
    BY <1>6, Zenon DEF Observe, GatewayTypeOK, HasAddress
  <2>4. ShownStays'
    BY <2>1, <2>2, <2>3, Zenon DEF ShownStays
  <2>5. MissesPredate'
    <3>1. ASSUME seen'[s] # None, informer'[s] # None, resolved[s] # None,
                 ~HasAddress(resolved[s].target)
          PROVE  seen'[s] <= resolved[s].age
      <4>1. resolved[s].age \in 0..ResolveTTL /\ ResolveTTL \in Nat
        BY <3>1, GatewayBounds DEF GatewayTypeOK
      <4>2. CASE seen'[s] = 0
        BY <4>1, <4>2
      <4>3. CASE seen'[s] = seen[s]
        <5>1. informer[s] # None
          BY <2>1, <3>1, <4>3, Zenon DEF ShownStays
        <5>2. QED
          BY <3>1, <4>3, <5>1 DEF MissesPredate
      <4>4. QED
        BY <2>3, <4>2, <4>3
    <3>2. QED
      BY <1>2, <2>2, <3>1, Zenon DEF MissesPredate
  <2>6. QED
    BY <2>4, <2>5, Zenon
<1>7. ASSUME NEW ip \in IPs, Bind(s, ip) PROVE ShownStays' /\ MissesPredate'
  <2>1. seen[s] = None
    BY <1>7, GatewayNames DEF Bind, Pending, HasAddress, ShownStays
  <2>2. \A t \in Ids : t # s => sandbox'[t] = sandbox[t]
    BY <1>7 DEF Bind, GatewayTypeOK
  <2>3. QED
    BY <1>2, <1>7, <2>1, <2>2 DEF Bind, ShownStays, MissesPredate
<1>8. QED
  BY <1>1, <1>3, <1>4, <1>5, <1>6, <1>7

\* A route caches what the informer shows, which has an address if it ever
\* showed one.
LEMMA SeenHandler ==
  ASSUME GatewayTypeOK, ShownStays, MissesPredate, NEW r \in Requests, GatewayStep(r)
  PROVE  ShownStays' /\ MissesPredate'
PROOF
<1>1. UNCHANGED <<sandbox, informer, seen>>
  BY HandlerMoves, Zenon DEF Moves, clusterVars
<1>2. ShownStays'
  BY <1>1, Zenon DEF ShownStays
<1>3. CASE UNCHANGED resolved
  BY <1>1, <1>2, <1>3 DEF MissesPredate
<1>4. CASE RouteRequest(r)
  <2>1. \A s \in Ids : resolved'[s] \in {resolved[s], [target |-> informer[s], age |-> 0]}
    BY <1>4, Zenon DEF RouteRequest, Entry
  <2>2. ASSUME NEW s \in Ids, seen[s] # None, informer[s] # None, resolved'[s] # None,
               ~HasAddress(resolved'[s].target)
        PROVE  seen[s] <= resolved'[s].age
    <3>1. resolved'[s] = resolved[s]
      BY <2>1, <2>2, SMTT(30) DEF ShownStays
    <3>2. QED
      BY <2>2, <3>1 DEF MissesPredate
  <2>3. QED
    BY <1>1, <1>2, <2>2, Zenon DEF MissesPredate
<1>5. QED
  BY <1>3, <1>4, Zenon DEF GatewayStep, Arrive, LookupFails, ReadTenant, Dial

\* The clock: an address and the entries that miss it grow old together.
LEMMA SeenTick ==
  ASSUME GatewayTypeOK, ShownStays, MissesPredate, Tick
  PROVE  ShownStays' /\ MissesPredate'
PROOF
<1>1. UNCHANGED <<sandbox, informer>> /\ \A s \in Ids : seen'[s] # None => seen[s] # None
  BY DEF Tick
<1>2. ShownStays'
  BY <1>1 DEF ShownStays
<1>3. ASSUME NEW s \in Ids, seen'[s] # None, informer[s] # None, resolved'[s] # None,
             ~HasAddress(resolved'[s].target)
      PROVE  seen'[s] <= resolved'[s].age
  <2>1. seen[s] # None /\ resolved[s] # None
    BY <1>3, Zenon DEF Tick
  <2>2. /\ seen[s] \in 0..ResolveTTL /\ ResolveTTL \in Nat
        /\ resolved[s] \in [target: Objects \cup {None}, age: 0..ResolveTTL]
    BY <2>1, GatewayBounds DEF GatewayTypeOK
  <2>3. /\ seen'[s] = Older(seen[s], ResolveTTL)
        /\ resolved'[s] = [resolved[s] EXCEPT !.age = Older(@, ResolveTTL)]
    BY <2>1 DEF Tick
  <2>4. resolved'[s].age = Older(resolved[s].age, ResolveTTL) /\ ~HasAddress(resolved[s].target)
    BY <1>3, <2>2, <2>3, Zenon
  <2>5. seen[s] <= resolved[s].age
    BY <1>3, <2>1, <2>4 DEF MissesPredate
  <2>6. QED
    BY <2>2, <2>3, <2>4, <2>5 DEF Older
<1>4. QED
  BY <1>1, <1>2, <1>3 DEF MissesPredate

\* One step keeps the misses older than the addresses they miss.
LEMMA SeenStep ==
  ASSUME GatewayTypeOK, ShownStays, MissesPredate, [GatewayNext]_gatewayVars
  PROVE  ShownStays' /\ MissesPredate'
PROOF
<1>1. ASSUME NEW k \in Scenes[scene].keys, Revoke(k) \/ KeyExpires(k)
      PROVE  ShownStays' /\ MissesPredate'
  BY <1>1, Zenon DEF Revoke, KeyExpires, clusterVars, ShownStays, MissesPredate
<1>2. CASE UNCHANGED gatewayVars
  BY <1>2 DEF gatewayVars, clusterVars, ShownStays, MissesPredate
<1>3. QED
  BY <1>1, <1>2, SeenCluster, SeenHandler, SeenTick, Zenon DEF GatewayNext

-----------------------------------------------------------------------------
(* The theorems about the gateway.                                         *)

\* The gateway's invariant holds of every behaviour.
LEMMA GatewayInvariance == GatewaySpec => []GatewayInv
PROOF
<1>1. GatewayInit => GatewayInv
  <2>1. SUFFICES ASSUME GatewayInit PROVE GatewayInv
    BY Zenon
  <2>2. GatewayTypeOK
    BY <2>1, GatewayBounds, GatewayNames
       DEF GatewayInit, GatewayTypeOK, Objects, Pending, Handlings
  <2>3. \A r \in Requests : req[r].at = "idle"
    BY <2>1, Zenon DEF GatewayInit, Idle
  <2>4. DialsRight /\ ServedByItsSandbox /\ RowsPredate
    BY <2>3, Zenon DEF DialsRight, ServedByItsSandbox, Served, RowsPredate
  <2>5. EntriesPredate /\ ShownStays /\ MissesPredate
    BY <2>1 DEF GatewayInit, EntriesPredate, ShownStays, MissesPredate
  <2>6. QED
    BY <2>2, <2>4, <2>5 DEF GatewayInv
<1>2. GatewayInv /\ [GatewayNext]_gatewayVars => GatewayInv'
  BY GatewayTypeStep, ServingStep, AgesStep, SeenStep DEF GatewayInv
<1>3. QED
  BY <1>1, <1>2, PTL DEF GatewaySpec

\* The types of the gateway's state.
THEOREM GatewayTypes == GatewaySpec => []GatewayTypeOK
PROOF
<1>1. GatewayInv => GatewayTypeOK
  BY DEF GatewayInv
<1>2. QED
  BY <1>1, GatewayInvariance, PTL

\* A request to the data plane is answered by the sandbox whose URL it used,
\* and for a key of its tenant, for any number of sandboxes, addresses and
\* requests in flight and however old the copies are (route, presentToken,
\* requireSandbox).
THEOREM RightSandbox == GatewaySpec => []ServedByItsSandbox
PROOF
<1>1. GatewayInv => ServedByItsSandbox
  BY DEF GatewayInv
<1>2. QED
  BY <1>1, GatewayInvariance, PTL

\* No key is accepted that was revoked cacheTTL and a lookup ago, whatever the
\* order of lookups, revocations and requests (Verify, lookup).
THEOREM RevocationHolds == GatewaySpec => RevokedKeysStop
PROOF
<1> DEFINE Accepts == \A r \in Requests :
                        req[r].at # "route" /\ req'[r].at = "route" =>
                          LET t == revoked[req'[r].ask.key]
                          IN t = None \/ t < RevokedLimit
<1>1. GatewayInv /\ [GatewayNext]_gatewayVars => [Accepts]_gatewayVars
  <2>1. SUFFICES ASSUME GatewayInv, GatewayNext,
                        NEW r \in Requests, req[r].at # "route", req'[r].at = "route",
                        revoked[req'[r].ask.key] # None
                 PROVE  revoked[req'[r].ask.key] < RevokedLimit
    BY Zenon
  <2>2. GatewayTypeOK /\ RowsPredate /\ EntriesPredate /\ req \in [Requests -> Handlings]
    BY <2>1 DEF GatewayInv, GatewayTypeOK
  <2>3. GatewayStep(r)
    BY <2>1, <2>2, OthersStand, Zenon DEF Stands
  <2>4. /\ RevokedLimit = KeyTTL + MaxLookup /\ KeyTTL \in Nat \ {0} /\ MaxLookup \in Nat
        /\ \A k \in Keys : revoked[k] # None => revoked[k] \in Nat
    BY <2>2, GatewayBounds DEF RevokedLimit, GatewayTypeOK
  <2>5. ASSUME NEW ask \in Scenes[scene].asks, Arrive(r, ask)
        PROVE  revoked[req'[r].ask.key] < RevokedLimit
    <3>1. ask \in Asks /\ ask.key \in Keys
      BY <2>2, AskTyped
    <3>2. ParseKey(ask) /\ CachedKey(ask.key)
      BY <2>1, <2>2, <2>5 DEF Arrive, Answer, Become
    <3>3. keyCache[ask.key] \in [revoked: BOOLEAN, age: 0..KeyTTL] /\ keyCache[ask.key].age < KeyTTL
      BY <2>2, <3>1, <3>2 DEF CachedKey, GatewayTypeOK
    <3>4. req'[r].ask = ask /\ ~keyCache[ask.key].revoked
      BY <2>1, <2>2, <2>5, <3>1, <3>2, <3>3, VerifyMoves, SMTT(30) DEF Arrive
    <3>5. revoked[ask.key] <= keyCache[ask.key].age + MaxLookup
      BY <2>1, <2>2, <3>1, <3>2, <3>4, Zenon DEF EntriesPredate, CachedKey
    <3>6. QED
      BY <2>1, <2>4, <3>1, <3>3, <3>4, <3>5
  <2>6. CASE ReadTenant(r)
    <3>1. /\ req[r].at = "tenant" /\ req[r].ask \in Asks /\ req[r].ask.key \in Keys
          /\ req[r].row \in BOOLEAN /\ req[r].age \in 0..MaxLookup
      BY <2>2, <2>6, TenantTyped, Zenon DEF ReadTenant
    <3>2. req'[r].ask = req[r].ask /\ ~req[r].row
      BY <2>1, <2>2, <2>6, <3>1, VerifyMoves DEF ReadTenant
    <3>3. revoked[req[r].ask.key] <= req[r].age
      BY <2>1, <2>2, <3>1, <3>2 DEF RowsPredate
    <3>4. QED
      BY <2>1, <2>4, <3>1, <3>2, <3>3
  <2>7. CASE LookupFails(r) \/ RouteRequest(r) \/ Dial(r)
    BY <2>1, <2>2, <2>7 DEF LookupFails, RouteRequest, Dial, exposePort, Answer, Become
  <2>8. QED
    BY <2>3, <2>5, <2>6, <2>7 DEF GatewayStep
<1>2. QED
  BY <1>1, GatewayInvariance, PTL DEF GatewaySpec, RevokedKeysStop

\* A name that is found is found under each of its URLs (ParseHost, ParsePath).
LEMMA NamesLead ==
  ASSUME NEW s \in Ids, Found(s), NEW url, Names(url, s)
  PROVE  Found(Route(url).id)
PROOF
<1>1. CASE url.by # "host"
  BY <1>1, Zenon DEF Names, Route, ParsePath
<1>2. CASE url.by = "host" /\ url.label = s
  BY <1>2, Zenon DEF Names, Route, ParseHost
<1>3. ASSUME NEW p \in Ports, url.by = "host", url.label = Append(s, p)
      PROVE  Found(Route(url).id)
  <2>1. PortReading(url.label) /\ BeforeLast(url.label) = s
    BY <1>3, PortLabel
  <2>2. QED
    BY <1>3, <2>1 DEF Names, Route, ParseHost
<1>4. QED
  BY <1>1, <1>2, <1>3 DEF Names

\* A sandbox whose address the informer has shown for ResolveTTL is not
\* answered as unknown, whatever was asked about it before (Resolve).
THEOREM AppearsInTime == GatewaySpec => FoundOnceSeen
PROOF
<1> DEFINE Finds == \A r \in Requests, s \in Ids :
             /\ req[r].at = "route" /\ req'[r].at = "done" /\ req'[r].answer = "unknown"
             /\ Names(req[r].ask.url, s) /\ informer[s] # None /\ seen[s] # None
             => seen[s] < ResolveTTL
<1>1. GatewayInv /\ [GatewayNext]_gatewayVars => [Finds]_gatewayVars
  <2>1. SUFFICES ASSUME GatewayInv, GatewayNext, NEW r \in Requests, NEW s \in Ids,
                        req[r].at = "route", req'[r].at = "done", req'[r].answer = "unknown",
                        Names(req[r].ask.url, s), informer[s] # None, seen[s] # None,
                        ~(seen[s] < ResolveTTL)
                 PROVE  FALSE
    BY ZenonT(30)
  <2>2. GatewayTypeOK /\ ShownStays /\ MissesPredate /\ req \in [Requests -> Handlings]
    BY <2>1, Zenon DEF GatewayInv, GatewayTypeOK
  <2>3. GatewayStep(r)
    BY <2>1, <2>2, OthersStand, SMTT(30) DEF Stands
  <2>4. RouteRequest(r)
    <3>1. ASSUME NEW ask \in Scenes[scene].asks, Arrive(r, ask) PROVE FALSE
      BY <2>1, <3>1 DEF Arrive, Idle
    <3>2. ~(ReadTenant(r) \/ LookupFails(r) \/ Dial(r))
      BY <2>1, Zenon DEF ReadTenant, LookupFails, Dial
    <3>3. QED
      BY <2>3, <3>1, <3>2, Zenon DEF GatewayStep
  <2>5. Decision(req[r].ask, Route(req[r].ask.url)) = "unknown"
    BY <2>1, <2>2, <2>4 DEF RouteRequest, exposePort, Answer, Become
  <2>6. ~Found(Route(req[r].ask.url).id)
    BY <2>5, Zenon DEF Decision
  <2>7. ~Found(s)
    BY <2>1, <2>6, NamesLead, Zenon
  <2>8. seen[s] \in 0..ResolveTTL /\ ResolveTTL \in Nat
    BY <2>1, <2>2, GatewayBounds, Zenon DEF GatewayTypeOK
  <2>9. HasAddress(informer[s])
    BY <2>1, <2>2, Zenon DEF ShownStays
  <2>10. resolved[s] # None /\ resolved[s].age < ResolveTTL /\ ~HasAddress(resolved[s].target)
    BY <2>7, <2>9, Zenon DEF Found, Entry, HasAddress
  <2>11. seen[s] <= resolved[s].age /\ resolved[s].age \in Nat
    BY <2>1, <2>2, <2>10 DEF MissesPredate, GatewayTypeOK
  <2>12. QED
    BY <2>1, <2>8, <2>10, <2>11
<1>2. QED
  BY <1>1, GatewayInvariance, PTL DEF GatewaySpec, FoundOnceSeen

\* The names newID gives: "sbx-" and one more segment.
GeneratedNames == \A s \in Ids : Len(s) = 2

\* Of the names that newID gives, every URL leads back to its sandbox and its
\* port, whatever the resolver holds (Router).
THEOREM RoutersAreInverse ==
  ASSUME GeneratedNames
  PROVE  GatewaySpec => []RoutersInvert
PROOF
<1>1. ASSUME NEW s \in Ids PROVE ~Found(BeforeLast(s))
  <2>1. s \in Seq(STRING) /\ Len(s) = 2
    BY GatewayNames DEF GeneratedNames
  <2>2. BeforeLast(s) = SubSeq(s, 1, 1)
    BY <2>1 DEF BeforeLast
  <2>3. Len(BeforeLast(s)) = 1
    BY <2>1, <2>2, SMTT(30)
  <2>4. QED
    BY <2>3 DEF Found, GeneratedNames
<1>2. ASSUME NEW s \in Ids, Found(s)
      PROVE  /\ ParseHost(s) = [id |-> s, port |-> None]
             /\ \A p \in Ports : ParseHost(Append(s, p)) = [id |-> s, port |-> p]
  BY <1>1, <1>2, PortLabel, Zenon DEF ParseHost
<1>3. RoutersInvert
  <2>1. ASSUME NEW s \in Ids, Found(s)
        PROVE  /\ Route(EndpointURL(s)) = [id |-> s, port |-> None]
               /\ RouteMode = "both" => Route(HostEndpointURL(s)) = [id |-> s, port |-> None]
    BY <1>2, <2>1, GatewayModes DEF Route, EndpointURL, HostEndpointURL, PathEndpointURL, Renders,
         Url, ParsePath
  <2>2. ASSUME NEW s \in Ids, Found(s), NEW p \in Ports
        PROVE  /\ Route(PortURL(s, p)) = [id |-> s, port |-> p]
               /\ RouteMode = "both" => Route(HostPortURL(s, p)) = [id |-> s, port |-> p]
    BY <1>2, <2>2, GatewayModes, Zenon DEF Route, PortURL, HostPortURL, PathPortURL, Renders, Url, ParsePath
  <2>3. QED
    BY <2>1, <2>2, Zenon DEF RoutersInvert
<1>4. QED
  BY <1>3, PTL

-----------------------------------------------------------------------------
(* The handle of an SDK: its inductive invariant.                          *)

\* The client asked the Go SDK for renewals at least three minimal intervals
\* apart.
AsksInTime == sdk = "go" /\ keeps /\ asked >= 3 * MinInterval

Missed == IF missed THEN 1 ELSE 0
InFlight == IF call = NoCall THEN 0 ELSE 1

\* Until the sandbox's endpoint is known nothing has been sent, and time
\* stands still once the sandbox runs.
Waiting ==
  /\ handle \in {"none", "creating"} => ~endpoint /\ ~loop
  /\ ~endpoint => call = NoCall /\ ~missed
  /\ endpoint => life # "pending"
  /\ ~endpoint /\ life = "running" /\ (handle = "creating" \/ (handle = "open" /\ waits)) =>
       deadline = Granted

\* The ticker's beat: a call in flight began at the last one.
Beat ==
  AsksInTime /\ handle = "open" =>
    /\ loop /\ next <= Interval
    /\ call # NoCall => call <= MaxCall /\ next = Interval - call

\* The deadline lies one interval after the next renewal for each of the three
\* that the TTL holds, less one for a renewal missed and one for a call in
\* flight.
Ahead ==
  AsksInTime /\ handle = "open" /\ endpoint =>
    /\ life # "lapsed"
    /\ life = "running" => deadline + (1 + Missed + InFlight) * Interval >= asked + next

HandleInv == HandleTypeOK /\ Waiting /\ Beat /\ Ahead

-----------------------------------------------------------------------------
\* The interval is a natural number, and a third of the TTL where the TTL is
\* three minimal intervals or more (startKeepAlive).
LEMMA IntervalIsAThird ==
  ASSUME HandleTypeOK
  PROVE  /\ KeepTTL \in Nat /\ Interval \in Nat /\ Granted \in Nat
         /\ AsksInTime => /\ KeepTTL = asked /\ Granted = asked
                    /\ 3 * Interval <= asked /\ MinInterval <= Interval
                    /\ MaxCall < Interval
PROOF
<1>1. KeepTTL \in Nat /\ Granted \in Nat /\ asked \in Nat
  BY HandleTimes DEF KeepTTL, Granted, HandleTypeOK
<1>2. \A n \in Nat : n \div 3 \in Nat /\ 3 * (n \div 3) <= n /\ n < 3 * (n \div 3) + 3
  OBVIOUS
<1>3. Interval \in Nat
  BY <1>1, <1>2, HandleTimes DEF Interval
<1>4. AsksInTime => KeepTTL = asked /\ Granted = asked
  BY <1>1, HandleTimes DEF AsksInTime, KeepTTL, Granted
<1>5. AsksInTime => MinInterval <= KeepTTL \div 3
  BY <1>1, <1>2, <1>4, HandleTimes DEF AsksInTime
<1>6. AsksInTime => Interval = KeepTTL \div 3
  BY <1>1, <1>2, <1>5, HandleTimes DEF Interval
<1>7. QED
  BY <1>1, <1>2, <1>3, <1>4, <1>5, <1>6, HandleTimes

\* While a client asks for renewals and knows the endpoint, execd's deadline
\* has not come: at most one renewal was missed and the ticker is at most one
\* beat on.
LEMMA DeadlineAhead ==
  ASSUME HandleInv, AsksInTime, handle = "open", endpoint, life = "running"
  PROVE  deadline > 0
PROOF
<1>1. /\ Interval \in Nat /\ asked \in Nat /\ next \in Nat /\ deadline \in Nat
      /\ 3 * Interval <= asked /\ MaxCall < Interval /\ MaxCall \in Nat
  BY IntervalIsAThird, HandleTimes DEF HandleInv, HandleTypeOK
<1>2. deadline + (1 + Missed + InFlight) * Interval >= asked + next
  BY DEF HandleInv, Ahead
<1>3. CASE call = NoCall
  <2>1. InFlight = 0 /\ (Missed = 0 \/ Missed = 1)
    BY <1>3 DEF InFlight, Missed
  <2>2. QED
    BY <1>1, <1>2, <2>1
<1>4. CASE call # NoCall
  <2>1. InFlight = 1 /\ (Missed = 0 \/ Missed = 1)
    BY <1>4 DEF InFlight, Missed
  <2>2. next > 0
    BY <1>1, <1>4 DEF HandleInv, Beat, HandleTypeOK
  <2>3. QED
    BY <1>1, <1>2, <2>1, <2>2
<1>5. QED
  BY <1>3, <1>4

-----------------------------------------------------------------------------
\* Every step keeps the types: the counters of ticks stay natural numbers.
LEMMA HandleTypeStep ==
  ASSUME HandleTypeOK, [HandleNext]_handleVars
  PROVE  HandleTypeOK'
PROOF
<1>1. KeepTTL \in Nat /\ Interval \in Nat /\ Granted \in Nat
  BY IntervalIsAThird
<1>2. NextAfterCall \in Nat
  BY <1>1, Zenon DEF NextAfterCall, HandleTypeOK
<1>3. CASE BindSandbox \/ FailSandbox \/ Lapse \/ ExpireStatus
  BY <1>1, <1>3 DEF BindSandbox, FailSandbox, Lapse, ExpireStatus, HandleTypeOK, optVars, loopVars
<1>4. CASE StartCreate
  BY <1>4 DEF StartCreate, HandleTypeOK, loopVars
<1>5. CASE Created
  <2>1. endpoint' \in BOOLEAN /\ loop' \in BOOLEAN
    BY <1>5, Zenon DEF Created, HandleTypeOK
  <2>2. QED
    BY <1>1, <1>5, <2>1 DEF Created, HandleTypeOK, optVars
<1>6. CASE WaitReady
  BY <1>6 DEF WaitReady, HandleTypeOK, loopVars
<1>7. CASE Renew
  <2>1. loop' \in BOOLEAN
    BY <1>7, Zenon DEF Renew
  <2>2. QED
    BY <1>1, <1>7, <2>1 DEF Renew, HandleTypeOK, optVars
<1>8. CASE Renewed
  BY <1>1, <1>2, <1>8, ZenonT(30) DEF Renewed, HandleTypeOK, optVars
<1>9. CASE Miss
  BY <1>1, <1>2, <1>9 DEF Miss, LoopAfterMiss, HandleTypeOK, optVars
<1>10. CASE Close
  BY <1>10, ZenonT(30) DEF Close, HandleTypeOK, optVars
<1>11. CASE CloseAgain
  BY <1>11 DEF CloseAgain, HandleTypeOK, optVars, loopVars
<1>12. CASE ClientCrashes
  BY <1>12, Zenon DEF ClientCrashes, HandleTypeOK, optVars
<1>13. CASE HandleTick
  BY <1>13 DEF HandleTick, Less, NoCall, HandleTypeOK, optVars
<1>14. CASE UNCHANGED handleVars
  BY <1>14 DEF handleVars, optVars, loopVars, HandleTypeOK
<1>15. QED
  BY <1>3, <1>4, <1>5, <1>6, <1>7, <1>8, <1>9, <1>10, <1>11, <1>12, <1>13, <1>14 DEF HandleNext

\* Before the endpoint is known no renewal is sent and the deadline does not
\* move: Create and WaitReady take the endpoint over as soon as the sandbox
\* runs.
LEMMA WaitingStep ==
  ASSUME HandleTypeOK, Waiting, [HandleNext]_handleVars
  PROVE  Waiting'
PROOF
<1>1. CASE BindSandbox \/ FailSandbox \/ Lapse \/ ExpireStatus
  BY <1>1 DEF BindSandbox, FailSandbox, Lapse, ExpireStatus, Waiting, Granted, optVars, loopVars
<1>2. CASE StartCreate
  BY <1>2 DEF StartCreate, Waiting, loopVars
<1>3. CASE Created
  BY <1>3 DEF Created, Waiting, Granted, HandleTypeOK, optVars
<1>4. CASE WaitReady
  BY <1>4 DEF WaitReady, Waiting, Granted, HandleTypeOK, loopVars
<1>5. CASE Renew
  BY <1>5 DEF Renew, Waiting, Granted, HandleTypeOK, optVars
<1>6. CASE Renewed
  BY <1>6 DEF Renewed, Waiting, HandleTypeOK, optVars
<1>7. CASE Miss
  BY <1>7 DEF Miss, LoopAfterMiss, Waiting, HandleTypeOK, optVars
<1>8. CASE Close
  BY <1>8 DEF Close, Waiting, HandleTypeOK, optVars
<1>9. CASE CloseAgain
  BY <1>9 DEF CloseAgain, Waiting, Granted, optVars, loopVars
<1>10. CASE ClientCrashes
  BY <1>10 DEF ClientCrashes, Waiting, optVars
<1>11. CASE HandleTick
  BY <1>11 DEF HandleTick, OnTime, Waiting, NoCall, HandleTypeOK, optVars
<1>12. CASE UNCHANGED handleVars
  BY <1>12 DEF handleVars, optVars, loopVars, Waiting, Granted
<1>13. QED
  BY <1>1, <1>2, <1>3, <1>4, <1>5, <1>6, <1>7, <1>8, <1>9, <1>10, <1>11, <1>12, Zenon DEF HandleNext

\* The Go ticker keeps its beat: time does not pass it, and a call in flight
\* ends before the next one.
LEMMA BeatStep ==
  ASSUME HandleInv, [HandleNext]_handleVars
  PROVE  Beat'
PROOF
<1>1. SUFFICES ASSUME AsksInTime', handle' = "open"
               PROVE  /\ loop' /\ next' <= Interval'
                      /\ call' # NoCall => call' <= MaxCall /\ next' = Interval' - call'
  BY DEF Beat, NoCall
<1>2. HandleTypeOK /\ Waiting /\ Beat
  BY DEF HandleInv
<1>3. CASE StartCreate
  BY <1>1, <1>3 DEF StartCreate
<1>4. CASE ~StartCreate
  <2>1. AsksInTime /\ UNCHANGED <<sdk, keeps, asked>>
    BY <1>1, <1>4, Zenon DEF AsksInTime, HandleNext, BindSandbox, FailSandbox, Lapse, ExpireStatus, Created,
         WaitReady, Renew, Renewed, Miss, Close, CloseAgain, ClientCrashes, HandleTick,
         handleVars, optVars
  <2>2. Interval' = Interval
    BY <2>1 DEF Interval, KeepTTL
  <2>3. /\ Interval \in Nat /\ MaxCall < Interval /\ MaxCall \in Nat
    BY <1>2, <2>1, IntervalIsAThird, HandleTimes
  <2>4. CASE Created
    BY <1>2, <2>1, <2>2, <2>3, <2>4, <1>1, SMTT(30) DEF Created, Waiting, AsksInTime
  <2>5. CASE ~Created
    <3>1. handle = "open"
      BY <1>1, <1>4, <2>5 DEF HandleNext, BindSandbox, FailSandbox, Lapse, ExpireStatus,
           WaitReady, Renew, Renewed, Miss, Close, CloseAgain, ClientCrashes, HandleTick,
           handleVars
    <3>2. /\ loop /\ next <= Interval /\ next \in Nat /\ call \in Nat \cup {NoCall}
          /\ call # NoCall => call <= MaxCall /\ next = Interval - call
      BY <1>2, <2>1, <3>1 DEF Beat, HandleTypeOK
    <3>3. CASE Renew
      <4>1. loop'
        BY <2>1, <3>1, <3>3, Zenon DEF Renew, LoopAfterMiss, AsksInTime
      <4>2. next' = Interval /\ (call' = NoCall \/ call' = 0)
        BY <3>3 DEF Renew
      <4>3. QED
        BY <2>2, <2>3, <4>1, <4>2
    <3>4. CASE Renewed \/ Miss
      BY <2>1, <2>2, <3>1, <3>2, <3>4, Zenon DEF Renewed, Miss, LoopAfterMiss, NextAfterCall, AsksInTime
    <3>5. CASE HandleTick
      BY <2>2, <2>3, <3>2, <3>5, HandleTimes DEF HandleTick, OnTime, Less, NoCall
    <3>6. CASE Close \/ ClientCrashes
      BY <1>1, <3>6 DEF Close, ClientCrashes
    <3>7. CASE UNCHANGED loopVars
      BY <2>2, <3>2, <3>7 DEF loopVars
    <3>8. QED
      BY <1>4, <2>5, <3>3, <3>4, <3>5, <3>6, <3>7, Zenon DEF HandleNext, BindSandbox, FailSandbox, Lapse,
           ExpireStatus, WaitReady, CloseAgain, handleVars
  <2>6. QED
    BY <2>4, <2>5
<1>5. QED
  BY <1>3, <1>4

\* The deadline keeps its distance: time moves it and the ticker together, a
\* renewal that gets through restores it, a missed one takes one interval.
LEMMA AheadStep ==
  ASSUME HandleInv, [HandleNext]_handleVars
  PROVE  Ahead'
PROOF
<1>1. SUFFICES ASSUME AsksInTime', handle' = "open", endpoint'
               PROVE  /\ life' # "lapsed"
                      /\ life' = "running" =>
                           deadline' + (1 + Missed' + InFlight') * Interval' >= asked' + next'
  BY Zenon DEF Ahead
<1>2. HandleTypeOK /\ Waiting /\ Beat /\ Ahead
  BY DEF HandleInv
<1>3. CASE StartCreate
  BY <1>1, <1>3 DEF StartCreate
<1>4. CASE ~StartCreate
  <2>1. AsksInTime /\ UNCHANGED <<sdk, keeps, asked>>
    BY <1>1, <1>4, Zenon DEF AsksInTime, HandleNext, BindSandbox, FailSandbox, Lapse, ExpireStatus, Created,
         WaitReady, Renew, Renewed, Miss, Close, CloseAgain, ClientCrashes, HandleTick,
         handleVars, optVars
  <2>2. Interval' = Interval
    BY <2>1 DEF Interval, KeepTTL
  <2>3. /\ Interval \in Nat /\ asked \in Nat /\ KeepTTL = asked /\ Granted = asked
        /\ next \in Nat /\ deadline \in Nat
    BY <1>2, <2>1, IntervalIsAThird DEF HandleTypeOK
  <2>4. CASE Created
    <3>1. life = "running" /\ life' = "running"
      BY <1>1, <1>2, <2>4, Zenon DEF Created, Waiting
    <3>2. deadline' = Granted /\ next' = Interval
      BY <1>1, <1>2, <2>4, <3>1 DEF Created, Waiting
    <3>3. Missed' = 0 /\ InFlight' = 0
      BY <1>2, <2>4 DEF Created, Waiting, Missed, InFlight, NoCall
    <3>4. QED
      BY <2>1, <2>2, <2>3, <3>1, <3>2, <3>3
  <2>5. CASE WaitReady
    <3>1. life = "running" /\ life' = "running"
      BY <1>1, <2>5, Zenon DEF WaitReady
    <3>2. deadline' = Granted /\ next' = next /\ next <= Interval
      BY <1>2, <2>1, <2>5, <3>1 DEF WaitReady, Waiting, Beat, loopVars
    <3>3. Missed' = 0 /\ InFlight' = 0
      BY <1>2, <2>5 DEF WaitReady, Waiting, Missed, InFlight, NoCall, loopVars
    <3>4. QED
      BY <2>1, <2>2, <2>3, <3>1, <3>2, <3>3
  <2>6. CASE ~Created /\ ~WaitReady
    <3>1. handle = "open" /\ endpoint
      BY <1>1, <1>4, <2>6, Zenon DEF HandleNext, BindSandbox, FailSandbox, Lapse, ExpireStatus,
           Renew, Renewed, Miss, Close, CloseAgain, ClientCrashes, HandleTick, handleVars
    <3>2. life # "lapsed" /\ life # "pending"
      BY <1>2, <2>1, <3>1 DEF Ahead, Waiting
    <3>3. life = "running" =>
            deadline > 0 /\ deadline + (1 + Missed + InFlight) * Interval >= asked + next
      BY <1>2, <2>1, <3>1, DeadlineAhead DEF Ahead
    <3>4. Missed \in {0, 1} /\ InFlight \in {0, 1}
      BY DEF Missed, InFlight
    <3>5. CASE BindSandbox \/ FailSandbox \/ Lapse \/ ExpireStatus \/ Close \/ ClientCrashes
      <4>1. ~Close /\ ~ClientCrashes
        BY <1>1, Zenon DEF Close, ClientCrashes
      <4>2. deadline > 0 => deadline # 0
        BY <2>3
      <4>3. life' = "expired"
        BY <3>2, <3>3, <3>5, <4>1, <4>2 DEF BindSandbox, FailSandbox, Lapse, ExpireStatus
      <4>4. QED
        BY <4>3
    <3>6. CASE Renew
      <4>1. /\ life' = life /\ deadline' = deadline /\ next = 0 /\ next' = Interval
            /\ Missed' = Missed /\ InFlight = 0 /\ InFlight' = 1
        BY <3>1, <3>6 DEF Renew, Missed, InFlight, NoCall
      <4>2. QED
        BY <2>1, <2>2, <2>3, <3>2, <3>3, <3>4, <4>1
    <3>7. CASE Renewed
      <4>1. /\ deadline' = asked /\ next' = next /\ Missed' = 0 /\ InFlight' = 0 /\ life' = life
        BY <2>1, <2>3, <3>7 DEF Renewed, NextAfterCall, AsksInTime, Missed, InFlight, NoCall
      <4>2. next <= Interval
        BY <1>2, <2>1, <3>1 DEF Beat
      <4>3. QED
        BY <2>1, <2>2, <2>3, <3>2, <4>1, <4>2
    <3>8. CASE Miss
      <4>1. life' = life
        BY <3>8 DEF Miss
      <4>2. ASSUME life = "running"
            PROVE  deadline' + (1 + Missed' + InFlight') * Interval' >= asked' + next'
        <5>1. ~missed
          BY <2>3, <3>3, <3>8, <4>2 DEF Miss
        <5>2. Missed = 0 /\ InFlight = 1 /\ Missed' = 1 /\ InFlight' = 0 /\ next' = next
          BY <2>1, <3>8, <5>1 DEF Miss, Missed, InFlight, NoCall, NextAfterCall, AsksInTime
        <5>3. deadline' = deadline \/ deadline' = asked
          BY <2>3, <3>8, Zenon DEF Miss
        <5>4. next <= Interval
          BY <1>2, <2>1, <3>1 DEF Beat
        <5>5. QED
          BY <2>1, <2>2, <2>3, <3>3, <4>2, <5>2, <5>3, <5>4
      <4>3. QED
        BY <3>2, <4>1, <4>2
    <3>9. CASE HandleTick
      <4>1. /\ life' = life /\ Missed' = Missed /\ InFlight' = InFlight
        BY <1>2, <3>9 DEF HandleTick, Missed, InFlight, NoCall, HandleTypeOK
      <4>2. deadline' \in Nat /\ deadline' >= deadline - 1 /\ next' = next - 1
        <5>1. next > 0
          BY <1>2, <2>1, <2>3, <3>1, <3>9, IntervalIsAThird, HandleTimes
             DEF HandleTick, OnTime, Beat, HandleTypeOK
        <5>2. QED
          BY <2>3, <3>9, <5>1, SMTT(30) DEF HandleTick, Less
      <4>3. (1 + Missed + InFlight) * Interval \in Nat
        BY <2>3, <3>4
      <4>4. (1 + Missed' + InFlight') * Interval' = (1 + Missed + InFlight) * Interval
        BY <2>2, <4>1
      <4>5. QED
        BY <2>1, <2>3, <3>2, <3>3, <4>1, <4>2, <4>3, <4>4
    <3>10. CASE CloseAgain \/ UNCHANGED handleVars
      <4>1. UNCHANGED <<life, deadline, next, Missed, InFlight>>
        BY <3>10 DEF CloseAgain, handleVars, loopVars, Missed, InFlight, NoCall
      <4>2. QED
        BY <2>1, <2>2, <3>2, <3>3, <4>1, Zenon
    <3>11. QED
      BY <1>4, <2>6, <3>5, <3>6, <3>7, <3>8, <3>9, <3>10 DEF HandleNext
  <2>7. QED
    BY <2>4, <2>5, <2>6
<1>5. QED
  BY <1>3, <1>4

-----------------------------------------------------------------------------
\* The types, what holds before the endpoint is known, the ticker's beat and
\* the distance of the deadline hold together in every reachable state.
THEOREM HandleInvariance == HandleSpec => []HandleInv
PROOF
<1>1. HandleInit => HandleInv
  <2>1. HandleInit => HandleTypeOK
    <3>1. HandleInit => /\ keeps \in BOOLEAN /\ waits \in BOOLEAN /\ endpoint \in BOOLEAN
                        /\ loop \in BOOLEAN /\ missed \in BOOLEAN
      BY Zenon DEF HandleInit
    <3>2. QED
      BY <3>1 DEF HandleInit, HandleTypeOK
  <2>2. HandleInit => Waiting /\ Beat /\ Ahead
    BY DEF HandleInit, Waiting, Beat, Ahead
  <2>3. QED
    BY <2>1, <2>2 DEF HandleInv
<1>2. HandleInv /\ [HandleNext]_handleVars => HandleInv'
  BY HandleTypeStep, WaitingStep, BeatStep, AheadStep DEF HandleInv
<1>3. QED
  BY <1>1, <1>2, PTL DEF HandleSpec

\* For every TTL of three minimal intervals or more, and every duration of a
\* call below the minimal interval, a single missed renewal is not fatal
\* (startKeepAlive of the Go SDK).
THEOREM GoRenewsInTime == HandleSpec => []RenewedInTime
PROOF
<1>1. HandleInv => RenewedInTime
  BY DEF HandleInv, Ahead, AsksInTime, RenewedInTime, Renewing
<1>2. QED
  BY <1>1, HandleInvariance, PTL

\* After Close the loop is stopped, or its timer had fired (keepAliveStop).
Stopped == handle = "closed" => ~loop \/ (call = NoCall /\ next = 0)

\* Whatever the order of Close, the ticker and the answers, at most one more
\* renewal extends the sandbox after Close.
THEOREM CloseStopsRenewals == HandleSpec => CloseEndsRenewals
PROOF
<1>1. HandleInit => Stopped
  BY Zenon DEF HandleInit, Stopped
<1>2. HandleInv /\ Stopped /\ [HandleNext]_handleVars => Stopped'
  <2>1. SUFFICES ASSUME HandleInv, Stopped, HandleNext \/ UNCHANGED handleVars PROVE Stopped'
    OBVIOUS
  <2>2. CASE StartCreate \/ Created \/ ClientCrashes
    BY <2>2 DEF StartCreate, Created, ClientCrashes, Stopped
  <2>3. CASE Close
    BY <2>3, Zenon DEF Close, Stopped, NoCall
  <2>4. CASE Renew
    BY <2>4, Zenon DEF Renew, Stopped
  <2>5. CASE Renewed \/ Miss
    BY <2>1, <2>5, Zenon DEF Renewed, Miss, LoopAfterMiss, Stopped
  <2>6. CASE HandleTick
    BY <2>1, <2>6 DEF HandleTick, OnTime, Stopped, HandleInv, HandleTypeOK
  <2>7. CASE UNCHANGED <<handle, loop, call, next>>
    BY <2>1, <2>7 DEF Stopped, NoCall
  <2>8. QED
    BY <2>1, <2>2, <2>3, <2>4, <2>5, <2>6, <2>7 DEF HandleNext, BindSandbox, FailSandbox, Lapse,
         ExpireStatus, WaitReady, CloseAgain, handleVars, loopVars
<1>3. HandleInv /\ Stopped /\ [HandleNext]_handleVars =>
        [handle = "closed" /\ life = "running" /\ deadline' > deadline => ~loop']_handleVars
  <2>1. SUFFICES ASSUME HandleInv, Stopped, HandleNext, handle = "closed", life = "running",
                        deadline' > deadline
                 PROVE  ~loop'
    OBVIOUS
  <2>2. deadline \in Nat
    BY <2>1 DEF HandleInv, HandleTypeOK
  <2>3. deadline' # deadline
    BY <2>1, <2>2, SMTT(30)
  <2>4. Renewed \/ Miss \/ HandleTick
    BY <2>1, <2>3, Zenon DEF HandleNext, BindSandbox, FailSandbox, Lapse, ExpireStatus, StartCreate,
         Created, WaitReady, Renew, Close, CloseAgain, ClientCrashes
  <2>5. CASE HandleTick
    BY <2>1, <2>2, <2>5 DEF HandleTick, Less
  <2>6. CASE Renewed \/ Miss
    BY <2>1, <2>6, Zenon DEF Renewed, Miss, LoopAfterMiss, Stopped
  <2>7. QED
    BY <2>4, <2>5, <2>6
<1>4. QED
  BY <1>1, <1>2, <1>3, HandleInvariance, PTL DEF HandleSpec, CloseEndsRenewals

-----------------------------------------------------------------------------
(* The two together.                                                       *)

\* Every behaviour of the data plane with its clients is one of the gateway
\* and one of the handle, so that what is proved of each holds of both.
THEOREM DataPlaneComposes == Spec => GatewaySpec /\ HandleSpec
PROOF
<1>1. Init => GatewayInit /\ HandleInit
  BY DEF Init
<1>2. [Next]_vars => [GatewayNext]_gatewayVars /\ [HandleNext]_handleVars
  BY DEF Next, vars
<1>3. QED
  BY <1>1, <1>2, PTL DEF Spec, GatewaySpec, HandleSpec
=============================================================================
