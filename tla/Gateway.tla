-------------------------------- MODULE Gateway --------------------------------
(***************************************************************************)
(* The data plane of jdix-server: pkg/gateway, with the key cache of       *)
(* pkg/apiserver/auth.go in front of it and, behind it, the Pods.          *)
(*                                                                         *)
(* A request is authenticated, routed and sent to an address.  Three       *)
(* copies of the truth may be old by then: the cached API key, the         *)
(* informer's sandbox and the resolver's copy of that.  Addresses are      *)
(* reused.  A sandbox's name is the sequence of its hyphenated segments,   *)
(* its token is its own, and a Pod stands for the one sandbox it serves.   *)
(* A time is kept as its age, up to the age at which it stops to matter.   *)
(***************************************************************************)
EXTENDS Integers, Sequences, FiniteSets

CONSTANTS
  Requests,
  Asks,         \* what a request may be: [key, presents, listed, url]
  Keys,
  TenantOf,     \* the tenant of each key
  Scoped,       \* the keys that carry sandbox:read
  Ids,          \* the names sandboxes are given
  OwnerOf,      \* the tenant label of each
  IPs,
  Ports,        \* the segments that read as a port
  RouteMode,    \* --route-mode
  Transport,    \* --sandbox-transport
  KeyTTL,       \* cacheTTL
  ResolveTTL,   \* CachedResolver.TTL
  MaxLookup,    \* bound: how long the two queries of a lookup take
  Mortal,       \* the sandboxes with a TTL
  MaxLosses,    \* bound: Pods that go under a running sandbox
  Scenes,       \* what is asked, the keys that change, the sandboxes there are
  None

ASSUME GatewayModes ==
  /\ RouteMode \in {"path", "host", "both"}
  /\ Transport \in {"direct", "apiserver-proxy"}
ASSUME GatewayBounds ==
  /\ KeyTTL \in Nat \ {0} /\ ResolveTTL \in Nat \ {0}
  /\ MaxLookup \in Nat /\ MaxLosses \in Nat
ASSUME GatewayNames ==
  /\ Ids \subseteq Seq(STRING) \ {<<>>}
  /\ Ports \subseteq STRING /\ \A ask \in Asks : ask.key \in Keys
  /\ None \notin Ports /\ None # [ip |-> None, token |-> FALSE]
  /\ TenantOf \in [Keys -> STRING] /\ OwnerOf \in [Ids -> STRING]
  /\ Scoped \subseteq Keys /\ Mortal \subseteq Ids
  /\ Scenes \in [DOMAIN Scenes -> [asks: SUBSET Asks, keys: SUBSET Keys, ids: SUBSET Ids]]

VARIABLES
  scene,      \* the one of Scenes this is about
  revoked,    \* per key: how long RevokedAt is set in the store, or None
  expired,    \* the keys whose ExpiresAt is over
  keyCache,   \* Authenticator.cache: the row as read, and the age of cachedAt
  sandbox,    \* per name: the Sandbox in the cluster
  over,       \* the sandboxes whose status.ExpiresAt is over
  informer,   \* the sandboxes as the server's cache shows them
  seen,       \* how long the informer has shown an address, or None
  resolved,   \* CachedResolver.cache: the target, and the age of at
  pods,       \* per address: the sandbox whose Pod has it
  losses,
  req         \* per request: where its handler is

keyVars == <<scene, revoked, expired, keyCache>>
clusterVars == <<sandbox, over, informer, seen, pods, losses>>
gatewayVars == <<keyVars, clusterVars, resolved, req>>

Objects == [ip: IPs \cup {None}, token: BOOLEAN]
Pending == [ip |-> None, token |-> FALSE]
Idle == [at |-> "idle"]

\* How old a revocation grows here.
RevokedLimit == KeyTTL + MaxLookup

Answers == {"unauthorized", "revoked", "expired_key", "ip_not_allowed", "forbidden", "unknown",
            "gone", "redirect", "exposed", "invalid_port", "unreachable", "refused", "served"}

\* Where a handler is, with what it holds there.
Handlings ==
  {Idle}
    \cup [at: {"tenant"}, ask: Asks, age: 0..MaxLookup, row: BOOLEAN]
    \cup [at: {"route"}, ask: Asks]
    \cup [at: {"dial"}, ask: Asks, rt: [id: Ids, port: Ports \cup {None}],
          target: [ip: IPs, token: BOOLEAN]]
    \cup [at: {"done"}, answer: Answers \ {"served"}]
    \cup [at: {"done"}, answer: {"served"}, ask: Asks,
          rt: [id: Ids, port: Ports \cup {None}], by: Ids]

GatewayTypeOK ==
  /\ scene \in DOMAIN Scenes
  /\ revoked \in [Keys -> 0..RevokedLimit \cup {None}] /\ expired \subseteq Keys
  /\ keyCache \in [Keys -> [revoked: BOOLEAN, age: 0..KeyTTL] \cup {None}]
  /\ sandbox \in [Ids -> Objects \cup {None}] /\ informer \in [Ids -> Objects \cup {None}]
  /\ resolved \in [Ids -> [target: Objects \cup {None}, age: 0..ResolveTTL] \cup {None}]
  /\ seen \in [Ids -> 0..ResolveTTL \cup {None}] /\ over \subseteq Mortal
  /\ pods \in [IPs -> Ids \cup {None}]
  /\ losses \in 0..MaxLosses
  /\ req \in [Requests -> Handlings]

GatewayInit ==
  /\ scene \in DOMAIN Scenes
  /\ revoked = [k \in Keys |-> None] /\ expired = {} /\ keyCache = [k \in Keys |-> None]
  /\ sandbox = [s \in Ids |-> IF s \in Scenes[scene].ids THEN Pending ELSE None] /\ informer = [s \in Ids |-> None]
  /\ over = {} /\ seen = [s \in Ids |-> None] /\ resolved = [s \in Ids |-> None]
  /\ pods = [i \in IPs |-> None] /\ losses = 0
  /\ req = [r \in Requests |-> Idle]

Become(r, state) == req' = [req EXCEPT ![r] = state]

Answer(r, a) == Become(r, [at |-> "done", answer |-> a])

-----------------------------------------------------------------------------
(* Authentication: Verify and lookup, and authenticate of the gateway.     *)

\* Mutant: an entry never grows old.
KeptForEver(k) == keyCache[k] # None

CachedKey(k) == keyCache[k] # None /\ keyCache[k].age < KeyTTL

ParseKey(ask) == ask.presents # "malformed"
VerifySecret(ask) == ask.presents # "wrong"
ipAllowed(ask) == ask.listed
Allows(ask) == ask.key \in Scoped

\* The key's row in the store: whether RevokedAt is set.
APIKey(k) == revoked[k] # None

Valid(ask, rowRevoked) ==
  IF rowRevoked THEN "revoked" ELSE IF ask.key \in expired THEN "expired_key" ELSE "valid"

\* What Verify and authenticate make of a row: a refusal, or "verified".
Verdict(ask, rowRevoked) ==
  CASE ~VerifySecret(ask) -> "unauthorized"
    [] VerifySecret(ask) /\ Valid(ask, rowRevoked) # "valid" -> Valid(ask, rowRevoked)
    [] OTHER -> IF ~ipAllowed(ask) THEN "ip_not_allowed"
                ELSE IF ~Allows(ask) THEN "forbidden" ELSE "verified"

Verify(r, ask, rowRevoked) ==
  LET v == Verdict(ask, rowRevoked)
  IN IF v = "verified"
     THEN Become(r, [at |-> "route", ask |-> ask])
     ELSE Answer(r, v)

\* A request arrives; its key is malformed, cached, or read from the store.
Arrive(r, ask) ==
  /\ req[r] = Idle
  /\ CASE ~ParseKey(ask) -> Answer(r, "unauthorized")
       [] ParseKey(ask) /\ CachedKey(ask.key) -> Verify(r, ask, keyCache[ask.key].revoked)
       [] OTHER -> Become(r, [at |-> "tenant", ask |-> ask, age |-> 0,
                              row |-> APIKey(ask.key)])
  /\ UNCHANGED <<keyVars, clusterVars, resolved>>

\* The entry is stamped when the second query is back.
CacheKey(k, rowRevoked) ==
  keyCache' = [keyCache EXCEPT ![k] = [revoked |-> rowRevoked, age |-> 0]]

\* The second query, and the rest of Verify.
ReadTenant(r) ==
  /\ req[r].at = "tenant"
  /\ CacheKey(req[r].ask.key, req[r].row)
  /\ Verify(r, req[r].ask, req[r].row)
  /\ UNCHANGED <<scene, revoked, expired, clusterVars, resolved>>

\* Either query fails.
LookupFails(r) ==
  /\ req[r].at = "tenant"
  /\ Answer(r, "unauthorized")
  /\ UNCHANGED <<keyVars, clusterVars, resolved>>

-----------------------------------------------------------------------------
(* The resolver and the routers.                                           *)

\* Mutant: what was not there is remembered for good.
EntryKeepsNothing(s) ==
  IF resolved[s] # None /\ (resolved[s].target = None \/ resolved[s].age < ResolveTTL)
  THEN resolved[s]
  ELSE [target |-> informer[s], age |-> 0]

\* Resolve: the cached entry while it is fresh, else the informer's answer,
\* which is cached whether or not there is a sandbox.
Entry(s) ==
  IF resolved[s] # None /\ resolved[s].age < ResolveTTL
  THEN resolved[s]
  ELSE [target |-> informer[s], age |-> 0]

Found(s) == s \in Ids /\ Entry(s).target # None /\ Entry(s).target.ip # None

\* A public URL: the label of the host or the id in the path, the port of a
\* path, and what follows.
Url(by, label, port, rest) == [by |-> by, label |-> label, port |-> port, rest |-> rest]

HostEndpointURL(s) == Url("host", s, None, "/")
HostPortURL(s, p) == Url("host", Append(s, p), None, "/")
PathEndpointURL(s) == Url("path", s, None, "/")
PathPortURL(s, p) == Url("path", s, p, "/")

Renders == IF RouteMode = "host" THEN "host" ELSE "path"
EndpointURL(s) == IF Renders = "host" THEN HostEndpointURL(s) ELSE PathEndpointURL(s)
PortURL(s, p) == IF Renders = "host" THEN HostPortURL(s, p) ELSE PathPortURL(s, p)

NoRoute == [id |-> <<>>, port |-> None]

\* A label cut at its last hyphen.
BeforeLast(label) == SubSeq(label, 1, Len(label) - 1)
AfterLast(label) == label[Len(label)]

PortReading(label) == Len(label) > 1 /\ AfterLast(label) \in Ports

\* Mutant: what reads as a port is one.
ParseHostUnchecked(label) ==
  IF PortReading(label)
  THEN [id |-> BeforeLast(label), port |-> AfterLast(label)]
  ELSE IF Found(label) THEN [id |-> label, port |-> None] ELSE NoRoute

\* ParseHost prefers the port reading when that sandbox exists.
ParseHost(label) ==
  IF PortReading(label) /\ Found(BeforeLast(label))
  THEN [id |-> BeforeLast(label), port |-> AfterLast(label)]
  ELSE IF Found(label) THEN [id |-> label, port |-> None] ELSE NoRoute

ParsePath(url) ==
  IF url.port \in Ports \cup {None} THEN [id |-> url.label, port |-> url.port] ELSE NoRoute

\* The names ParseHost asks the resolver about.
Readings(label) ==
  (IF PortReading(label) THEN {BeforeLast(label)} ELSE {})
    \cup (IF PortReading(label) /\ Found(BeforeLast(label)) THEN {} ELSE {label})

\* newRouter: a scheme the mode does not include routes nothing.
Route(url) ==
  IF RouteMode \notin {url.by, "both"} THEN NoRoute
  ELSE IF url.by = "host" THEN ParseHost(url.label) ELSE ParsePath(url)

Consulted(url) ==
  {Route(url).id} \cup (IF url.by = "host" /\ RouteMode # "path" THEN Readings(url.label) ELSE {})

\* Mutant: the owner of the sandbox is not compared with the caller.
AnyTenant(ask, rt) ==
  IF ~Found(rt.id) THEN "unknown"
  ELSE IF rt.id \in over THEN "gone"
  ELSE IF ask.url.by = "path" /\ ask.url.rest = "" THEN "redirect"
  ELSE IF ask.url.rest = "ports" /\ rt.port = None THEN "exposed"
  ELSE "forward"

\* What the gateway answers itself, or "forward".
Decision(ask, rt) ==
  IF ~Found(rt.id) THEN "unknown"
  ELSE IF TenantOf[ask.key] # OwnerOf[rt.id] THEN "forbidden"
  ELSE IF rt.id \in over THEN "gone"
  ELSE IF ask.url.by = "path" /\ ask.url.rest = "" THEN "redirect"
  ELSE IF ask.url.rest = "ports" /\ rt.port = None THEN "exposed"
  ELSE "forward"

\* The one answer of the data plane that is the gateway's own.
exposePort(r) == \E a \in {"exposed", "invalid_port"} : Answer(r, a)

\* route after authenticate.
RouteRequest(r) ==
  LET ask == req[r].ask
      rt == Route(ask.url)
      d == Decision(ask, rt)
  IN /\ req[r].at = "route"
     /\ resolved' = [s \in Ids |-> IF s \in Consulted(ask.url) THEN Entry(s) ELSE resolved[s]]
     /\ CASE d = "forward" -> Become(r, [at |-> "dial", ask |-> ask, rt |-> rt,
                                         target |-> Entry(rt.id).target])
          [] d = "exposed" -> exposePort(r)
          [] OTHER -> Answer(r, d)
     /\ UNCHANGED <<keyVars, clusterVars>>

-----------------------------------------------------------------------------
(* The transports, and execd at the other end.                             *)

\* The Pod a connection reaches: whichever has the address, or the one of
\* that name.
DirectTransport(target) == pods[target.ip]
APIProxyTransport(rt) == IF \E i \in IPs : pods[i] = rt.id THEN rt.id ELSE None
Reached(rt, target) ==
  IF Transport = "direct" THEN DirectTransport(target) ELSE APIProxyTransport(rt)

\* A user port is given no token.
presentToken(rt, target) == rt.port = None /\ target.token

\* requireSandbox wants the token of the sandbox the Pod serves; behind a user
\* port an application answers whoever asks.
Admits(rt, target, pod) == rt.port # None \/ (presentToken(rt, target) /\ rt.id = pod)

Dial(r) ==
  LET rt == req[r].rt
      pod == Reached(rt, req[r].target)
      a == IF pod = None THEN "unreachable"
           ELSE IF Admits(rt, req[r].target, pod) THEN "served" ELSE "refused"
  IN /\ req[r].at = "dial"
     /\ Become(r, IF a = "served"
                  THEN [at |-> "done", answer |-> a, ask |-> req[r].ask, rt |-> rt, by |-> pod]
                  ELSE [at |-> "done", answer |-> a])
     /\ UNCHANGED <<keyVars, clusterVars, resolved>>

-----------------------------------------------------------------------------
(* The cluster, the operator and the clock.                                *)

\* bind writes address, token and deadline in one status update.
Bind(s, ip) ==
  /\ sandbox[s] = Pending /\ pods[ip] = None
  /\ pods' = [pods EXCEPT ![ip] = s]
  /\ sandbox' = [sandbox EXCEPT ![s] = [ip |-> ip, token |-> TRUE]]
  /\ UNCHANGED <<keyVars, over, informer, seen, losses, resolved, req>>

Bound(s) == sandbox[s] # None /\ sandbox[s].token
Without(s) == [i \in IPs |-> IF pods[i] = s THEN None ELSE pods[i]]

DeadlinePasses(s) ==
  /\ s \in Mortal \ over /\ Bound(s)
  /\ over' = over \cup {s}
  /\ UNCHANGED <<keyVars, sandbox, informer, seen, pods, losses, resolved, req>>

\* expire clears the token and leaves the address.
Expire(s) ==
  /\ s \in over /\ Bound(s)
  /\ pods' = Without(s)
  /\ sandbox' = [sandbox EXCEPT ![s].token = FALSE]
  /\ UNCHANGED <<keyVars, over, informer, seen, losses, resolved, req>>

\* The finalizer lets the object go once its Pod is gone.
Delete(s) ==
  /\ sandbox[s] # None
  /\ pods' = Without(s)
  /\ sandbox' = [sandbox EXCEPT ![s] = None]
  /\ UNCHANGED <<keyVars, over, informer, seen, losses, resolved, req>>

\* A Pod goes and its sandbox stays Running, with the address it had.
LosePod(s) ==
  /\ losses < MaxLosses /\ losses' = losses + 1
  /\ \E i \in IPs : pods[i] = s
  /\ pods' = Without(s)
  /\ UNCHANGED <<keyVars, sandbox, over, informer, seen, resolved, req>>

\* The watch brings the informer up to date.
Observe(s) ==
  /\ informer[s] # sandbox[s]
  /\ informer' = [informer EXCEPT ![s] = sandbox[s]]
  /\ seen' = IF seen[s] = None /\ sandbox[s] # None /\ sandbox[s].ip # None
             THEN [seen EXCEPT ![s] = 0] ELSE seen
  /\ UNCHANGED <<keyVars, sandbox, over, pods, losses, resolved, req>>

Revoke(k) ==
  /\ revoked[k] = None
  /\ revoked' = [revoked EXCEPT ![k] = 0]
  /\ UNCHANGED <<scene, expired, keyCache, clusterVars, resolved, req>>

KeyExpires(k) ==
  /\ expired' = expired \cup {k}
  /\ UNCHANGED <<scene, revoked, keyCache, clusterVars, resolved, req>>

Older(age, limit) == IF age = limit THEN age ELSE age + 1

Tick ==
  /\ \A r \in Requests : req[r].at = "tenant" => req[r].age < MaxLookup
  /\ revoked' = [k \in Keys |-> IF revoked[k] = None THEN None
                                ELSE Older(revoked[k], RevokedLimit)]
  /\ keyCache' = [k \in Keys |-> IF keyCache[k] = None THEN None
                                 ELSE [keyCache[k] EXCEPT !.age = Older(@, KeyTTL)]]
  /\ seen' = [s \in Ids |-> IF seen[s] = None THEN None ELSE Older(seen[s], ResolveTTL)]
  /\ resolved' = [s \in Ids |-> IF resolved[s] = None THEN None
                                ELSE [resolved[s] EXCEPT !.age = Older(@, ResolveTTL)]]
  /\ req' = [r \in Requests |-> IF req[r].at = "tenant" THEN [req[r] EXCEPT !.age = @ + 1]
                                ELSE req[r]]
  /\ UNCHANGED <<scene, expired, sandbox, over, informer, pods, losses>>

GatewayStep(r) ==
  \/ \E ask \in Scenes[scene].asks : Arrive(r, ask)
  \/ ReadTenant(r) \/ LookupFails(r) \/ RouteRequest(r) \/ Dial(r)

ClusterStep ==
  \E s \in Ids : \/ DeadlinePasses(s) \/ Expire(s) \/ Delete(s) \/ LosePod(s) \/ Observe(s)
                 \/ \E ip \in IPs : Bind(s, ip)

GatewayNext ==
  \/ \E r \in Requests : GatewayStep(r)
  \/ \E k \in Scenes[scene].keys : Revoke(k) \/ KeyExpires(k)
  \/ ClusterStep \/ Tick

GatewaySpec == GatewayInit /\ [][GatewayNext]_gatewayVars

-----------------------------------------------------------------------------
(* Properties.                                                             *)

Served(r) == req[r].at = "done" /\ req[r].answer = "served"

\* A request to the data plane that is served is served by the sandbox whose
\* URL it used, and for a key of that sandbox's tenant, however old the
\* resolver's and the informer's copies are and whoever has the address by
\* then (route, presentToken, requireSandbox).
ServedByItsSandbox ==
  \A r \in Requests :
    Served(r) /\ req[r].rt.port = None =>
      /\ req[r].ask.url.label = req[r].by
      /\ TenantOf[req[r].ask.key] = OwnerOf[req[r].by]

\* A key stops being accepted once it was revoked KeyTTL and the duration of
\* one lookup ago, also when a lookup that began earlier stores its row last
\* (lookup).
RevokedKeysStop ==
  [][\A r \in Requests :
       req[r].at # "route" /\ req'[r].at = "route" =>
         LET t == revoked[req'[r].ask.key]
         IN t = None \/ t < RevokedLimit]_gatewayVars

Names(url, s) ==
  /\ RouteMode \in {url.by, "both"} /\ url.port \in Ports \cup {None}
  /\ url.label = s \/ (url.by = "host" /\ \E p \in Ports : url.label = Append(s, p))

\* A sandbox that exists is found once the informer has shown its address for
\* ResolveTTL: that it was asked for too early, and remembered as unknown or
\* without an address, does not last (Resolve).
FoundOnceSeen ==
  [][\A r \in Requests, s \in Ids :
       /\ req[r].at = "route" /\ req'[r].at = "done" /\ req'[r].answer = "unknown"
       /\ Names(req[r].ask.url, s) /\ informer[s] # None /\ seen[s] # None
       => seen[s] < ResolveTTL]_gatewayVars

\* "The two directions are inverses" (Router): whatever the resolver holds, a
\* URL of a sandbox it finds leads back to that sandbox and port.
RoutersInvert ==
  \A s \in Ids :
    Found(s) =>
      /\ Route(EndpointURL(s)) = [id |-> s, port |-> None]
      /\ RouteMode = "both" => Route(HostEndpointURL(s)) = [id |-> s, port |-> None]
      /\ \A p \in Ports :
           /\ Route(PortURL(s, p)) = [id |-> s, port |-> p]
           /\ RouteMode = "both" => Route(HostPortURL(s, p)) = [id |-> s, port |-> p]

-----------------------------------------------------------------------------
(* What comments of the code say and interleavings refute.                 *)

\* "cacheTTL bounds how long a revoked key keeps working."
RevokedWithinTTL ==
  [][\A r \in Requests :
       req[r].at # "route" /\ req'[r].at = "route" =>
         LET t == revoked[req'[r].ask.key] IN t = None \/ t < KeyTTL]_gatewayVars

\* CachedResolver is "keyed by sandbox id rather than by Pod IP because
\* Kubernetes reuses IPs promptly": no request is answered by another
\* sandbox's Pod, on a user port either.
PortsReachTheirSandbox ==
  \A r \in Requests : Served(r) => req[r].by = req[r].rt.id
=============================================================================
