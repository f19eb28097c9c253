-------------------------- MODULE TemplateController --------------------------
(***************************************************************************)
(* TemplateReconciler of pkg/controller/template_controller.go, for one    *)
(* SandboxTemplate, with the registry it resolves tags at, the claims of   *)
(* the template's volumes, and the Pods the pool and the Sandbox           *)
(* controllers build from the template as their cache has it.              *)
(*                                                                         *)
(* An image reference is its parts: the host, the repository, the tag, and *)
(* the digest it carries, if any.  A Pod specification is kept down to what  *)
(* buildPodSpec decides from the template.                                 *)
(***************************************************************************)
EXTENDS Integers, Sequences, FiniteSets

CONSTANTS
  Refs,              \* values of spec.image.ref
  Digests,           \* builds
  Histories,         \* sets of specs a tenant writes for one template
  AllowedRegistries, \* hosts, or {} for no allowlist
  Tags,              \* what the registry may have at first under each ref
  Private,           \* refs that only the pull secret can see
  Oversized,         \* builds above MaxImageBytes
  MaxEdits,          \* bound: edits of the template, its deletion included
  MaxPushes,         \* bound: tags moved and claims changed
  MaxPods,           \* bound: Pods built
  MaxLag,            \* bound: template events under way to the cache
  MaxFaults,         \* bound: failed calls
  None

Specs == UNION Histories

ASSUME RefAssumption ==
  /\ None \notin Digests \cup Refs
  /\ Refs \subseteq [host: STRING, repo: STRING, tag: STRING, digest: Digests \cup {None}]
  /\ \A r \in Refs : r.tag # "" \/ r.digest # None
  /\ Tags \subseteq [Refs -> Digests \cup {None}]
ASSUME SpecAssumption ==
  Specs \subseteq [ref: Refs, resolve: BOOLEAN, secret: BOOLEAN, filesystem: STRING,
                  minTier: STRING, userns: BOOLEAN, workspace: STRING, volume: BOOLEAN,
                  reviewed: BOOLEAN]
ASSUME TemplateBounds == {MaxEdits, MaxPushes, MaxPods, MaxLag, MaxFaults} \subseteq Nat

VARIABLES
  template,   \* the SandboxTemplate
  cache,      \* the controllers' informer cache
  watch,      \* versions under way to it
  queued,     \* the template's key is in the work queue
  later,      \* it is to be added to the queue after a while
  pass,       \* the Reconcile in flight
  resolver,   \* whether the installation has an ImageResolver
  registry,   \* per ref: the build its tag points at
  denoted,    \* every build a ref has ever stood for
  claim,      \* the PersistentVolumeClaim of the template's volumes
  pods,       \* the Pods built from the template
  edits, pushes, faults

objectVars == <<template, cache, watch>>
queueVars == <<queued, later>>
worldVars == <<resolver, registry, denoted, claim, pods, edits, pushes>>
vars == <<objectVars, queueVars, pass, worldVars, faults>>

Admissions == {"none", "Pending", "PendingReview", "Approved", "Rejected"}
Reasons == {"", "static", "no_resolver", "not_found", "resolving", "size", "review",
            "no_claim", "exclusive_claim"}

digestOf(ref) == ref.digest

\* A reference without a host is Docker Hub's.
registryOf(ref) == IF ref.host = "" THEN "docker.io" ELSE ref.host

\* A reference rewritten to a digest of its repository; one that carries a
\* digest is left as it is.
pinned(ref, digest) ==
  IF digestOf(ref) # None THEN ref ELSE [ref EXCEPT !.tag = "", !.digest = digest]

\* The reference a Pod runs.
ImageRef(spec, digest) == IF digest # None THEN pinned(spec.ref, digest) ELSE spec.ref

\* The tier a template asks for.
RequiredIsolation(spec) ==
  IF spec.filesystem = "bwrap" THEN "filesystem"
  ELSE IF spec.minTier = "" THEN "userns" ELSE spec.minTier

\* The Pod specification: a Pod for the userns tier gives up seccomp and the
\* mask of /proc and gets a user namespace for it.
buildPodSpec(spec, digest) ==
  LET filesystemMode == spec.filesystem = "bwrap"
      wantsUserns == ~filesystemMode /\ RequiredIsolation(spec) = "userns"
  IN [image |-> ImageRef(spec, digest),
      seccomp |-> CASE filesystemMode -> "Localhost"
                    [] wantsUserns -> "Unconfined"
                    [] OTHER -> "RuntimeDefault",
      hostUsers |-> ~wantsUserns /\ ~(filesystemMode /\ spec.userns),
      procMount |-> IF wantsUserns THEN "Unmasked" ELSE "Default",
      volume |-> spec.volume]

\* Mutant: the hash is taken of the template as it is written.
HashAsWritten(spec, digest) == buildPodSpec(spec, None)

\* The fingerprint of a template is that of the Pod it makes, without the
\* token.
TemplateHash(spec, digest) == buildPodSpec(spec, digest)

registryAllowed(host) == AllowedRegistries = {} \/ host \in AllowedRegistries

\* The checks that need only the spec.
staticAdmit(spec) ==
  /\ IF spec.filesystem # "" THEN spec.filesystem = "bwrap" /\ spec.minTier = ""
                              ELSE ~spec.userns /\ spec.minTier # "filesystem"
  /\ registryAllowed(registryOf(spec.ref))
  /\ spec.workspace # "platform"

Hosts == {r.host : r \in Refs}
Repos == {r.repo : r \in Refs}
Images ==
  Refs \cup [host: Hosts, repo: Repos, tag: {""}, digest: Digests]
PodSpecs ==
  [image: Images, seccomp: {"Localhost", "Unconfined", "RuntimeDefault"},
   hostUsers: BOOLEAN, procMount: {"Unmasked", "Default"}, volume: BOOLEAN]
Hashes == PodSpecs \cup {None}
Statuses ==
  [hash: Hashes, admission: Admissions, reason: Reasons,
   digest: Digests \cup {None}, ref: Refs \cup {None},
   bytes: {"unknown", "fits", "over"}, volumes: BOOLEAN]
Templates == [rv: Nat, live: BOOLEAN, spec: Specs, status: Statuses]

NoStatus ==
  [hash |-> None, admission |-> "none", reason |-> "", digest |-> None, ref |-> None,
   bytes |-> "unknown", volumes |-> FALSE]

Idle == [at |-> "idle"]
Passes ==
  [at: {"resolve", "claim"}, tpl: Templates]
    \cup [at: {"publish"}, tpl: Templates, state: Admissions, reason: Reasons,
          requeue: BOOLEAN]

TypeOK ==
  /\ template \in Templates /\ cache \in Templates /\ watch \in Seq(Templates)
  /\ queued \in BOOLEAN /\ later \in BOOLEAN
  /\ pass \in Passes \cup {Idle}
  /\ resolver \in BOOLEAN
  /\ registry \in [Refs -> Digests \cup {None}]
  /\ denoted \subseteq Refs \X Digests
  /\ claim \in {"absent", "exclusive", "shared"}
  /\ pods \subseteq [hash: PodSpecs, spec: PodSpecs, ref: Refs, build: Digests \cup {None}]
  /\ edits \in 0..MaxEdits /\ pushes \in 0..MaxPushes /\ faults \in 0..MaxFaults

Init ==
  /\ \E spec \in Specs :
       template = [rv |-> 1, live |-> TRUE, spec |-> spec, status |-> NoStatus]
  /\ cache = template /\ watch = <<>>
  /\ queued = TRUE /\ later = FALSE
  /\ pass = Idle
  /\ resolver \in BOOLEAN
  /\ registry \in Tags
  /\ denoted = {rd \in Refs \X Digests :
                  rd[2] = (IF digestOf(rd[1]) # None THEN digestOf(rd[1]) ELSE registry[rd[1]])}
  /\ claim = "absent"
  /\ pods = {}
  /\ edits = 0 /\ pushes = 0 /\ faults = 0

Fault == faults < MaxFaults /\ faults' = faults + 1

Write(t) ==
  /\ Len(watch) < MaxLag
  /\ template' = [t EXCEPT !.rv = template.rv + 1]
  /\ watch' = Append(watch, template')
  /\ UNCHANGED cache

-----------------------------------------------------------------------------
(* Reconcile, cut at its calls.                                            *)

\* On to publish, with a verdict.
Verdict(tpl, state, reason, requeue) ==
  pass' = [at |-> "publish", tpl |-> tpl, state |-> state, reason |-> reason,
           requeue |-> requeue]

\* The checks that need the image to have been resolved.
resolvedAdmit(tpl) ==
  CASE tpl.status.bytes = "over" -> <<"Rejected", "size">>
    [] tpl.status.bytes # "over" /\ tpl.spec.volume /\ ~tpl.spec.reviewed ->
         <<"PendingReview", "review">>
    [] OTHER -> <<"Approved", "">>

\* Reconcile after resolveImage.  A status that says Rejected is taken for
\* resolveImage's word, whoever wrote it.
Resolved(tpl) ==
  LET admit == resolvedAdmit(tpl) IN
  IF tpl.status.admission = "Rejected"
  THEN Verdict(tpl, "Rejected", tpl.status.reason, FALSE)
  ELSE IF admit[1] = "Approved" /\ tpl.spec.volume
       THEN pass' = [at |-> "claim", tpl |-> tpl]
       ELSE Verdict(tpl, admit[1], admit[2], FALSE)

\* Mutant: a tag is resolved again at every pass.
NeverResolved(tpl) == FALSE

\* The way resolveImage needs no registry for a tag.
AlreadyResolved(tpl) == tpl.status.digest # None /\ tpl.status.ref = tpl.spec.ref

\* resolveImage up to the registry.
resolveImage(tpl) ==
  LET ref == tpl.spec.ref IN
  CASE digestOf(ref) # None ->
         Resolved([tpl EXCEPT !.status.digest = digestOf(ref), !.status.ref = ref])
    [] digestOf(ref) = None /\ ~tpl.spec.resolve ->
         Resolved([tpl EXCEPT !.status.digest = None, !.status.ref = None,
                              !.status.bytes = "unknown"])
    [] digestOf(ref) = None /\ tpl.spec.resolve /\ AlreadyResolved(tpl) -> Resolved(tpl)
    [] OTHER ->
         IF resolver THEN pass' = [at |-> "resolve", tpl |-> tpl]
         ELSE Resolved([tpl EXCEPT !.status.admission = "Rejected",
                                   !.status.reason = "no_resolver"])

Start ==
  /\ pass = Idle /\ queued
  /\ queued' = FALSE
  /\ IF ~cache.live THEN UNCHANGED pass
     ELSE IF staticAdmit(cache.spec) THEN resolveImage(cache)
          ELSE Verdict(cache, "Rejected", "static", FALSE)
  /\ UNCHANGED <<objectVars, later, worldVars, faults>>

\* Whether a registry request sees a ref; a secret that cannot be read leaves
\* an anonymous request.
Sees(spec, secretRead) == spec.ref \notin Private \/ (spec.secret /\ secretRead)

\* The size of the layers, where they can be read.
Sizes(d) == {"unknown", IF d \in Oversized THEN "over" ELSE "fits"}

\* What the registry answers for a ref.  What the request cannot see is taken
\* for absent.
NotFound == [digest |-> None, bytes |-> "unknown"]
Answers(spec, secretRead) ==
  LET d == registry[spec.ref] IN
  IF d # None /\ Sees(spec, secretRead) THEN [digest: {d}, bytes: Sizes(d)] ELSE {NotFound}

\* The rest of resolveImage, once the registry has answered or failed.
Resolve ==
  LET tpl == pass.tpl IN
  /\ pass.at = "resolve"
  /\ \/ /\ Fault
        /\ Verdict([tpl EXCEPT !.status.reason = "resolving"], "Pending", "resolving", TRUE)
     \/ \E secretRead \in BOOLEAN :
        /\ IF secretRead THEN UNCHANGED faults ELSE tpl.spec.secret /\ Fault
        /\ \E answer \in Answers(tpl.spec, secretRead) :
             IF answer = NotFound
             THEN Resolved([tpl EXCEPT !.status.admission = "Rejected",
                                       !.status.reason = "not_found"])
             ELSE Resolved([tpl EXCEPT !.status.digest = answer.digest,
                                       !.status.ref = tpl.spec.ref,
                                       !.status.bytes = answer.bytes,
                                       !.status.reason = ""])
  /\ UNCHANGED <<objectVars, queueVars, worldVars>>

\* admitVolumes.
ReadClaim ==
  /\ pass.at = "claim"
  /\ \/ Fault /\ Verdict(pass.tpl, "Pending", "no_claim", TRUE)
     \/ /\ UNCHANGED faults
        /\ CASE claim = "absent" -> Verdict(pass.tpl, "Pending", "no_claim", TRUE)
             [] claim = "exclusive" -> Verdict(pass.tpl, "Rejected", "exclusive_claim", FALSE)
             [] claim = "shared" -> Verdict(pass.tpl, "Approved", "", FALSE)
  /\ UNCHANGED <<objectVars, queueVars, worldVars>>

\* The status publish writes, and whether it finds it worth writing: it
\* compares with the status resolveImage has been changing.
Published ==
  [pass.tpl.status EXCEPT
     !.hash = TemplateHash(pass.tpl.spec, pass.tpl.status.digest),
     !.admission = pass.state, !.reason = pass.reason, !.volumes = pass.tpl.spec.volume]

\* Mutant: the status is patched without a resourceVersion.
PublishBlind ==
  /\ pass.at = "publish"
  /\ IF Published = pass.tpl.status
     THEN UNCHANGED objectVars
     ELSE template.live /\ Write([template EXCEPT !.status = Published])
  /\ pass' = Idle /\ later' = (later \/ pass.requeue)
  /\ UNCHANGED <<queued, worldVars, faults>>

\* Mutant: a failed update is not tried again.
PublishOnce ==
  /\ pass.at = "publish"
  /\ \/ /\ Published # pass.tpl.status /\ template.live /\ pass.tpl.rv = template.rv
        /\ Write([template EXCEPT !.status = Published]) /\ UNCHANGED faults
     \/ /\ Published = pass.tpl.status \/ pass.tpl.rv # template.rv
        /\ UNCHANGED <<objectVars, faults>>
     \/ Fault /\ UNCHANGED objectVars
  /\ pass' = Idle
  /\ UNCHANGED <<queueVars, worldVars>>

\* publish and the end of the pass.  A conflict is let go, any other error
\* brings the key back to the queue.
Publish ==
  /\ pass.at = "publish"
  /\ \/ /\ Published = pass.tpl.status
        /\ later' = (later \/ pass.requeue) /\ UNCHANGED <<objectVars, faults>>
     \/ /\ Published # pass.tpl.status /\ template.live /\ pass.tpl.rv = template.rv
        /\ Write([template EXCEPT !.status = Published])
        /\ later' = (later \/ pass.requeue) /\ UNCHANGED faults
     \/ /\ Published # pass.tpl.status /\ template.live /\ pass.tpl.rv # template.rv
        /\ later' = (later \/ pass.requeue) /\ UNCHANGED <<objectVars, faults>>
     \/ /\ Published # pass.tpl.status
        /\ (~template.live /\ UNCHANGED faults) \/ Fault
        /\ later' = TRUE /\ UNCHANGED objectVars
  /\ pass' = Idle
  /\ UNCHANGED <<queued, worldVars>>

\* An event of the template reaches the cache and queues its key.
Deliver ==
  /\ watch # <<>>
  /\ cache' = Head(watch) /\ watch' = Tail(watch)
  /\ queued' = TRUE
  /\ UNCHANGED <<template, later, pass, worldVars, faults>>

\* A RequeueAfter, or the back-off of an error, has passed.
Requeue ==
  /\ later /\ later' = FALSE /\ queued' = TRUE
  /\ UNCHANGED <<objectVars, pass, worldVars, faults>>

-----------------------------------------------------------------------------
(* The tenant, the registry, the claims, and the Pods.                     *)

Edit ==
  /\ edits < MaxEdits /\ edits' = edits + 1
  /\ template.live
  /\ \/ \E history \in Histories :
          /\ template.spec \in history
          /\ \E spec \in history \ {template.spec} : Write([template EXCEPT !.spec = spec])
     \/ Write([template EXCEPT !.live = FALSE])
  /\ UNCHANGED <<queueVars, resolver, pass, registry, denoted, claim, pods, pushes, faults>>

Push ==
  /\ pushes < MaxPushes /\ pushes' = pushes + 1
  /\ \E ref \in Refs, d \in Digests :
       /\ digestOf(ref) = None /\ registry[ref] \notin {None, d}
       /\ registry' = [registry EXCEPT ![ref] = d]
       /\ denoted' = denoted \cup {<<ref, d>>}
  /\ UNCHANGED <<objectVars, queueVars, resolver, pass, claim, pods, edits, faults>>

\* A claim is made, deleted, or made again with other access modes.
ChangeClaim ==
  /\ pushes < MaxPushes /\ pushes' = pushes + 1
  /\ template.spec.volume
  /\ \E c \in {"absent", "exclusive", "shared"} : c # claim /\ claim' = c
  /\ UNCHANGED <<objectVars, queueVars, resolver, pass, registry, denoted, pods, edits, faults>>

\* The Pod BuildPod makes of a template.
BuildPod(tpl) ==
  [hash |-> TemplateHash(tpl.spec, tpl.status.digest),
   spec |-> buildPodSpec(tpl.spec, tpl.status.digest),
   ref |-> tpl.spec.ref, build |-> None]

\* The pool builds from approved templates; a cold start from any that is not
\* rejected.
Supply ==
  /\ Cardinality(pods) < MaxPods
  /\ cache.live /\ cache.status.admission # "Rejected"
  /\ pods' = pods \cup {BuildPod(cache)}
  /\ UNCHANGED <<objectVars, queueVars, resolver, pass, registry, denoted, claim, edits, pushes, faults>>

\* The build a kubelet gets for an image: none when the repository has no
\* such digest.
Pulls(image) ==
  IF digestOf(image) = None THEN registry[image]
  ELSE IF \E rd \in denoted : /\ rd[1].host = image.host /\ rd[1].repo = image.repo
                              /\ rd[2] = digestOf(image)
       THEN digestOf(image) ELSE None

\* A pull that fails is tried again.
Pull(p) ==
  /\ p.build = None /\ Pulls(p.spec.image) # None
  /\ pods' = (pods \ {p}) \cup {[p EXCEPT !.build = Pulls(p.spec.image)]}
  /\ UNCHANGED <<objectVars, queueVars, resolver, pass, registry, denoted, claim, edits, pushes, faults>>

Reconcile == Start \/ Resolve \/ ReadClaim \/ Publish

Next ==
  \/ Reconcile \/ Deliver \/ Requeue \/ Edit \/ Push \/ ChangeClaim \/ Supply
  \/ \E p \in pods : Pull(p)

Spec == Init /\ [][Next]_vars

\* The controller runs, the watch delivers and timers fire; nothing makes a
\* tenant edit or a tag move.
FairSpec == Spec /\ WF_vars(Reconcile) /\ WF_vars(Deliver) /\ WF_vars(Requeue)

-----------------------------------------------------------------------------
(* Properties.                                                             *)

\* A digest recorded for a ref stays as long as the ref does, wherever its
\* tag is moved, and however stale the copy of the template a pass works from
\* (resolveImage: "once"; publish under a resourceVersion).
PinHolds ==
  [][template.status.ref # None /\ template'.status.ref = template.status.ref
       => template'.status.digest = template.status.digest]_vars

\* A template is approved for the spec it has, not the one a pass began with:
\* it is valid, reviewed where it has volumes, and resolved to a build its
\* ref has stood for, although the registry and the claims are asked in
\* between (Reconcile, publish).
ApprovedAsItIs ==
  [][LET now == template'.status IN
     now # template.status /\ now.admission = "Approved" =>
       /\ template.live /\ staticAdmit(template'.spec)
       /\ template'.spec.volume => template'.spec.reviewed
       /\ \/ ~template'.spec.resolve /\ now.digest = None
          \/ now.ref = template'.spec.ref /\ <<now.ref, now.digest>> \in denoted
       /\ now.hash = TemplateHash(template'.spec, now.digest)]_vars

\* Pods that count as current for a resolved template all run one build, the
\* one recorded, wherever the tag went while they were built and pulled
\* (TemplateHash, ImageRef).
OneBuild ==
  \A p \in pods :
    /\ template.status.admission = "Approved" /\ template.status.digest # None
    /\ p.hash = template.status.hash /\ p.build # None
    => p.build = template.status.digest

Admissible ==
  /\ template.live /\ staticAdmit(template.spec)
  /\ template.spec.volume => template.spec.reviewed /\ claim = "shared"
  /\ \/ digestOf(template.spec.ref) # None \/ ~template.spec.resolve
     \/ /\ resolver /\ template.spec.ref \notin Private /\ ~template.spec.secret
        /\ registry[template.spec.ref] \notin Oversized \cup {None}

Current ==
  /\ template.status.hash = TemplateHash(template.spec, template.status.digest)
  /\ template.status.digest # None => <<template.spec.ref, template.status.digest>> \in denoted

\* A template that is in order for good, and needs no pull secret, is approved
\* in the end, with the hash of the spec it has, unless it was rejected once:
\* registry outages, claims that come late, lost conflicts and failed updates
\* only delay it (Reconcile's requeues, publish).
Admitted ==
  <>[]Admissible =>
    <>[](\/ template.status.admission = "Rejected"
         \/ template.status.admission = "Approved" /\ Current)

-----------------------------------------------------------------------------
(* What comments of the code say and the code does not do.                 *)

\* Reconcile, of the templates it publishes as rejected after resolveImage:
\* "resolveImage settled it: the image genuinely does not exist".
RejectedForCause ==
  [][pass'.at = "publish" /\ pass.at # "publish" /\ pass'.state = "Rejected" =>
       LET spec == pass'.tpl.spec IN
       \/ ~staticAdmit(spec) \/ ~resolver \/ pass'.reason \in {"size", "exclusive_claim"}
       \/ digestOf(spec.ref) = None /\ (registry[spec.ref] = None \/ ~Sees(spec, TRUE))]_vars

\* resolveImage: it "sets Admission to Rejected on the status when the image
\* is genuinely absent".
AbsentIsRejected ==
  <>[](/\ resolver /\ template.live /\ staticAdmit(template.spec) /\ template.spec.resolve
       /\ digestOf(template.spec.ref) = None /\ registry[template.spec.ref] = None)
    => <>[](template.status.admission = "Rejected")

\* SandboxTemplateStatus: "ResolvedDigest is what spec.image.ref meant at the
\* moment it was resolved", and "everything downstream" uses it: the digest a
\* Pod runs is one its template's ref has stood for.
PodsRunTheirRef ==
  \A p \in pods : digestOf(p.spec.image) # None => <<p.ref, digestOf(p.spec.image)>> \in denoted
=============================================================================
