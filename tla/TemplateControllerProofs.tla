----------------------- MODULE TemplateControllerProofs -----------------------
(***************************************************************************)
(* What is recorded for a template holds for every set of references,      *)
(* builds and specs, however stale the copy a pass works from.             *)
(***************************************************************************)
EXTENDS TemplateController, TLAPS

-----------------------------------------------------------------------------
\* The image a Pod runs is a reference, or a repository pinned to a build.
LEMMA ImageTyped ==
  ASSUME NEW spec \in Specs, NEW d \in Digests \cup {None}
  PROVE  ImageRef(spec, d) \in Images
PROOF
<1>1. spec.ref \in Refs
  BY SpecAssumption
<1>2. CASE d = None \/ digestOf(spec.ref) # None
  BY <1>1, <1>2, Zenon DEF ImageRef, pinned, Images
<1>3. CASE d # None /\ digestOf(spec.ref) = None
  <2>1. [spec.ref EXCEPT !.tag = "", !.digest = d]
          \in [host: Hosts, repo: Repos, tag: {""}, digest: Digests]
    BY <1>1, <1>3, RefAssumption, Zenon DEF Hosts, Repos
  <2>2. QED
    BY <1>3, <2>1, Zenon DEF ImageRef, pinned, Images
<1>4. QED
  BY <1>2, <1>3

\* The Pod a template makes, and so its hash, is a Pod specification.
LEMMA HashTyped ==
  ASSUME NEW spec \in Specs, NEW d \in Digests \cup {None}
  PROVE  buildPodSpec(spec, d) \in PodSpecs /\ TemplateHash(spec, d) \in PodSpecs
PROOF
<1>1. ImageRef(spec, d) \in Images /\ spec.volume \in BOOLEAN
  BY ImageTyped, SpecAssumption
<1>2. buildPodSpec(spec, d) \in PodSpecs
  BY <1>1 DEF buildPodSpec, PodSpecs
<1>3. QED
  BY <1>2 DEF TemplateHash

\* A change of a status leaves the rest of the template as it was.
LEMMA StatusTyped ==
  ASSUME NEW tpl \in Templates, NEW st \in Statuses
  PROVE  /\ [tpl EXCEPT !.status = st] \in Templates
         /\ [tpl EXCEPT !.status = st].status = st
         /\ [tpl EXCEPT !.status = st].rv = tpl.rv
         /\ [tpl EXCEPT !.status = st].live = tpl.live
         /\ [tpl EXCEPT !.status = st].spec = tpl.spec
PROOF
  BY DEF Templates

-----------------------------------------------------------------------------
(* The invariant.                                                          *)

\* A status that names a ref has a build for it that the ref has stood for.
Pinned(st) ==
  st.ref # None =>
    /\ st.digest # None /\ <<st.ref, st.digest>> \in denoted
    /\ digestOf(st.ref) # None => st.digest = digestOf(st.ref)

\* What approval needs of a template.
Approvable(tpl) ==
  /\ tpl.spec.volume => tpl.spec.reviewed
  /\ \/ ~tpl.spec.resolve /\ tpl.status.digest = None
     \/ tpl.status.ref = tpl.spec.ref /\ <<tpl.status.ref, tpl.status.digest>> \in denoted

\* What a pass has established of the copy it works from.
Sound(p) ==
  /\ Pinned(p.tpl.status)
  /\ p.at \in {"resolve", "claim"} \/ (p.at = "publish" /\ p.state = "Approved") =>
       staticAdmit(p.tpl.spec)
  /\ p.at = "resolve" => /\ digestOf(p.tpl.spec.ref) = None
                         /\ ~AlreadyResolved(p.tpl)
  /\ p.at = "claim" \/ (p.at = "publish" /\ p.state = "Approved") => Approvable(p.tpl)

\* How far the copy has come from the version it was taken from.
Tracks(p, t) ==
  /\ p.tpl.spec = t.spec
  /\ t.status.ref # None /\ p.tpl.status.ref = t.status.ref => p.tpl.status.digest = t.status.digest
  /\ p.at = "resolve" => p.tpl = t

\* A copy is an old version or the present one.
Copy(t) == t.rv <= template.rv /\ (t.rv = template.rv => t = template)

Copies == Copy(cache) /\ \A i \in DOMAIN watch : Copy(watch[i])

\* What a ref stands for now it is known to have stood for.
Denotes ==
  \A ref \in Refs :
    IF digestOf(ref) # None THEN <<ref, digestOf(ref)>> \in denoted
    ELSE registry[ref] # None => <<ref, registry[ref]>> \in denoted

Statements ==
  Pinned(template.status) /\ Pinned(cache.status) /\ \A i \in DOMAIN watch : Pinned(watch[i].status)

PassInv ==
  pass # Idle =>
    /\ Sound(pass) /\ pass.tpl.rv <= template.rv
    /\ pass.tpl.rv = template.rv => Tracks(pass, template)

\* An approval records the hash of Pods that run the build it records.
HashPinned(st) ==
  st.admission = "Approved" /\ st.digest # None => digestOf(st.hash.image) = st.digest

Builds ==
  /\ HashPinned(template.status)
  /\ \A p \in pods :
       /\ p.hash = p.spec
       /\ p.build # None /\ digestOf(p.spec.image) # None => p.build = digestOf(p.spec.image)

TemplateInv == TypeOK /\ Copies /\ Denotes /\ Statements /\ PassInv /\ Builds

-----------------------------------------------------------------------------
(* A pass.                                                                 *)

\* A verdict is a pass that is to publish the copy it was given.
LEMMA VerdictShape ==
  ASSUME NEW tpl \in Templates, NEW state \in Admissions, NEW reason \in Reasons, NEW requeue \in BOOLEAN,
         Verdict(tpl, state, reason, requeue)
  PROVE  /\ pass' \in Passes /\ pass' # Idle /\ pass'.at = "publish" /\ pass'.tpl = tpl
         /\ pass'.state = state
PROOF
<1>1. pass' \in [at: {"publish"}, tpl: Templates, state: Admissions, reason: Reasons, requeue: BOOLEAN]
  BY DEF Verdict
<1>2. pass'.at # Idle.at
  BY DEF Verdict, Idle
<1>3. QED
  BY <1>1, <1>2 DEF Verdict, Passes

\* After resolveImage the pass reads the claims or publishes; it comes to an
\* approval only with a copy that is not rejected and whose volumes were
\* reviewed.
LEMMA ResolvedShape ==
  ASSUME NEW tpl \in Templates, Resolved(tpl)
  PROVE  /\ pass' \in Passes /\ pass' # Idle /\ pass'.tpl = tpl /\ pass'.at \in {"claim", "publish"}
         /\ pass'.at = "claim" \/ pass'.state = "Approved" =>
              tpl.status.admission # "Rejected" /\ (tpl.spec.volume => tpl.spec.reviewed)
PROOF
<1>1. /\ tpl.status \in Statuses /\ tpl.status.reason \in Reasons
      /\ tpl.spec.volume \in BOOLEAN /\ tpl.spec.reviewed \in BOOLEAN
  BY SpecAssumption DEF Templates, Statuses
<1>2. /\ resolvedAdmit(tpl)[1] \in Admissions /\ resolvedAdmit(tpl)[2] \in Reasons
      /\ resolvedAdmit(tpl)[1] = "Approved" => (tpl.spec.volume => tpl.spec.reviewed)
  BY <1>1, Zenon DEF resolvedAdmit, Admissions, Reasons
<1>3. CASE tpl.status.admission = "Rejected"
  <2>1. Verdict(tpl, "Rejected", tpl.status.reason, FALSE)
    BY <1>3, Zenon DEF Resolved
  <2>2. QED
    BY <1>1, <2>1, VerdictShape, Zenon DEF Admissions
<1>4. CASE tpl.status.admission # "Rejected" /\ resolvedAdmit(tpl)[1] = "Approved" /\ tpl.spec.volume
  <2>1. pass' = [at |-> "claim", tpl |-> tpl]
    BY <1>4 DEF Resolved
  <2>2. pass'.at # Idle.at
    BY <2>1 DEF Idle
  <2>3. QED
    BY <1>2, <1>4, <2>1, <2>2 DEF Passes
<1>5. CASE /\ tpl.status.admission # "Rejected"
           /\ ~(resolvedAdmit(tpl)[1] = "Approved" /\ tpl.spec.volume)
  <2>1. Verdict(tpl, resolvedAdmit(tpl)[1], resolvedAdmit(tpl)[2], FALSE)
    BY <1>5, Zenon DEF Resolved
  <2>2. QED
    BY <1>2, <1>5, <2>1, VerdictShape, Zenon
<1>6. QED
  BY <1>3, <1>4, <1>5

\* A copy whose digest and ref resolveImage has set is as sound as the ref's
\* build is known.
LEMMA PinnedCopy ==
  ASSUME NEW tpl \in Templates, NEW d \in Digests, NEW st \in Statuses,
         st.ref = tpl.spec.ref, st.digest = d, <<tpl.spec.ref, d>> \in denoted,
         digestOf(tpl.spec.ref) # None => d = digestOf(tpl.spec.ref)
  PROVE  Pinned(st)
PROOF
  BY RefAssumption, Zenon DEF Pinned

\* Reconcile from a valid copy as far as resolveImage needs no registry.
LEMMA ResolveImageShape ==
  ASSUME NEW tpl \in Templates, Pinned(tpl.status), Denotes, staticAdmit(tpl.spec), resolveImage(tpl)
  PROVE  /\ pass' \in Passes /\ pass' # Idle /\ Sound(pass') /\ Tracks(pass', tpl)
         /\ pass'.tpl.rv = tpl.rv
PROOF
<1>1. /\ tpl.spec \in Specs /\ tpl.spec.ref \in Refs /\ tpl.status \in Statuses
      /\ tpl.spec.resolve \in BOOLEAN /\ tpl.spec.ref # None
  BY SpecAssumption, RefAssumption, Zenon DEF Templates
<1>2. CASE digestOf(tpl.spec.ref) # None
  <2> DEFINE d == digestOf(tpl.spec.ref)
             new == [tpl EXCEPT !.status.digest = d, !.status.ref = tpl.spec.ref]
  <2>1. d \in Digests /\ <<tpl.spec.ref, d>> \in denoted
    BY <1>1, <1>2, RefAssumption, Zenon DEF Denotes, digestOf
  <2>2. /\ new \in Templates /\ new.rv = tpl.rv /\ new.spec = tpl.spec
        /\ new.status.digest = d /\ new.status.ref = tpl.spec.ref /\ new.status \in Statuses
    BY <1>1, <2>1, Zenon DEF Templates, Statuses
  <2>3. Resolved(new)
    BY <1>2 DEF resolveImage
  <2>4. Pinned(new.status)
    BY <1>1, <2>1, <2>2, PinnedCopy, Zenon
  <2>5. tpl.status.ref = tpl.spec.ref => tpl.status.digest = d
    BY <1>1, <1>2 DEF Pinned
  <2> HIDE DEF new
  <2>6. /\ pass' \in Passes /\ pass' # Idle /\ pass'.tpl = new /\ pass'.at \in {"claim", "publish"}
        /\ pass'.at = "claim" \/ pass'.state = "Approved" =>
             (new.spec.volume => new.spec.reviewed)
    BY <2>2, <2>3, ResolvedShape
  <2>7. Sound(pass')
    BY <2>1, <2>2, <2>4, <2>6 DEF Sound, Approvable
  <2>8. Tracks(pass', tpl)
    BY <2>2, <2>5, <2>6 DEF Tracks
  <2>9. QED
    BY <2>2, <2>6, <2>7, <2>8
<1>3. CASE digestOf(tpl.spec.ref) = None /\ ~tpl.spec.resolve
  <2> DEFINE new == [tpl EXCEPT !.status.digest = None, !.status.ref = None, !.status.bytes = "unknown"]
  <2>1. /\ new \in Templates /\ new.rv = tpl.rv /\ new.spec = tpl.spec
        /\ new.status.digest = None /\ new.status.ref = None
    BY <1>1, Zenon DEF Templates, Statuses
  <2>2. Resolved(new)
    BY <1>3 DEF resolveImage
  <2> HIDE DEF new
  <2>3. /\ pass' \in Passes /\ pass' # Idle /\ pass'.tpl = new /\ pass'.at \in {"claim", "publish"}
        /\ pass'.at = "claim" \/ pass'.state = "Approved" =>
             (new.spec.volume => new.spec.reviewed)
    BY <2>1, <2>2, ResolvedShape
  <2>4. Sound(pass')
    BY <1>3, <2>1, <2>3 DEF Sound, Approvable, Pinned
  <2>5. Tracks(pass', tpl)
    BY <2>1, <2>3 DEF Tracks
  <2>6. QED
    BY <2>1, <2>3, <2>4, <2>5
<1>4. CASE digestOf(tpl.spec.ref) = None /\ tpl.spec.resolve /\ AlreadyResolved(tpl)
  <2>1. Resolved(tpl)
    BY <1>4 DEF resolveImage
  <2>2. /\ pass' \in Passes /\ pass' # Idle /\ pass'.tpl = tpl /\ pass'.at \in {"claim", "publish"}
        /\ pass'.at = "claim" \/ pass'.state = "Approved" =>
             (tpl.spec.volume => tpl.spec.reviewed)
    BY <2>1, ResolvedShape
  <2>3. Approvable(tpl) \/ ~(tpl.spec.volume => tpl.spec.reviewed)
    BY <1>1, <1>4 DEF Approvable, AlreadyResolved, Pinned
  <2>4. QED
    BY <2>2, <2>3 DEF Sound, Tracks
<1>5. CASE digestOf(tpl.spec.ref) = None /\ tpl.spec.resolve /\ ~AlreadyResolved(tpl) /\ resolver
  <2>1. pass' = [at |-> "resolve", tpl |-> tpl]
    BY <1>5 DEF resolveImage
  <2>2. pass'.at # Idle.at
    BY <2>1 DEF Idle
  <2>3. QED
    BY <1>5, <2>1, <2>2 DEF Passes, Sound, Tracks
<1>6. CASE digestOf(tpl.spec.ref) = None /\ tpl.spec.resolve /\ ~AlreadyResolved(tpl) /\ ~resolver
  <2> DEFINE new == [tpl EXCEPT !.status.admission = "Rejected", !.status.reason = "no_resolver"]
  <2>1. /\ new \in Templates /\ new.rv = tpl.rv /\ new.spec = tpl.spec
        /\ new.status.digest = tpl.status.digest /\ new.status.ref = tpl.status.ref
        /\ new.status.admission = "Rejected"
    BY <1>1, Zenon DEF Templates, Statuses, Admissions, Reasons
  <2>2. Resolved(new)
    BY <1>6 DEF resolveImage
  <2> HIDE DEF new
  <2>3. /\ pass' \in Passes /\ pass' # Idle /\ pass'.tpl = new /\ pass'.at = "publish"
        /\ pass'.state # "Approved"
    BY <2>1, <2>2, ResolvedShape
  <2>4. QED
    BY <2>1, <2>3 DEF Sound, Tracks, Pinned
<1>7. QED
  BY <1>1, <1>2, <1>3, <1>4, <1>5, <1>6

\* The rest of resolveImage: a pass that asked the registry keeps what it
\* knew, and takes an answer only for a ref that had no build before.
LEMMA ResolveShape ==
  ASSUME TemplateInv, Resolve
  PROVE  /\ pass' \in Passes /\ pass' # Idle /\ Sound(pass') /\ pass'.tpl.rv = pass.tpl.rv
         /\ pass.tpl.rv = template.rv => Tracks(pass', template)
PROOF
<1> DEFINE tpl == pass.tpl
<1>1. pass.at = "resolve" /\ pass # Idle
  <2>1. pass.at = "resolve"
    BY Zenon DEF Resolve
  <2>2. Idle.at = "idle"
    BY DEF Idle
  <2>3. QED
    BY <2>1, <2>2
<1>2. tpl \in Templates
  BY <1>1 DEF TemplateInv, TypeOK, Passes
<1>3. /\ Sound(pass) /\ (pass.tpl.rv = template.rv => Tracks(pass, template))
      /\ Pinned(template.status)
  BY <1>1 DEF TemplateInv, PassInv, Statements
<1>4. /\ Pinned(tpl.status) /\ staticAdmit(tpl.spec) /\ digestOf(tpl.spec.ref) = None
      /\ ~AlreadyResolved(tpl)
  BY <1>1, <1>3 DEF Sound
<1>5. tpl.rv = template.rv => template = tpl
  BY <1>1, <1>3 DEF Tracks
<1>6. tpl.spec \in Specs /\ tpl.spec.ref \in Refs /\ tpl.status \in Statuses /\ tpl.spec.ref # None
  BY <1>2, SpecAssumption, RefAssumption, Zenon DEF Templates
<1>7. CASE Verdict([tpl EXCEPT !.status.reason = "resolving"], "Pending", "resolving", TRUE)
  <2> DEFINE new == [tpl EXCEPT !.status.reason = "resolving"]
  <2>1. /\ new \in Templates /\ new.rv = tpl.rv /\ new.spec = tpl.spec
        /\ new.status.digest = tpl.status.digest /\ new.status.ref = tpl.status.ref
    BY <1>2, <1>6, Zenon DEF Templates, Statuses, Reasons
  <2>2. Verdict(new, "Pending", "resolving", TRUE)
    BY <1>7, Zenon
  <2> HIDE DEF new
  <2>3. /\ pass' \in Passes /\ pass' # Idle /\ pass'.at = "publish" /\ pass'.tpl = new
        /\ pass'.state = "Pending"
    BY <2>1, <2>2, VerdictShape, Zenon DEF Admissions, Reasons
  <2>4. QED
    BY <1>4, <1>5, <2>1, <2>3 DEF Sound, Tracks, Pinned
<1>8. CASE Resolved([tpl EXCEPT !.status.admission = "Rejected", !.status.reason = "not_found"])
  <2> DEFINE new == [tpl EXCEPT !.status.admission = "Rejected", !.status.reason = "not_found"]
  <2>1. /\ new \in Templates /\ new.rv = tpl.rv /\ new.spec = tpl.spec
        /\ new.status.digest = tpl.status.digest /\ new.status.ref = tpl.status.ref
        /\ new.status.admission = "Rejected"
    BY <1>2, <1>6, Zenon DEF Templates, Statuses, Reasons, Admissions
  <2>2. Resolved(new)
    BY <1>8
  <2> HIDE DEF new
  <2>3. /\ pass' \in Passes /\ pass' # Idle /\ pass'.tpl = new /\ pass'.at = "publish"
        /\ pass'.state # "Approved"
    BY <2>1, <2>2, ResolvedShape
  <2>4. QED
    BY <1>4, <1>5, <2>1, <2>3 DEF Sound, Tracks, Pinned
<1>9. ASSUME NEW secretRead \in BOOLEAN, NEW answer \in Answers(tpl.spec, secretRead), answer # NotFound,
             Resolved([tpl EXCEPT !.status.digest = answer.digest, !.status.ref = tpl.spec.ref,
                                  !.status.bytes = answer.bytes, !.status.reason = ""])
      PROVE  /\ pass' \in Passes /\ pass' # Idle /\ Sound(pass') /\ pass'.tpl.rv = pass.tpl.rv
             /\ pass.tpl.rv = template.rv => Tracks(pass', template)
  <2> DEFINE d == registry[tpl.spec.ref]
             new == [tpl EXCEPT !.status.digest = answer.digest, !.status.ref = tpl.spec.ref,
                                !.status.bytes = answer.bytes, !.status.reason = ""]
  <2>1. d # None /\ answer.digest = d /\ answer.bytes \in {"unknown", "fits", "over"}
    BY <1>9 DEF Answers, Sizes
  <2>2. d \in Digests /\ <<tpl.spec.ref, d>> \in denoted
    BY <1>4, <1>6, <2>1, Zenon DEF TemplateInv, TypeOK, Denotes
  <2>3. /\ new \in Templates /\ new.rv = tpl.rv /\ new.spec = tpl.spec /\ new.status \in Statuses
        /\ new.status.digest = d /\ new.status.ref = tpl.spec.ref
    BY <1>2, <1>6, <2>1, <2>2, Zenon DEF Templates, Statuses, Reasons
  <2>4. Resolved(new)
    BY <1>9
  <2>5. Pinned(new.status)
    BY <1>2, <1>4, <2>2, <2>3, PinnedCopy, Zenon
  <2>6. tpl.rv = template.rv => template.status.ref # tpl.spec.ref
    BY <1>3, <1>4, <1>5, <1>6 DEF Pinned, AlreadyResolved
  <2> HIDE DEF new
  <2>7. /\ pass' \in Passes /\ pass' # Idle /\ pass'.tpl = new /\ pass'.at \in {"claim", "publish"}
        /\ pass'.at = "claim" \/ pass'.state = "Approved" =>
             (new.spec.volume => new.spec.reviewed)
    BY <2>3, <2>4, ResolvedShape
  <2>8. Sound(pass')
    BY <1>4, <2>2, <2>3, <2>5, <2>7 DEF Sound, Approvable
  <2>9. tpl.rv = template.rv => Tracks(pass', template)
    BY <1>5, <2>3, <2>6, <2>7 DEF Tracks
  <2>10. QED
    BY <2>3, <2>7, <2>8, <2>9
<1>10. QED
  BY <1>7, <1>8, <1>9, ZenonT(30) DEF Resolve

\* admitVolumes decides on the copy as it is.
LEMMA ReadClaimShape ==
  ASSUME TemplateInv, ReadClaim
  PROVE  /\ pass' \in Passes /\ pass' # Idle /\ Sound(pass') /\ pass'.tpl.rv = pass.tpl.rv
         /\ pass.tpl.rv = template.rv => Tracks(pass', template)
PROOF
<1>1. pass.at = "claim" /\ pass # Idle
  <2>1. pass.at = "claim"
    BY Zenon DEF ReadClaim
  <2>2. Idle.at = "idle"
    BY DEF Idle
  <2>3. QED
    BY <2>1, <2>2
<1>2. pass.tpl \in Templates
  BY <1>1 DEF TemplateInv, TypeOK, Passes
<1>3. Sound(pass) /\ (pass.tpl.rv = template.rv => Tracks(pass, template))
  BY <1>1 DEF TemplateInv, PassInv
<1>4. claim \in {"absent", "exclusive", "shared"}
  BY DEF TemplateInv, TypeOK
<1>5. \E state \in Admissions, reason \in Reasons, requeue \in BOOLEAN :
        Verdict(pass.tpl, state, reason, requeue)
  BY <1>4, Zenon DEF ReadClaim, Admissions, Reasons
<1>6. /\ pass' \in Passes /\ pass' # Idle /\ pass'.at = "publish" /\ pass'.tpl = pass.tpl
  BY <1>2, <1>5, VerdictShape
<1>7. QED
  BY <1>1, <1>3, <1>6 DEF Sound, Tracks

\* Reconcile starts from the cache's copy.
LEMMA StartShape ==
  ASSUME TemplateInv, Start, cache.live
  PROVE  /\ pass' \in Passes /\ pass' # Idle /\ Sound(pass') /\ pass'.tpl.rv = cache.rv
         /\ Tracks(pass', cache)
PROOF
<1>1. cache \in Templates /\ Pinned(cache.status) /\ Denotes
  BY DEF TemplateInv, TypeOK, Statements
<1>2. CASE staticAdmit(cache.spec)
  <2>1. resolveImage(cache)
    BY <1>2 DEF Start
  <2>2. QED
    BY <1>1, <1>2, <2>1, ResolveImageShape
<1>3. CASE ~staticAdmit(cache.spec)
  <2>1. Verdict(cache, "Rejected", "static", FALSE)
    BY <1>3, Zenon DEF Start
  <2>2. /\ pass' \in Passes /\ pass' # Idle /\ pass'.at = "publish" /\ pass'.tpl = cache
        /\ pass'.state = "Rejected"
    BY <1>1, <2>1, VerdictShape, Zenon DEF Admissions, Reasons
  <2>3. QED
    BY <1>1, <2>2 DEF Sound, Tracks
<1>4. QED
  BY <1>2, <1>3

-----------------------------------------------------------------------------
(* Steps.                                                                  *)

\* A write makes a new version, which every copy made so far is older than.
LEMMA WriteKeeps ==
  ASSUME TemplateInv, NEW t \in Templates, Write(t), Pinned(t.status), UNCHANGED denoted
  PROVE  /\ template' \in Templates /\ template'.rv = template.rv + 1
         /\ template'.spec = t.spec /\ template'.status = t.status /\ template'.live = t.live
         /\ cache' \in Templates /\ watch' \in Seq(Templates)
         /\ Copies' /\ Statements'
PROOF
<1>1. template \in Templates /\ cache \in Templates /\ watch \in Seq(Templates) /\ template.rv \in Nat
  BY DEF TemplateInv, TypeOK, Templates
<1>2. /\ template' \in Templates /\ template'.rv = template.rv + 1
      /\ template'.spec = t.spec /\ template'.status = t.status /\ template'.live = t.live
  BY <1>1 DEF Write, Templates
<1>3. /\ watch' \in Seq(Templates) /\ cache' = cache
      /\ \A i \in DOMAIN watch' : watch'[i] = template' \/ (i \in DOMAIN watch /\ watch'[i] = watch[i])
  BY <1>1, <1>2 DEF Write
<1>4. ASSUME NEW c \in Templates, Copy(c)
      PROVE  c.rv < template'.rv
  BY <1>1, <1>2, <1>4 DEF Copy, Templates
<1>5. Copies'
  <2>1. cache.rv < template'.rv /\ cache.rv \in Nat
    BY <1>1, <1>4 DEF TemplateInv, Copies, Templates
  <2>2. \A i \in DOMAIN watch : watch[i].rv < template'.rv /\ watch[i].rv \in Nat
    <3>1. SUFFICES ASSUME NEW i \in DOMAIN watch
                   PROVE  watch[i].rv < template'.rv /\ watch[i].rv \in Nat
      OBVIOUS
    <3>2. watch[i] \in Templates
      BY <1>1
    <3>3. Copy(watch[i])
      BY DEF TemplateInv, Copies
    <3>4. QED
      BY <1>4, <3>2, <3>3 DEF Templates
  <2>3. template'.rv \in Nat
    BY <1>1, <1>2
  <2>4. QED
    BY <1>3, <2>1, <2>2, <2>3 DEF Copies, Copy
<1>6. Statements'
  BY <1>2, <1>3 DEF TemplateInv, Statements, Pinned
<1>7. QED
  BY <1>1, <1>2, <1>3, <1>5, <1>6

\* A pass in flight over an older version is as sound as it was.
LEMMA OlderPass ==
  ASSUME TemplateInv, template'.rv = template.rv + 1, pass' = pass, UNCHANGED denoted
  PROVE  PassInv'
PROOF
<1>1. template.rv \in Nat /\ (pass # Idle => pass.tpl.rv \in Nat)
  BY DEF TemplateInv, TypeOK, Templates, Passes
<1>2. pass # Idle => Sound(pass) /\ pass.tpl.rv <= template.rv
  BY DEF TemplateInv, PassInv
<1>3. Sound(pass) => Sound(pass)'
  BY Zenon DEF Sound, Pinned, Approvable, AlreadyResolved, staticAdmit
<1>4. QED
  BY <1>1, <1>2, <1>3 DEF PassInv

\* Where the template, its copies and the registry stay, so does what is known
\* of them.
LEMMA ObjectsStand ==
  ASSUME TemplateInv, UNCHANGED <<objectVars, registry, denoted>>
  PROVE  /\ template' \in Templates /\ cache' \in Templates /\ watch' \in Seq(Templates)
         /\ registry' \in [Refs -> Digests \cup {None}] /\ denoted' \subseteq Refs \X Digests
         /\ Copies' /\ Denotes' /\ Statements'
PROOF
<1>1. UNCHANGED <<template, cache, watch, registry, denoted>>
  BY DEF objectVars
<1>2. /\ template' \in Templates /\ cache' \in Templates /\ watch' \in Seq(Templates)
      /\ registry' \in [Refs -> Digests \cup {None}] /\ denoted' \subseteq Refs \X Digests
  BY <1>1 DEF TemplateInv, TypeOK
<1>3. Copies' /\ Denotes' /\ Statements'
  BY <1>1 DEF TemplateInv, Copies, Copy, Denotes, Statements, Pinned
<1>4. QED
  BY <1>2, <1>3

\* The steps of Reconcile before it publishes.
LEMMA PassStep ==
  ASSUME TemplateInv, Start \/ Resolve \/ ReadClaim
  PROVE  TemplateInv'
PROOF
<1>1. UNCHANGED <<objectVars, worldVars>>
  BY Zenon DEF Start, Resolve, ReadClaim
<1>2. UNCHANGED <<template, registry, denoted, resolver, claim, pods, edits, pushes>>
  BY <1>1 DEF objectVars, worldVars
<1>3. /\ template' \in Templates /\ cache' \in Templates /\ watch' \in Seq(Templates)
      /\ registry' \in [Refs -> Digests \cup {None}] /\ denoted' \subseteq Refs \X Digests
      /\ Copies' /\ Denotes' /\ Statements'
  BY <1>1, <1>2, ObjectsStand
<1>4. queued' \in BOOLEAN /\ later' \in BOOLEAN /\ faults' \in 0..MaxFaults
  <2>1. queued \in BOOLEAN /\ later \in BOOLEAN /\ faults \in 0..MaxFaults /\ MaxFaults \in Nat
    BY TemplateBounds DEF TemplateInv, TypeOK
  <2>2. CASE Start
    BY <2>1, <2>2, ZenonT(30) DEF Start
  <2>3. CASE Resolve
    <3>1. UNCHANGED <<queued, later>>
      BY <2>3, Zenon DEF Resolve, queueVars
    <3>2. faults' = faults \/ (faults < MaxFaults /\ faults' = faults + 1)
      BY <2>3, Zenon DEF Resolve, Fault
    <3>3. QED
      BY <2>1, <3>1, <3>2
  <2>4. CASE ReadClaim
    <3>1. UNCHANGED <<queued, later>>
      BY <2>4, Zenon DEF ReadClaim, queueVars
    <3>2. faults' = faults \/ (faults < MaxFaults /\ faults' = faults + 1)
      BY <2>4, Zenon DEF ReadClaim, Fault
    <3>3. QED
      BY <2>1, <3>1, <3>2
  <2>5. QED
    BY <2>2, <2>3, <2>4
<1>5. pass' \in Passes \cup {Idle} /\ PassInv'
  <2>1. ASSUME pass' \in Passes, pass' # Idle, Sound(pass'), pass'.tpl.rv <= template.rv,
               pass'.tpl.rv = template.rv => Tracks(pass', template)
        PROVE  pass' \in Passes \cup {Idle} /\ PassInv'
    <3>1. Sound(pass)'
      BY <1>2, <2>1, Zenon DEF Sound, Pinned, Approvable, AlreadyResolved, staticAdmit
    <3>2. QED
      BY <1>2, <2>1, <3>1 DEF PassInv, Tracks
  <2>2. CASE Start /\ cache.live
    <3>1. Copy(cache)
      BY DEF TemplateInv, Copies
    <3>2. QED
      BY <2>1, <2>2, <3>1, StartShape DEF Copy
  <2>3. CASE Start /\ ~cache.live
    <3>1. pass' = pass
      BY <2>3 DEF Start
    <3>2. pass = Idle
      BY <2>3 DEF Start
    <3>3. QED
      BY <3>1, <3>2 DEF PassInv, Idle
  <2>4. CASE Resolve
    <3>1. pass # Idle
      <4>1. pass.at = "resolve"
        BY <2>4, Zenon DEF Resolve
      <4>2. Idle.at = "idle"
        BY DEF Idle
      <4>3. QED
        BY <4>1, <4>2
    <3>2. pass.tpl.rv <= template.rv
      BY <3>1 DEF TemplateInv, PassInv
    <3>3. QED
      BY <2>1, <2>4, <3>2, ResolveShape
  <2>5. CASE ReadClaim
    <3>1. pass # Idle
      <4>1. pass.at = "claim"
        BY <2>5, Zenon DEF ReadClaim
      <4>2. Idle.at = "idle"
        BY DEF Idle
      <4>3. QED
        BY <4>1, <4>2
    <3>2. pass.tpl.rv <= template.rv
      BY <3>1 DEF TemplateInv, PassInv
    <3>3. QED
      BY <2>1, <2>5, <3>2, ReadClaimShape
  <2>6. QED
    BY <2>2, <2>3, <2>4, <2>5
<1>6. Builds'
  BY <1>2 DEF TemplateInv, Builds, HashPinned
<1>7. QED
  BY <1>2, <1>3, <1>4, <1>5, <1>6 DEF TemplateInv, TypeOK

\* What publish writes is a status, pinned as the copy was, and an approval
\* records the hash of the build it records.
LEMMA PublishedSound ==
  ASSUME TemplateInv, pass.at = "publish"
  PROVE  /\ Published \in Statuses /\ Pinned(Published)
         /\ Published.digest = pass.tpl.status.digest /\ Published.ref = pass.tpl.status.ref
         /\ Published.admission = pass.state
         /\ Published.hash = TemplateHash(pass.tpl.spec, Published.digest)
         /\ HashPinned(Published)
PROOF
<1>1. pass # Idle
  <2>1. Idle.at = "idle"
    BY DEF Idle
  <2>2. QED
    BY <2>1
<1>2. pass \in [at: {"publish"}, tpl: Templates, state: Admissions, reason: Reasons, requeue: BOOLEAN]
  <2>1. pass \in Passes
    BY <1>1 DEF TemplateInv, TypeOK
  <2>2. QED
    BY <2>1 DEF Passes
<1>3. /\ pass.tpl.status \in Statuses /\ pass.tpl.spec \in Specs /\ pass.tpl.spec.volume \in BOOLEAN
      /\ pass.tpl.spec.ref \in Refs
  BY <1>2, SpecAssumption DEF Templates
<1>4. pass.tpl.status.digest \in Digests \cup {None}
  BY <1>3 DEF Statuses
<1>5. TemplateHash(pass.tpl.spec, pass.tpl.status.digest) \in PodSpecs
  BY <1>3, <1>4, HashTyped
<1>6. /\ Published \in Statuses
      /\ Published.digest = pass.tpl.status.digest /\ Published.ref = pass.tpl.status.ref
      /\ Published.admission = pass.state
      /\ Published.hash = TemplateHash(pass.tpl.spec, Published.digest)
  BY <1>2, <1>3, <1>5, Zenon DEF Published, Statuses, Hashes
<1>7. Sound(pass)
  BY <1>1 DEF TemplateInv, PassInv
<1>8. Pinned(Published)
  BY <1>6, <1>7 DEF Sound, Pinned
<1>9. HashPinned(Published)
  <2>1. SUFFICES ASSUME pass.state = "Approved", Published.digest # None
                 PROVE  digestOf(Published.hash.image) = Published.digest
    BY <1>6 DEF HashPinned
  <2>2. Published.ref = pass.tpl.spec.ref
    BY <1>6, <1>7, <2>1 DEF Sound, Approvable
  <2>3. digestOf(pass.tpl.spec.ref) # None => digestOf(pass.tpl.spec.ref) = Published.digest
    BY <1>3, <1>8, <2>2, RefAssumption, Zenon DEF Pinned
  <2>4. Published.hash.image = pinned(pass.tpl.spec.ref, Published.digest)
    BY <1>6, <2>1 DEF TemplateHash, buildPodSpec, ImageRef
  <2>5. CASE digestOf(pass.tpl.spec.ref) # None
    BY <2>3, <2>4, <2>5 DEF pinned
  <2>6. CASE digestOf(pass.tpl.spec.ref) = None
    <3>1. Published.hash.image = [pass.tpl.spec.ref EXCEPT !.tag = "", !.digest = Published.digest]
      BY <2>4, <2>6 DEF pinned
    <3>2. pass.tpl.spec.ref \in [host: STRING, repo: STRING, tag: STRING, digest: Digests \cup {None}]
      BY <1>3, RefAssumption, Zenon
    <3>3. QED
      BY <3>1, <3>2 DEF digestOf
  <2>7. QED
    BY <2>5, <2>6
<1>10. QED
  BY <1>6, <1>8, <1>9

\* The write of publish is of the version the pass worked from.
LEMMA PublishStep ==
  ASSUME TemplateInv, Publish
  PROVE  TemplateInv'
PROOF
<1>1. /\ pass.at = "publish" /\ pass' = Idle /\ queued' = queued
      /\ UNCHANGED <<registry, denoted, resolver, claim, pods, edits, pushes>>
  BY DEF Publish, worldVars
<1>2. PassInv' /\ pass' \in Passes \cup {Idle}
  BY <1>1 DEF PassInv, Idle
<1>3. later' \in BOOLEAN
  BY Zenon DEF Publish
<1>4. faults' \in 0..MaxFaults
  <2>1. faults' = faults \/ (faults < MaxFaults /\ faults' = faults + 1)
    BY DEF Publish, Fault
  <2>2. faults \in 0..MaxFaults /\ MaxFaults \in Nat
    BY TemplateBounds DEF TemplateInv, TypeOK
  <2>3. QED
    BY <2>1, <2>2
<1>5. /\ template' \in Templates /\ cache' \in Templates /\ watch' \in Seq(Templates)
      /\ Copies' /\ Statements' /\ HashPinned(template'.status)
  <2>1. CASE UNCHANGED objectVars
    <3>1. template' = template /\ HashPinned(template.status)
      BY <2>1 DEF objectVars, TemplateInv, Builds
    <3>2. QED
      BY <1>1, <2>1, <3>1, ObjectsStand
  <2>2. CASE Write([template EXCEPT !.status = Published])
    <3> DEFINE t == [template EXCEPT !.status = Published]
    <3>1. template \in Templates
      BY DEF TemplateInv, TypeOK
    <3>2. Published \in Statuses /\ Pinned(Published) /\ HashPinned(Published)
      BY <1>1, PublishedSound
    <3>3. t \in Templates /\ t.status = Published
      BY <3>1, <3>2, StatusTyped
    <3> HIDE DEF t
    <3>4. Write(t) /\ Pinned(t.status)
      BY <2>2, <3>2, <3>3 DEF t
    <3>5. QED
      BY <1>1, <3>2, <3>3, <3>4, WriteKeeps
  <2>3. QED
    BY <2>1, <2>2 DEF Publish
<1>6. Denotes' /\ registry' \in [Refs -> Digests \cup {None}] /\ denoted' \subseteq Refs \X Digests
  BY <1>1 DEF TemplateInv, TypeOK, Denotes
<1>7. Builds'
  BY <1>1, <1>5 DEF TemplateInv, Builds, HashPinned
<1>8. TypeOK'
  BY <1>1, <1>2, <1>3, <1>4, <1>5, <1>6 DEF TemplateInv, TypeOK
<1>9. QED
  BY <1>2, <1>5, <1>6, <1>7, <1>8 DEF TemplateInv

-----------------------------------------------------------------------------
(* Around the pass.                                                        *)

\* What stays of the invariant where only the queue, the claim or the Pods
\* change.
LEMMA Bystander ==
  ASSUME TemplateInv, UNCHANGED <<objectVars, registry, denoted, pass>>
  PROVE  /\ template' \in Templates /\ cache' \in Templates /\ watch' \in Seq(Templates)
         /\ registry' \in [Refs -> Digests \cup {None}] /\ denoted' \subseteq Refs \X Digests
         /\ pass' \in Passes \cup {Idle}
         /\ Copies' /\ Denotes' /\ Statements' /\ PassInv' /\ HashPinned(template.status)'
PROOF
<1>1. UNCHANGED <<template, denoted, pass>>
  BY DEF objectVars
<1>2. PassInv' /\ HashPinned(template.status)' /\ pass' \in Passes \cup {Idle}
  BY <1>1, Zenon DEF TemplateInv, TypeOK, PassInv, Sound, Tracks, Pinned, Approvable, AlreadyResolved,
              staticAdmit, Builds, HashPinned
<1>3. QED
  BY <1>2, ObjectsStand

\* A tenant writes the template: every pass in flight is over an older one.
LEMMA EditStep ==
  ASSUME TemplateInv, Edit
  PROVE  TemplateInv'
PROOF
<1>1. UNCHANGED <<queued, later, resolver, pass, registry, denoted, claim, pods, pushes, faults>>
  BY DEF Edit, queueVars
<1>2. PICK t \in Templates : Write(t) /\ t.status = template.status
  <2>1. template \in Templates
    BY DEF TemplateInv, TypeOK
  <2>2. CASE \E history \in Histories : \E spec \in history : Write([template EXCEPT !.spec = spec])
    <3>1. PICK spec \in Specs : Write([template EXCEPT !.spec = spec])
      BY <2>2 DEF Specs
    <3>2. [template EXCEPT !.spec = spec] \in Templates
          /\ [template EXCEPT !.spec = spec].status = template.status
      BY <2>1 DEF Templates
    <3>3. QED
      BY <3>1, <3>2, Zenon
  <2>3. CASE Write([template EXCEPT !.live = FALSE])
    <3>1. [template EXCEPT !.live = FALSE] \in Templates
          /\ [template EXCEPT !.live = FALSE].status = template.status
      BY <2>1, Zenon DEF Templates
    <3>2. QED
      BY <2>3, <3>1, Zenon
  <2>4. QED
    BY <2>2, <2>3 DEF Edit
<1>3. Pinned(t.status)
  BY <1>2 DEF TemplateInv, Statements
<1>4. /\ template' \in Templates /\ template'.rv = template.rv + 1 /\ template'.status = template.status
      /\ cache' \in Templates /\ watch' \in Seq(Templates) /\ Copies' /\ Statements'
  BY <1>1, <1>2, <1>3, WriteKeeps, Zenon
<1>5. PassInv'
  BY <1>1, <1>4, OlderPass
<1>6. edits' \in 0..MaxEdits
  <2>1. edits < MaxEdits /\ edits' = edits + 1
    BY DEF Edit
  <2>2. edits \in 0..MaxEdits /\ MaxEdits \in Nat
    BY TemplateBounds DEF TemplateInv, TypeOK
  <2>3. QED
    BY <2>1, <2>2
<1>7. Denotes' /\ Builds'
  BY <1>1, <1>4 DEF TemplateInv, Denotes, Builds, HashPinned
<1>8. QED
  BY <1>1, <1>4, <1>5, <1>6, <1>7 DEF TemplateInv, TypeOK

\* The cache moves on to the next version under way.
LEMMA DeliverStep ==
  ASSUME TemplateInv, Deliver
  PROVE  TemplateInv'
PROOF
<1>1. /\ watch # <<>> /\ cache' = Head(watch) /\ watch' = Tail(watch) /\ queued' = TRUE
      /\ UNCHANGED <<template, later, pass, resolver, registry, denoted, claim, pods, edits, pushes,
                     faults>>
  BY DEF Deliver, worldVars
<1>2. watch \in Seq(Templates)
  BY DEF TemplateInv, TypeOK
<1>3. 1 \in DOMAIN watch /\ cache' = watch[1] /\ cache' \in Templates /\ watch' \in Seq(Templates)
  BY <1>1, <1>2
<1>4. \A i \in DOMAIN watch' : i + 1 \in DOMAIN watch /\ watch'[i] = watch[i + 1]
  BY <1>1, <1>2
<1>5. Copies'
  <2>1. Copy(watch[1]) /\ \A i \in DOMAIN watch' : Copy(watch[i + 1])
    BY <1>3, <1>4 DEF TemplateInv, Copies
  <2>2. QED
    BY <1>1, <1>3, <1>4, <2>1 DEF Copies, Copy
<1>6. Statements'
  <2>1. Pinned(template.status) /\ Pinned(watch[1].status) /\ \A i \in DOMAIN watch' : Pinned(watch[i + 1].status)
    BY <1>3, <1>4 DEF TemplateInv, Statements
  <2>2. QED
    BY <1>1, <1>3, <1>4, <2>1 DEF Statements, Pinned
<1>7. Denotes' /\ PassInv' /\ Builds'
  BY <1>1, Zenon DEF TemplateInv, Denotes, PassInv, Sound, Tracks, Pinned, Approvable, AlreadyResolved,
              staticAdmit, Builds, HashPinned
<1>8. TypeOK'
  BY <1>1, <1>3 DEF TemplateInv, TypeOK
<1>9. QED
  BY <1>5, <1>6, <1>7, <1>8 DEF TemplateInv

\* A timer and a claim touch nothing the invariant speaks of.
LEMMA OutsideStep ==
  ASSUME TemplateInv, Requeue \/ ChangeClaim
  PROVE  TemplateInv'
PROOF
<1>1. UNCHANGED <<objectVars, registry, denoted, pass, resolver, pods, edits, faults>>
  BY DEF Requeue, ChangeClaim, worldVars
<1>2. /\ queued' \in BOOLEAN /\ later' \in BOOLEAN
      /\ claim' \in {"absent", "exclusive", "shared"} /\ pushes' \in 0..MaxPushes
  <2>1. pushes \in 0..MaxPushes /\ MaxPushes \in Nat
    BY TemplateBounds DEF TemplateInv, TypeOK
  <2>2. CASE Requeue
    BY <2>2, Zenon DEF Requeue, worldVars, TemplateInv, TypeOK
  <2>3. CASE ChangeClaim
    BY <2>1, <2>3 DEF ChangeClaim, queueVars, TemplateInv, TypeOK
  <2>4. QED
    BY <2>2, <2>3
<1>3. Builds'
  BY <1>1, Bystander DEF TemplateInv, Builds
<1>4. TypeOK'
  BY <1>1, <1>2, Bystander DEF TemplateInv, TypeOK
<1>5. QED
  BY <1>1, <1>3, <1>4, Bystander DEF TemplateInv

\* A tag moves: what was known of the builds of a ref stays known.
LEMMA PushStep ==
  ASSUME TemplateInv, Push
  PROVE  TemplateInv'
PROOF
<1>1. UNCHANGED <<template, cache, watch, queued, later, resolver, pass, claim, pods, edits, faults>>
  BY DEF Push, objectVars, queueVars
<1>2. PICK ref \in Refs, d \in Digests :
        /\ digestOf(ref) = None
        /\ registry' = [registry EXCEPT ![ref] = d]
        /\ denoted' = denoted \cup {<<ref, d>>}
  BY Zenon DEF Push
<1>3. registry \in [Refs -> Digests \cup {None}] /\ denoted \subseteq Refs \X Digests
  BY DEF TemplateInv, TypeOK
<1>4. registry' \in [Refs -> Digests \cup {None}] /\ denoted' \subseteq Refs \X Digests
      /\ denoted \subseteq denoted'
  BY <1>2, <1>3
<1>5. pushes' \in 0..MaxPushes
  <2>1. pushes < MaxPushes /\ pushes' = pushes + 1
    BY DEF Push
  <2>2. pushes \in 0..MaxPushes /\ MaxPushes \in Nat
    BY TemplateBounds DEF TemplateInv, TypeOK
  <2>3. QED
    BY <2>1, <2>2
<1>6. Denotes'
  <2>1. SUFFICES ASSUME NEW r \in Refs
                 PROVE  IF digestOf(r) # None THEN <<r, digestOf(r)>> \in denoted'
                        ELSE registry'[r] # None => <<r, registry'[r]>> \in denoted'
    BY Zenon DEF Denotes, digestOf
  <2>2. IF digestOf(r) # None THEN <<r, digestOf(r)>> \in denoted
        ELSE registry[r] # None => <<r, registry[r]>> \in denoted
    BY DEF TemplateInv, Denotes
  <2>3. CASE r = ref
    BY <1>2, <1>3, <2>3
  <2>4. CASE r # ref
    BY <1>2, <1>3, <1>4, <2>2, <2>4
  <2>5. QED
    BY <2>3, <2>4
<1>7. Copies' /\ Statements' /\ Builds'
  BY <1>1, <1>4 DEF TemplateInv, Copies, Copy, Statements, Pinned, Builds, HashPinned
<1>8. PassInv'
  <2>1. Sound(pass) => Sound(pass)'
    BY <1>1, <1>4, Zenon DEF Sound, Pinned, Approvable, AlreadyResolved, staticAdmit
  <2>2. QED
    BY <1>1, <2>1, ZenonT(30) DEF TemplateInv, PassInv, Tracks
<1>9. TypeOK'
  BY <1>1, <1>4, <1>5 DEF TemplateInv, TypeOK
<1>10. QED
  BY <1>6, <1>7, <1>8, <1>9 DEF TemplateInv

\* A Pod carries the hash of its own specification.
LEMMA SupplyStep ==
  ASSUME TemplateInv, Supply
  PROVE  TemplateInv'
PROOF
<1>1. /\ pods' = pods \cup {BuildPod(cache)}
      /\ UNCHANGED <<objectVars, queued, later, resolver, pass, registry, denoted, claim, edits,
                     pushes, faults>>
  BY DEF Supply, queueVars
<1>2. cache.spec \in Specs /\ cache.spec.ref \in Refs /\ cache.status.digest \in Digests \cup {None}
  BY SpecAssumption DEF TemplateInv, TypeOK, Templates, Statuses
<1>3. /\ BuildPod(cache) \in [hash: PodSpecs, spec: PodSpecs, ref: Refs, build: Digests \cup {None}]
      /\ BuildPod(cache).build = None
      /\ BuildPod(cache).hash = BuildPod(cache).spec
  BY <1>2, HashTyped DEF BuildPod, TemplateHash
<1>4. Builds'
  BY <1>1, <1>3, Bystander DEF TemplateInv, Builds
<1>5. TypeOK'
  BY <1>1, <1>3, Bystander DEF TemplateInv, TypeOK
<1>6. QED
  BY <1>1, <1>4, <1>5, Bystander DEF TemplateInv

\* A kubelet that pulls by digest gets that digest.
LEMMA PullStep ==
  ASSUME TemplateInv, NEW p \in pods, Pull(p)
  PROVE  TemplateInv'
PROOF
<1> DEFINE q == [p EXCEPT !.build = Pulls(p.spec.image)]
<1>1. /\ pods' = (pods \ {p}) \cup {q}
      /\ UNCHANGED <<objectVars, queued, later, resolver, pass, registry, denoted, claim, edits,
                     pushes, faults>>
  BY DEF Pull, queueVars
<1>2. p \in [hash: PodSpecs, spec: PodSpecs, ref: Refs, build: Digests \cup {None}]
  BY DEF TemplateInv, TypeOK
<1>3. Pulls(p.spec.image) \in Digests \cup {None}
      /\ (digestOf(p.spec.image) # None /\ Pulls(p.spec.image) # None
            => Pulls(p.spec.image) = digestOf(p.spec.image))
  <2>1. p.spec.image \in Images
    BY <1>2 DEF PodSpecs
  <2>2. CASE digestOf(p.spec.image) = None
    <3>1. p.spec.image \in Refs
      BY <2>1, <2>2, RefAssumption, Zenon DEF Images, digestOf
    <3>2. registry[p.spec.image] \in Digests \cup {None}
      BY <3>1 DEF TemplateInv, TypeOK
    <3>3. QED
      BY <2>2, <3>2 DEF Pulls
  <2>3. CASE digestOf(p.spec.image) # None
    <3>1. digestOf(p.spec.image) \in Digests
      BY <2>1, <2>3, RefAssumption, Zenon DEF Images, digestOf
    <3>2. QED
      BY <2>3, <3>1 DEF Pulls
  <2>4. QED
    BY <2>2, <2>3
<1>4. /\ q \in [hash: PodSpecs, spec: PodSpecs, ref: Refs, build: Digests \cup {None}]
      /\ q.hash = p.hash /\ q.spec = p.spec /\ q.build = Pulls(p.spec.image)
  BY <1>2, <1>3
<1> HIDE DEF q
<1>5. q.hash = q.spec
      /\ (q.build # None /\ digestOf(q.spec.image) # None => q.build = digestOf(q.spec.image))
  BY <1>3, <1>4 DEF TemplateInv, Builds
<1>6. Builds'
  BY <1>1, <1>5, Bystander DEF TemplateInv, Builds, digestOf
<1>7. TypeOK'
  BY <1>1, <1>4, Bystander DEF TemplateInv, TypeOK
<1>8. QED
  BY <1>1, <1>6, <1>7, Bystander DEF TemplateInv

-----------------------------------------------------------------------------
(* The results.                                                            *)

\* A template that has just been created.
LEMMA TemplateInit ==
  ASSUME Init
  PROVE  TemplateInv
PROOF
<1>1. PICK spec \in Specs : template = [rv |-> 1, live |-> TRUE, spec |-> spec, status |-> NoStatus]
  BY Zenon DEF Init
<1>2. /\ cache = template /\ watch = <<>> /\ pass = Idle /\ registry \in Tags /\ pods = {}
      /\ denoted = {rd \in Refs \X Digests :
                      rd[2] = (IF digestOf(rd[1]) # None THEN digestOf(rd[1]) ELSE registry[rd[1]])}
  BY Zenon DEF Init
<1>3. NoStatus \in Statuses /\ NoStatus.ref = None /\ NoStatus.admission = "none"
  BY DEF NoStatus, Statuses, Hashes, Admissions, Reasons
<1>4. template \in Templates /\ template.status = NoStatus
  BY <1>1, <1>3 DEF Templates
<1>5. registry \in [Refs -> Digests \cup {None}]
  BY <1>2, RefAssumption, Zenon
<1>6. TypeOK
  <2>1. queued \in BOOLEAN /\ later \in BOOLEAN /\ resolver \in BOOLEAN
    BY Zenon DEF Init
  <2>2. watch \in Seq(Templates) /\ denoted \subseteq Refs \X Digests
    BY <1>2
  <2>3. claim \in {"absent", "exclusive", "shared"} /\ edits = 0 /\ pushes = 0 /\ faults = 0
    BY DEF Init
  <2>4. edits \in 0..MaxEdits /\ pushes \in 0..MaxPushes /\ faults \in 0..MaxFaults
    BY <2>3, TemplateBounds
  <2>5. QED
    BY <1>2, <1>4, <1>5, <2>1, <2>2, <2>3, <2>4 DEF TypeOK
<1>7. Denotes
  <2>1. SUFFICES ASSUME NEW r \in Refs
                 PROVE  IF digestOf(r) # None THEN <<r, digestOf(r)>> \in denoted
                        ELSE registry[r] # None => <<r, registry[r]>> \in denoted
    BY DEF Denotes
  <2>2. CASE digestOf(r) # None
    <3>1. digestOf(r) \in Digests
      BY <2>2, RefAssumption, Zenon DEF digestOf
    <3>2. QED
      BY <1>2, <2>2, <3>1
  <2>3. CASE digestOf(r) = None
    BY <1>2, <1>5, <2>3
  <2>4. QED
    BY <2>2, <2>3
<1>8. Copies
  <2>1. template.rv = 1 /\ DOMAIN watch = {}
    BY <1>1, <1>2
  <2>2. QED
    BY <1>2, <2>1 DEF Copies, Copy
<1>9. Statements
  <2>1. DOMAIN watch = {}
    BY <1>2
  <2>2. QED
    BY <1>2, <1>3, <1>4, <2>1 DEF Statements, Pinned
<1>10. PassInv /\ Builds
  BY <1>2, <1>3, <1>4 DEF PassInv, Builds, HashPinned
<1>11. QED
  BY <1>6, <1>7, <1>8, <1>9, <1>10 DEF TemplateInv

\* Every step preserves the invariant.
LEMMA TemplateStep ==
  ASSUME TemplateInv, [Next]_vars
  PROVE  TemplateInv'
PROOF
<1>1. CASE Start \/ Resolve \/ ReadClaim
  BY <1>1, PassStep
<1>2. CASE Publish
  BY <1>2, PublishStep
<1>3. CASE Deliver
  BY <1>3, DeliverStep
<1>4. CASE Requeue \/ ChangeClaim
  BY <1>4, OutsideStep
<1>5. CASE Edit
  BY <1>5, EditStep
<1>6. CASE Push
  BY <1>6, PushStep
<1>7. CASE Supply
  BY <1>7, SupplyStep
<1>8. CASE \E p \in pods : Pull(p)
  BY <1>8, PullStep
<1>9. CASE UNCHANGED vars
  <2>1. /\ UNCHANGED <<objectVars, registry, denoted, pass>>
        /\ UNCHANGED <<queued, later, resolver, claim, pods, edits, pushes, faults>>
    BY <1>9 DEF vars, queueVars, worldVars
  <2>2. Builds'
    BY <2>1, Bystander DEF TemplateInv, Builds
  <2>3. TypeOK'
    BY <2>1, Bystander DEF TemplateInv, TypeOK
  <2>4. QED
    BY <2>1, <2>2, <2>3, Bystander DEF TemplateInv
<1>10. QED
  BY <1>1, <1>2, <1>3, <1>4, <1>5, <1>6, <1>7, <1>8, <1>9 DEF Next, Reconcile

\* Whatever a tenant, the registry and the claims do while Reconcile runs over
\* its cached copy, copies are old versions of the template, digests are ones
\* the refs they stand beside have denoted, and a pass approves only what it
\* has checked.
THEOREM TemplateInvariance == Spec => []TemplateInv
PROOF
<1>1. Init => TemplateInv
  BY TemplateInit
<1>2. TemplateInv /\ [Next]_vars => TemplateInv'
  BY TemplateStep
<1>3. QED
  BY <1>1, <1>2, PTL DEF Spec

\* The variables of the template controller keep their types.
THEOREM TypeCorrect == Spec => []TypeOK
PROOF
<1>1. TemplateInv => TypeOK
  BY DEF TemplateInv
<1>2. QED
  BY <1>1, TemplateInvariance, PTL

\* Pods that carry the hash of an approved, resolved template run the build it
\* records, wherever the tag went while they were built and pulled
\* (TemplateHash, ImageRef).
THEOREM OneBuildPerHash == Spec => []OneBuild
PROOF
<1>1. TemplateInv => OneBuild
  BY DEF TemplateInv, Builds, HashPinned, OneBuild
<1>2. QED
  BY <1>1, TemplateInvariance, PTL

\* A status is written only by publish, over the version the pass worked from.
LEMMA StatusWrites ==
  ASSUME TemplateInv, [Next]_vars, template'.status # template.status
  PROVE  /\ pass.at = "publish" /\ pass # Idle /\ pass.tpl.rv = template.rv /\ template.live
         /\ template'.status = Published /\ template'.spec = template.spec
PROOF
<1>1. template \in Templates
  BY DEF TemplateInv, TypeOK
<1>2. CASE Publish
  <2>1. /\ pass.at = "publish" /\ pass.tpl.rv = template.rv /\ template.live
        /\ Write([template EXCEPT !.status = Published])
    BY <1>2 DEF Publish, objectVars
  <2>2. pass # Idle
    <3>1. Idle.at = "idle"
      BY DEF Idle
    <3>2. QED
      BY <2>1, <3>1
  <2>3. template'.status = Published /\ template'.spec = template.spec
    BY <1>1, <2>1 DEF Write, Templates
  <2>4. QED
    BY <2>1, <2>2, <2>3
<1>3. CASE Edit
  <2>1. template'.status = template.status
    BY <1>1, <1>3, Zenon DEF Edit, Write, Templates
  <2>2. QED
    BY <2>1
<1>4. CASE ~Publish /\ ~Edit
  <2>1. template' = template
    BY <1>4, Zenon DEF Next, Reconcile, Start, Resolve, ReadClaim, Deliver, Requeue, Push, ChangeClaim,
                Supply, Pull, vars, objectVars
  <2>2. QED
    BY <2>1
<1>5. QED
  BY <1>2, <1>3, <1>4

\* A digest recorded for a ref stays for as long as the ref does (resolveImage,
\* publish under a resourceVersion).
THEOREM PinsHold == Spec => PinHolds
PROOF
<1>1. ASSUME TemplateInv, [Next]_vars
      PROVE  [template.status.ref # None /\ template'.status.ref = template.status.ref
                => template'.status.digest = template.status.digest]_vars
  <2>1. SUFFICES ASSUME template.status.ref # None, template'.status.ref = template.status.ref,
                        template'.status # template.status
                 PROVE  template'.status.digest = template.status.digest
    OBVIOUS
  <2>2. /\ pass.at = "publish" /\ pass # Idle /\ pass.tpl.rv = template.rv
        /\ template'.status = Published
    BY <1>1, <2>1, StatusWrites
  <2>3. Published.ref = pass.tpl.status.ref /\ Published.digest = pass.tpl.status.digest
    BY <1>1, <2>2, PublishedSound
  <2>4. Tracks(pass, template)
    BY <1>1, <2>2 DEF TemplateInv, PassInv
  <2>5. QED
    BY <2>1, <2>2, <2>3, <2>4 DEF Tracks
<1>2. QED
  BY <1>1, TemplateInvariance, PTL DEF Spec, PinHolds

\* A template is approved for the spec it has: valid, reviewed where it has
\* volumes, resolved to a build its ref has stood for (Reconcile, publish).
THEOREM ApprovalsStand == Spec => ApprovedAsItIs
PROOF
<1>1. ASSUME TemplateInv, [Next]_vars, template'.status # template.status,
             template'.status.admission = "Approved"
      PROVE  /\ template.live /\ staticAdmit(template'.spec)
             /\ template'.spec.volume => template'.spec.reviewed
             /\ \/ ~template'.spec.resolve /\ template'.status.digest = None
                \/ /\ template'.status.ref = template'.spec.ref
                   /\ <<template'.status.ref, template'.status.digest>> \in denoted
             /\ template'.status.hash = TemplateHash(template'.spec, template'.status.digest)
  <2>1. /\ pass.at = "publish" /\ pass # Idle /\ pass.tpl.rv = template.rv /\ template.live
        /\ template'.status = Published /\ template'.spec = template.spec
    BY <1>1, StatusWrites
  <2>2. /\ Published.ref = pass.tpl.status.ref /\ Published.digest = pass.tpl.status.digest
        /\ Published.admission = pass.state
        /\ Published.hash = TemplateHash(pass.tpl.spec, Published.digest)
    BY <1>1, <2>1, PublishedSound
  <2>3. Sound(pass) /\ pass.tpl.spec = template.spec
    BY <1>1, <2>1 DEF TemplateInv, PassInv, Tracks
  <2>4. staticAdmit(pass.tpl.spec) /\ Approvable(pass.tpl)
    BY <1>1, <2>1, <2>2, <2>3 DEF Sound
  <2>5. QED
    BY <2>1, <2>2, <2>3, <2>4 DEF Approvable
<1>2. ASSUME TemplateInv, [Next]_vars
      PROVE  [LET now == template'.status IN
              now # template.status /\ now.admission = "Approved" =>
                /\ template.live /\ staticAdmit(template'.spec)
                /\ template'.spec.volume => template'.spec.reviewed
                /\ \/ ~template'.spec.resolve /\ now.digest = None
                   \/ now.ref = template'.spec.ref /\ <<now.ref, now.digest>> \in denoted
                /\ now.hash = TemplateHash(template'.spec, now.digest)]_vars
  BY <1>1, <1>2
<1>3. QED
  BY <1>2, TemplateInvariance, PTL DEF Spec, ApprovedAsItIs
=============================================================================
