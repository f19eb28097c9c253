------------------------------ MODULE Filesystem ------------------------------
(***************************************************************************)
(* A sandbox's filesystem: execd builds it from the spec (launch and       *)
(* configureInit, over pkg/bwrap), then jdix-init's file handlers          *)
(* (pkg/initd/files.go, over pkg/safepath) and the tenant's own processes  *)
(* change it at the same time.                                             *)
(*                                                                         *)
(* The tree gives the kind of every path of a finite set: a directory, a   *)
(* file, a symlink to a file of its own root ("inside") or out of it       *)
(* ("outside"), or nothing.  Handlers stop where they make a system call   *)
(* whose result the next one relies on.                                    *)
(***************************************************************************)
EXTENDS Bwrap

CONSTANTS
  Specs,         \* what templates ask for
  Busy,          \* the specs whose files are also used
  PodDirs,       \* the directories of the Pod, as isDir sees them
  Nodes,         \* the paths of the tree
  Seeds,         \* what the sources of the mounts hold: path to kind
  Requests, Asks,
  MaxMoves       \* bound on what the tenant's processes do

\* path.Clean of an absolute path.
Clean(p) ==
  LET upTo[k \in 0..Len(p)] ==
        IF k = 0 THEN Root
        ELSE IF p[k] = "." THEN upTo[k - 1]
        ELSE IF p[k] # ".." THEN Append(upTo[k - 1], p[k])
        ELSE IF upTo[k - 1] = Root THEN Root
        ELSE SubSeq(upTo[k - 1], 1, Len(upTo[k - 1]) - 1)
  IN upTo[Len(p)]

NoPath == <<"">>

Kinds == {"none", "dir", "file", "inside", "outside"}
Ops == {"get", "list", "put", "delete", "delete_all"}

ASSUME SpecsAssumption == Busy \subseteq Specs /\ \A s \in Specs : s \in FilesystemSpec

\* The paths of the tree are clean, and their parents are paths of the tree.
ASSUME NodesAssumption ==
  \A n \in Nodes : n \in Path /\ Clean(n) = n /\ \A k \in 0..Len(n) : SubSeq(n, 1, k) \in Nodes

ASSUME AsksAssumption ==
  /\ Asks # {}
  /\ \A a \in Asks : a \in [op: Ops, path: Path] /\ (a.path = NoPath \/ Clean(a.path) \in Nodes)

ASSUME SeedsAssumption == MaxMoves \in Nat /\ \A n \in DOMAIN Seeds : Seeds[n] \in Kinds

\* The tree has the mount points, and does not tell what a spec hides.
ASSUME BusyAssumption ==
  \A s \in Busy : /\ s.hide = <<>>
                  /\ s.ws \in Nodes /\ \A i \in DOMAIN s.mounts : s.mounts[i].path \in Nodes

VARIABLES
  spec,          \* what the sandbox is bound with
  phase,         \* execd's launch: "asked", "launched", "ready" or "failed"
  roots,         \* jdix-init's roots
  tree,
  req,           \* the file requests
  moves

vars == <<spec, phase, roots, tree, req, moves>>

Answers == {"none", "ok", "path_forbidden", "path_escape", "not_found", "io_error", "is_directory",
            "not_a_directory", "read_only", "root_delete", "cut"}
Handling == [at: {"idle", "look", "make", "open", "copy", "remove", "done"}, ask: Asks,
             k: Nat, answer: Answers, crossed: BOOLEAN]

TypeOK ==
  /\ spec \in Specs
  /\ phase \in {"asked", "launched", "ready", "failed"}
  /\ roots \subseteq [path: Path, readOnly: BOOLEAN]
  /\ tree \in [Nodes -> Kinds]
  /\ req \in [Requests -> Handling]
  /\ moves \in 0..MaxMoves

Idle == [at |-> "idle", ask |-> CHOOSE a \in Asks : TRUE, k |-> 0, answer |-> "none",
         crossed |-> FALSE]

Init ==
  /\ spec \in Specs
  /\ phase = "asked"
  /\ roots = {}
  /\ tree = [n \in Nodes |-> "none"]
  /\ req = [r \in Requests |-> Idle]
  /\ moves = 0

-----------------------------------------------------------------------------
(* execd: launch and configureInit.                                        *)

Argv == Generate(spec, PodDirs)

MountPoints == {spec.ws} \cup {spec.mounts[i].path : i \in DOMAIN spec.mounts}

\* What bwrap's mounts leave: the mount points, their parents, and what the
\* sources hold.
Mounted ==
  [n \in Nodes |->
     IF \E t \in MountPoints : contains(n, t) THEN "dir"
     ELSE IF n \in DOMAIN Seeds /\ (\E t \in MountPoints : contains(t, n)) THEN Seeds[n]
     ELSE "none"]

\* The tier without a PID namespace pins the sources before it starts bwrap,
\* and the others leave a missing one for bwrap to trip over.
SourcesThere == \A i \in DOMAIN spec.mounts : spec.mounts[i].source.there

launch ==
  /\ phase = "asked"
  /\ IF Validate(spec) /\ SourcesThere
       THEN phase' = "launched" /\ tree' = Mounted
       ELSE phase' = "failed" /\ UNCHANGED tree
  /\ UNCHANGED <<spec, roots, req, moves>>

Roots ==
  {[path |-> spec.ws, readOnly |-> FALSE]}
    \cup {[path |-> spec.mounts[i].path, readOnly |-> spec.mounts[i].readOnly]
            : i \in DOMAIN spec.mounts}

configureInit ==
  /\ phase = "launched"
  /\ phase' = "ready"
  /\ roots' = Roots
  /\ UNCHANGED <<spec, tree, req, moves>>

-----------------------------------------------------------------------------
(* Paths.                                                                  *)

NoRoot == [path |-> NoPath, readOnly |-> TRUE]

Matching(p) == {r \in roots : contains(r.path, Clean(p))}

\* Mutant: the shortest root is taken.
ShortestRoot(p) ==
  IF p = NoPath \/ Matching(p) = {} THEN NoRoot
  ELSE CHOOSE r \in Matching(p) : \A o \in Matching(p) : Len(r.path) <= Len(o.path)

resolveRoot(p) ==
  IF p = NoPath \/ Matching(p) = {} THEN NoRoot
  ELSE CHOOSE r \in Matching(p) : \A o \in Matching(p) : Len(o.path) <= Len(r.path)

Above(n) == {m \in Nodes : contains(m, n) /\ m # n}
Below(n) == {m \in Nodes : contains(n, m) /\ m # n}

\* The kernel's view: what is written at n goes to the mount that shows there.
Writable(bind) == bind.op \in {"bind", "tmpfs"}
Frozen(n) == ~Writable(Shown(Argv, n))

\* What the walk to n meets before n: directories, or the first of another kind.
Way(n) ==
  LET others == {m \in Above(n) : tree[m] # "dir"}
  IN IF others = {} THEN "dir"
     ELSE tree[CHOOSE m \in others : \A o \in others : Len(m) <= Len(o)]

\* OpenBeneath for reading: openat2 follows a symlink that stays in the root.
OpenBeneath(n) ==
  IF Way(n) \in {"file", "inside"} THEN "io_error"
  ELSE IF Way(n) = "none" \/ (Way(n) = "dir" /\ tree[n] = "none") THEN "not_found"
  ELSE IF Way(n) = "outside" \/ tree[n] = "outside" THEN "path_escape" ELSE "ok"

\* OpenBeneath for writing, which creates the file.
Create(n) ==
  IF Way(n) = "dir" /\ tree[n] = "none" THEN IF Frozen(n) THEN "io_error" ELSE "ok"
  ELSE IF OpenBeneath(n) = "ok" /\ (tree[n] = "dir" \/ Frozen(n)) THEN "io_error"
  ELSE OpenBeneath(n)

\* Mutant: a directory another request has just made is an error.
MkdirOnce(n) ==
  IF Way(n) = "none" THEN "not_found"
  ELSE IF Way(n) # "dir" \/ tree[n] # "none" \/ Frozen(n) THEN "io_error" ELSE "ok"

\* os.Mkdir, where a path that exists is no error.
Mkdir(n) ==
  IF Way(n) = "none" THEN "not_found"
  ELSE IF Way(n) # "dir" \/ (tree[n] = "none" /\ Frozen(n)) THEN "io_error" ELSE "ok"

\* What RemoveAll cannot remove: a mount point, what is mounted read-only, and
\* every directory above one of them.
Held(n) ==
  LET stays == {m \in Below(n) \cup {n} : tree[m] # "none" /\ (m \in MountPoints \/ Frozen(m))}
  IN {m \in Below(n) \cup {n} : \E s \in stays : contains(m, s)}

-----------------------------------------------------------------------------
(* The handlers.                                                           *)

\* h is what is known of the request.
Answer(h, a) == [h EXCEPT !.at = "done", !.answer = a]

\* Something removed from, or put in the way of, the path of an upload.
Crosses(new, n) ==
  \/ \E m \in Above(n) : new[m] # tree[m] /\ new[m] # "dir"
  \/ new[n] # tree[n] /\ new[n] = "dir"

Handled(r, new, h) ==
  /\ tree' = new
  /\ req' = [x \in Requests |->
               IF x = r THEN h
               ELSE [req[x] EXCEPT !.crossed =
                       @ \/ (req[x].at \notin {"idle", "done"} /\ Crosses(new, Clean(req[x].ask.path)))]]
  /\ UNCHANGED <<spec, phase, roots, moves>>

Takes(r, ask) == phase = "ready" /\ spec \in Busy /\ req[r].at = "idle" /\ ask \in Asks

Taken(r, ask) == [req[r] EXCEPT !.ask = ask]

Target(r) == Clean(req[r].ask.path)

handleFileGet(r, ask) ==
  LET n == Clean(ask.path)
      opened == IF resolveRoot(ask.path) = NoRoot THEN "path_forbidden" ELSE OpenBeneath(n)
  IN /\ Takes(r, ask) /\ ask.op = "get"
     /\ Handled(r, tree, Answer(Taken(r, ask),
                                IF opened = "ok" /\ tree[n] = "dir" THEN "is_directory" ELSE opened))

handleFileList(r, ask) ==
  LET n == IF ask.path = NoPath THEN spec.ws ELSE Clean(ask.path)
      opened == IF resolveRoot(n) = NoRoot THEN "path_forbidden" ELSE OpenBeneath(n)
  IN /\ Takes(r, ask) /\ ask.op = "list"
     /\ Handled(r, tree, Answer(Taken(r, ask),
                                IF opened = "ok" /\ tree[n] # "dir" THEN "not_a_directory" ELSE opened))

\* Where an upload goes once its directories up to k are there.
After(h, k) ==
  [h EXCEPT !.k = k, !.at = IF k = Len(Clean(h.ask.path)) THEN "open" ELSE "look"]

handleFilePut(r, ask) ==
  LET n == Clean(ask.path)
      root == resolveRoot(ask.path)
      blocked == tree[n] \in {"dir", "outside"}
                   \/ \E m \in Above(n) : tree[m] \notin {"none", "dir"}
  IN /\ Takes(r, ask) /\ ask.op = "put"
     /\ Handled(r, tree,
          IF root = NoRoot THEN Answer(Taken(r, ask), "path_forbidden")
          ELSE IF root.readOnly THEN Answer(Taken(r, ask), "read_only")
          ELSE IF n = root.path THEN Answer(Taken(r, ask), "is_directory")
          ELSE After([Taken(r, ask) EXCEPT !.crossed = blocked], Len(root.path) + 1))

\* mkdirAllBeneath looks at each directory, and makes the ones it cannot open.
mkdirLook(r) ==
  LET dir == SubSeq(Target(r), 1, req[r].k)
      opened == OpenBeneath(dir)
  IN /\ req[r].at = "look"
     /\ Handled(r, tree, IF opened = "ok" THEN After(req[r], req[r].k + 1)
                         ELSE IF opened = "path_escape" THEN Answer(req[r], opened)
                         ELSE [req[r] EXCEPT !.at = "make"])

mkdirMake(r) ==
  LET dir == SubSeq(Target(r), 1, req[r].k)
      made == Mkdir(dir)
  IN /\ req[r].at = "make"
     /\ IF made # "ok" THEN Handled(r, tree, Answer(req[r], made))
        ELSE Handled(r, [tree EXCEPT ![dir] = IF @ = "none" THEN "dir" ELSE @],
                     After(req[r], req[r].k + 1))

putOpen(r) ==
  LET n == Target(r)
      opened == Create(n)
  IN /\ req[r].at = "open"
     /\ IF opened # "ok" THEN Handled(r, tree, Answer(req[r], opened))
        ELSE Handled(r, [tree EXCEPT ![n] = IF @ = "none" THEN "file" ELSE @],
                     [req[r] EXCEPT !.at = "copy"])

\* The body ends, or it is too long or the client goes.
putCopy(r) ==
  /\ req[r].at = "copy"
  /\ \E a \in {"ok", "cut"} : Handled(r, tree, Answer(req[r], a))

handleFileDelete(r, ask) ==
  LET n == Clean(ask.path)
      root == resolveRoot(ask.path)
  IN /\ Takes(r, ask) /\ ask.op \in {"delete", "delete_all"}
     /\ Handled(r, tree,
          IF root = NoRoot THEN Answer(Taken(r, ask), "path_forbidden")
          ELSE IF root.readOnly THEN Answer(Taken(r, ask), "read_only")
          ELSE IF n = root.path THEN Answer(Taken(r, ask), "root_delete")
          ELSE IF OpenBeneath(n) = "ok" THEN [Taken(r, ask) EXCEPT !.at = "remove"]
          ELSE Answer(Taken(r, ask), OpenBeneath(n)))

deleteRemove(r) ==
  LET n == Target(r)
      gone == Below(n) \cup {n}
      full == \E m \in Below(n) : tree[m] # "none"
  IN /\ req[r].at = "remove"
     /\ IF req[r].ask.op = "delete_all"
        THEN Handled(r, [m \in Nodes |-> IF m \in gone \ Held(n) THEN "none" ELSE tree[m]],
                     Answer(req[r], IF Held(n) = {} THEN "ok" ELSE "io_error"))
        ELSE IF tree[n] = "none" THEN Handled(r, tree, Answer(req[r], "not_found"))
        ELSE IF full \/ Held(n) # {} THEN Handled(r, tree, Answer(req[r], "io_error"))
        ELSE Handled(r, [tree EXCEPT ![n] = "none"], Answer(req[r], "ok"))

\* A process of the tenant makes or removes a file or a directory.
Process(n, kind) ==
  /\ phase = "ready" /\ spec \in Busy /\ moves < MaxMoves
  /\ resolveRoot(n) # NoRoot /\ n \notin MountPoints /\ ~Frozen(n)
  /\ Way(n) = "dir"
  /\ (tree[n] = "none") # (kind = "none")
  /\ \A m \in Below(n) : tree[m] = "none"
  /\ tree' = [tree EXCEPT ![n] = kind]
  /\ req' = [x \in Requests |->
               [req[x] EXCEPT !.crossed =
                  @ \/ (req[x].at \notin {"idle", "done"} /\ Crosses(tree', Target(x)))]]
  /\ moves' = moves + 1
  /\ UNCHANGED <<spec, phase, roots>>

Next ==
  \/ launch
  \/ configureInit
  \/ \E r \in Requests, ask \in Asks :
       handleFileGet(r, ask) \/ handleFileList(r, ask) \/ handleFilePut(r, ask) \/ handleFileDelete(r, ask)
  \/ \E r \in Requests : mkdirLook(r) \/ mkdirMake(r) \/ putOpen(r) \/ putCopy(r) \/ deleteRemove(r)
  \/ \E n \in Nodes, kind \in {"none", "dir", "file"} : Process(n, kind)

Spec == Init /\ [][Next]_vars

-----------------------------------------------------------------------------
(* Properties.                                                             *)

\* Whatever execd launches shows as its spec asked (see ShowsAsAsked).
MountsShow == phase \in {"launched", "ready"} => ShowsAsAsked(spec, PodDirs)

\* The view of the file API is the one bwrap mounted: for every path, the root
\* resolveRoot takes is the mount that shows there, with the same flag, or
\* the path is a hidden one (configureInit: "The file API's view must match
\* what bwrap actually mounted").
RootsMatchMounts ==
  phase = "ready" =>
    LET argv == Argv
    IN \A n \in {m \in Nodes : resolveRoot(m) # NoRoot} :
         LET shown == Shown(argv, n)
         IN \/ shown.from = "nothing"
            \/ shown.target = resolveRoot(n).path /\ Writable(shown) # resolveRoot(n).readOnly

\* An upload to a writable root whose path is free succeeds or is cut off,
\* whoever else makes directories on the way: it fails otherwise only when
\* something on its path was removed or put in its way meanwhile
\* (mkdirAllBeneath, os.IsExist).
UploadsLand ==
  \A r \in Requests :
    req[r].at = "done" /\ req[r].ask.op = "put" /\ ~req[r].crossed =>
      req[r].answer \in {"ok", "cut", "read_only", "path_forbidden", "is_directory"}

-----------------------------------------------------------------------------
(* What comments and messages of the code say and the code does not do.    *)

\* What is mounted inside a directory survives a request about the directory:
\* no request removes what is under another root than its own (handleFileDelete
\* refuses "to delete a mount root").
DeleteStaysInItsRoot ==
  [][\A n \in Nodes :
       tree'[n] = "none" /\ tree[n] # "none" =>
         \/ moves' # moves
         \/ \E r \in Requests : req[r].at = "remove" /\ req'[r].at = "done"
                                  /\ resolveRoot(Target(r)) = resolveRoot(n)]_vars

\* A symlink is refused when a caller reads through it (handleFileList's
\* listing: "visible in a listing but will be refused").
LinksAreRefused ==
  [][\A r \in Requests :
       req[r].at = "idle" /\ req'[r].at = "done" /\ req'[r].ask.op = "get" /\ req'[r].answer = "ok" =>
         tree[Clean(req'[r].ask.path)] # "inside"]_vars

\* A system path is never replaced wholesale (shadowable).
SystemPathsStay ==
  phase = "ready" /\ spec.system = <<>> =>
    \A i \in DOMAIN DefaultSystemPaths : Shown(Argv, DefaultSystemPaths[i]).from = "system"
=============================================================================
