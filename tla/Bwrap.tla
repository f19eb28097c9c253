--------------------------------- MODULE Bwrap ---------------------------------
(***************************************************************************)
(* pkg/bwrap: what a FilesystemSpec may ask for (Validate), the mounts     *)
(* bubblewrap is told to make (Generate), and what then shows where.       *)
(*                                                                         *)
(* A path is the sequence of its segments, and the root is <<>>.  A spec   *)
(* is a record [tier, ws, mounts, system, hide]; a mount has a path, a     *)
(* source and a flag, a source is a volume and whether its subPath is in   *)
(* canonical form and there.                                               *)
(***************************************************************************)
EXTENDS Integers, Sequences, FiniteSets, Functions

CONSTANTS
  Segments,      \* the names specs and requests use
  Volumes,       \* the volumes the template declares
  MaxMounts

Names ==
  Segments \cup {"usr", "bin", "etc", "ssl", "passwd", "group", "resolv.conf", "proc", "dev", "tmp",
                 "run", "home", "jdix", "jdix-init", "opt", "var", "lib"}
Path == Seq(Names)
Source == [volume: Names, canonical: BOOLEAN, there: BOOLEAN]
FilesystemSpec ==
  [tier: {"userns", "filesystem", "capadmin", "chroot"}, ws: Path,
   mounts: Seq([path: Path, source: Source, readOnly: BOOLEAN]),
   system: Seq(Path), hide: Seq(Path)]

Root == <<>>
DefaultSystemPaths == <<<<"usr">>, <<"bin">>, <<"etc", "ssl">>>>
IPCMount == <<"run", "jdix">>
InitTarget == <<"jdix-init">>
Skeleton == <<<<"etc", "passwd">>, <<"etc", "group">>, <<"etc", "resolv.conf">>>>

\* An absolute path in canonical form, with no traversal segments.
isAbsClean(p) == Range(p) \cap {".", "..", ""} = {}

contains(parent, child) ==
  Len(parent) <= Len(child) /\ \A i \in 1..Len(parent) : parent[i] = child[i]
overlaps(a, b) == contains(a, b) \/ contains(b, a)

protectedTargets ==
  {<<"proc">>, <<"dev">>, <<"opt", "jdix">>, <<"var", "lib", "jdix">>, IPCMount, InitTarget}
    \cup Range(Skeleton)

shadowable(spec) == Range(DefaultSystemPaths) \cup {spec.ws}

-----------------------------------------------------------------------------
(* Validate.                                                               *)

Free(p) == isAbsClean(p) /\ p # Root /\ \A t \in protectedTargets : ~overlaps(p, t)

ValidWorkspace(spec) == Free(spec.ws)

ValidSystemPaths(spec) == Range(spec.system) \subseteq Range(DefaultSystemPaths)

\* A mount may be inside a system path, the workspace or another mount, and
\* replaces none of the first two.
ValidMount(spec, i) ==
  LET m == spec.mounts[i]
  IN /\ Free(m.path)
     /\ \A j \in 1..(i - 1) : spec.mounts[j].path # m.path
     /\ \A sh \in shadowable(spec) : ~contains(m.path, sh)
     /\ m.source.volume \in Volumes /\ m.source.canonical

ValidHide(spec, h) ==
  /\ \A i \in DOMAIN spec.mounts : ~contains(h, spec.mounts[i].path)
  /\ Free(h)
  /\ \A sh \in shadowable(spec) : ~contains(h, sh)

Validate(spec) ==
  /\ spec.tier = "chroot" => spec.mounts = <<>>
  /\ ValidWorkspace(spec)
  /\ Len(spec.mounts) <= MaxMounts
  /\ ValidSystemPaths(spec)
  /\ \A i \in DOMAIN spec.mounts : ValidMount(spec, i)
  /\ \A h \in Range(spec.hide) : ValidHide(spec, h)

-----------------------------------------------------------------------------
(* Generate.                                                               *)

Bind(op, from, target) == [op |-> op, from |-> from, target |-> target]

\* Mutant: mounts are made in the order they are asked for.
AsAsked(mounts) == mounts

\* The stable sort that puts parents before their children.  Mounts of one
\* depth, which the code orders by name, stay as they are asked for.
Before(mounts, i, j) ==
  \/ Len(mounts[i].path) < Len(mounts[j].path)
  \/ Len(mounts[i].path) = Len(mounts[j].path) /\ i < j

Rank(mounts, i) == Cardinality({j \in DOMAIN mounts : Before(mounts, j, i)}) + 1

orderedMounts(mounts) ==
  [k \in DOMAIN mounts |-> mounts[CHOOSE i \in DOMAIN mounts : Rank(mounts, i) = k]]

Each(paths, op, from) == [i \in DOMAIN paths |-> Bind(op, from, paths[i])]

SystemBinds(spec) ==
  Each(IF spec.system = <<>> THEN DefaultSystemPaths ELSE spec.system, "ro-bind-try", "system")
    \o Each(Skeleton, "ro-bind", "skeleton")

PlatformBinds(spec) ==
  <<Bind(IF spec.tier = "filesystem" THEN "ro-bind" ELSE "proc", "platform", <<"proc">>),
    Bind("dev", "platform", <<"dev">>),
    Bind("tmpfs", "scratch", <<"tmp">>),
    Bind("tmpfs", "scratch", <<"run">>),
    Bind("tmpfs", "scratch", <<"home">>),
    Bind("ro-bind", "platform", InitTarget),
    Bind("bind", "platform", IPCMount)>>

MountBind(m) == Bind(IF m.readOnly THEN "ro-bind" ELSE "bind", m.source.volume, m.path)

TenantBinds(spec) ==
  LET ms == orderedMounts(spec.mounts)
  IN <<Bind("bind", "workspace", spec.ws)>> \o [i \in DOMAIN ms |-> MountBind(ms[i])]

\* isDir asks the Pod, not the sandbox.
HideBinds(spec, podDirs) ==
  [i \in DOMAIN spec.hide |->
     Bind(IF spec.hide[i] \in podDirs THEN "tmpfs" ELSE "ro-bind", "nothing", spec.hide[i])]

Generate(spec, podDirs) ==
  SystemBinds(spec) \o PlatformBinds(spec) \o TenantBinds(spec) \o HideBinds(spec, podDirs)

\* bwrap makes the mounts in order, and a later one covers an earlier one:
\* what shows at p is the last mount at p or above it.
Shown(argv, p) ==
  LET covers == {i \in DOMAIN argv : contains(argv[i].target, p)}
  IN argv[CHOOSE i \in covers : \A j \in covers : j <= i]

-----------------------------------------------------------------------------
(* Properties of one spec.                                                 *)

\* What Validate accepts shows as it was asked for, however mounts nest and
\* in whatever order they come: every mount, the workspace, every path hidden
\* and every path of the platform (Validate with orderedMounts).
ShowsAsAsked(spec, podDirs) ==
  LET argv == Generate(spec, podDirs)
      Shows(p, from) == Shown(argv, p) = Bind(Shown(argv, p).op, from, p)
  IN /\ Shows(spec.ws, "workspace")
     /\ \A i \in DOMAIN spec.mounts :
          /\ Shows(spec.mounts[i].path, spec.mounts[i].source.volume)
          /\ (Shown(argv, spec.mounts[i].path).op = "ro-bind") = spec.mounts[i].readOnly
     /\ \A h \in Range(spec.hide) : Shown(argv, h).from = "nothing"
     /\ \A p \in {<<"proc">>, <<"dev">>, InitTarget, IPCMount} : Shows(p, "platform")
     /\ \A p \in Range(Skeleton) : Shows(p, "skeleton")
=============================================================================
