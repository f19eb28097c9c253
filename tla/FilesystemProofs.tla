---------------------------- MODULE FilesystemProofs ----------------------------
(***************************************************************************)
(* What a spec asks for is what shows in the sandbox, and what the file    *)
(* API works on, for every spec, every tree and every set of requests.     *)
(***************************************************************************)
EXTENDS Filesystem, FiniteSetTheorems, WellFoundedInduction, TLAPS

-----------------------------------------------------------------------------
(* Paths.                                                                  *)

\* contains (validate.go) orders paths.
LEMMA ContainsOrder ==
  ASSUME NEW a \in Path, NEW b \in Path, NEW c \in Path
  PROVE  /\ contains(a, a)
         /\ contains(a, b) /\ contains(b, c) => contains(a, c)
         /\ contains(a, b) /\ Len(a) = Len(b) => a = b
PROOF
<1>1. Len(a) \in Nat /\ Len(b) \in Nat /\ Len(c) \in Nat
  BY DEF Path
<1>2. contains(a, a)
  BY <1>1 DEF contains
<1>3. ASSUME contains(a, b), contains(b, c) PROVE contains(a, c)
  BY <1>1, <1>3 DEF contains
<1>4. ASSUME contains(a, b), Len(a) = Len(b) PROVE a = b
  <2>1. a = [i \in 1..Len(a) |-> a[i]] /\ b = [i \in 1..Len(b) |-> b[i]]
    BY DEF Path
  <2>2. \A i \in 1..Len(a) : a[i] = b[i]
    BY <1>4 DEF contains
  <2>3. QED
    BY <1>4, <2>1, <2>2
<1>5. QED
  BY <1>2, <1>3, <1>4

\* Of two paths above one path, one is above the other.
LEMMA ContainsChain ==
  ASSUME NEW a \in Path, NEW b \in Path, NEW c \in Path,
         contains(a, c), contains(b, c), Len(a) <= Len(b)
  PROVE  contains(a, b)
PROOF
<1>1. Len(a) \in Nat /\ Len(b) \in Nat /\ Len(c) \in Nat
  BY DEF Path
<1>2. QED
  BY <1>1 DEF contains

-----------------------------------------------------------------------------
(* What shows.                                                             *)

BindOp == {"ro-bind", "ro-bind-try", "bind", "tmpfs", "proc", "dev"}
BindFrom == {"system", "skeleton", "platform", "scratch", "workspace", "nothing"} \cup Names
Binding == [op: BindOp, from: BindFrom, target: Path]

\* The last of bwrap's mounts at or above a path is what shows there.
LEMMA ShownIs ==
  ASSUME NEW argv \in Seq(Binding), NEW p, NEW i \in 1..Len(argv), contains(argv[i].target, p),
         \A j \in (i + 1)..Len(argv) : ~contains(argv[j].target, p)
  PROVE  Shown(argv, p) = argv[i]
PROOF
<1> DEFINE covers == {j \in DOMAIN argv : contains(argv[j].target, p)}
<1>1. DOMAIN argv = 1..Len(argv) /\ Len(argv) \in Nat
  OBVIOUS
<1>2. i \in covers /\ \A j \in covers : j <= i
  BY <1>1
<1>3. \A k \in covers : (\A j \in covers : j <= k) => k = i
  BY <1>1, <1>2
<1>4. (CHOOSE k \in covers : \A j \in covers : j <= k) = i
  BY <1>2, <1>3
<1>5. QED
  BY <1>4 DEF Shown

Covered(argv, p) == \E i \in 1..Len(argv) : contains(argv[i].target, p)

\* A set of numbers that is not empty has a smallest one.
LEMMA SmallestOf ==
  ASSUME NEW S \in SUBSET Nat, S # {}
  PROVE  \E m \in S : \A n \in S : m <= n
PROOF
<1>1. PICK m \in S : \A n \in S : ~(<<n, m>> \in OpToRel(<, Nat))
  BY NatLessThanWellFounded, WFMin, Zenon
<1>2. \A n \in S : <<n, m>> \in OpToRel(<, Nat) <=> n < m
  BY DEF OpToRel
<1>3. \A n \in S : ~(n < m)
  BY <1>1, <1>2, Zenon
<1>4. \A n \in S : m <= n
  BY <1>3
<1>5. QED
  BY <1>4

\* What covers a path has a last one.
LEMMA LastCover ==
  ASSUME NEW argv \in Seq(Binding), NEW p, Covered(argv, p)
  PROVE  \E i \in 1..Len(argv) : /\ contains(argv[i].target, p)
                                 /\ \A j \in (i + 1)..Len(argv) : ~contains(argv[j].target, p)
PROOF
<1> DEFINE n == Len(argv)
           after == {k \in 0..(n - 1) : contains(argv[n - k].target, p)}
<1>1. n \in Nat
  OBVIOUS
<1>2. PICK i \in 1..n : contains(argv[i].target, p)
  BY DEF Covered
<1>3. n - i \in 0..(n - 1) /\ n - (n - i) = i
  BY <1>1, <1>2
<1>4. n - i \in after /\ after \in SUBSET Nat
  BY <1>1, <1>2, <1>3
<1>5. PICK k \in after : \A l \in after : k <= l
  <2> HIDE DEF after
  <2>1. QED
    BY <1>4, SmallestOf
<1>6. k \in 0..(n - 1) /\ n - k \in 1..n /\ contains(argv[n - k].target, p)
  BY <1>1, <1>5
<1>7. ASSUME NEW j \in (n - k + 1)..n, contains(argv[j].target, p)
      PROVE  FALSE
  <2>1. n - j \in 0..(n - 1) /\ n - (n - j) = j /\ n - j < k
    BY <1>1, <1>6, <1>7
  <2>2. n - j \in after
    BY <1>7, <2>1
  <2>3. k <= n - j
    BY <1>5, <2>2, Zenon
  <2>4. QED
    BY <1>6, <2>1, <2>3
<1>8. QED
  BY <1>6, <1>7

\* One list of mounts after the other.
LEMMA Joined ==
  ASSUME NEW a \in Seq(Binding), NEW b \in Seq(Binding)
  PROVE  /\ a \o b \in Seq(Binding) /\ Len(a \o b) = Len(a) + Len(b)
         /\ \A i \in 1..Len(a) : (a \o b)[i] = a[i]
         /\ \A i \in 1..Len(b) : (a \o b)[Len(a) + i] = b[i]
PROOF
  OBVIOUS

\* Mounts made later decide where they cover.
LEMMA ShownLater ==
  ASSUME NEW a \in Seq(Binding), NEW b \in Seq(Binding), NEW p
  PROVE  /\ Covered(b, p) => Shown(a \o b, p) = Shown(b, p)
         /\ Covered(a, p) /\ ~Covered(b, p) => Shown(a \o b, p) = Shown(a, p)
         /\ Covered(a \o b, p) <=> Covered(a, p) \/ Covered(b, p)
PROOF
<1> DEFINE c == a \o b
<1>1. Len(a) \in Nat /\ Len(b) \in Nat
  OBVIOUS
<1>2. /\ c \in Seq(Binding) /\ Len(c) = Len(a) + Len(b)
      /\ \A i \in 1..Len(a) : c[i] = a[i]
      /\ \A i \in 1..Len(b) : c[Len(a) + i] = b[i]
  BY Joined
<1>3. \A j \in 1..Len(c) : \/ j \in 1..Len(a) /\ c[j] = a[j]
                           \/ j - Len(a) \in 1..Len(b) /\ c[j] = b[j - Len(a)]
  BY <1>1, <1>2
<1> HIDE DEF c
<1>4. Covered(c, p) <=> Covered(a, p) \/ Covered(b, p)
  <2>1. \A i \in 1..Len(a) : i \in 1..Len(c)
    BY <1>1, <1>2
  <2>2. \A i \in 1..Len(b) : Len(a) + i \in 1..Len(c)
    BY <1>1, <1>2
  <2>3. QED
    BY <1>2, <1>3, <2>1, <2>2, Zenon DEF Covered
<1>5. ASSUME Covered(b, p) PROVE Shown(c, p) = Shown(b, p)
  <2>1. PICK i \in 1..Len(b) : /\ contains(b[i].target, p)
                               /\ \A j \in (i + 1)..Len(b) : ~contains(b[j].target, p)
    BY <1>5, LastCover
  <2>2. Shown(b, p) = b[i]
    BY <2>1, ShownIs
  <2>3. Len(a) + i \in 1..Len(c) /\ c[Len(a) + i] = b[i]
    BY <1>1, <1>2, <2>1
  <2>4. ASSUME NEW j \in (Len(a) + i + 1)..Len(c) PROVE ~contains(c[j].target, p)
    <3>1. j - Len(a) \in (i + 1)..Len(b) /\ c[j] = b[j - Len(a)]
      BY <1>1, <1>2, <1>3, <2>4
    <3>2. QED
      BY <2>1, <3>1
  <2>5. Shown(c, p) = c[Len(a) + i]
    BY <1>2, <2>1, <2>3, <2>4, ShownIs, ZenonT(30)
  <2>6. QED
    BY <2>2, <2>3, <2>5
<1>6. ASSUME Covered(a, p), ~Covered(b, p) PROVE Shown(c, p) = Shown(a, p)
  <2>1. PICK i \in 1..Len(a) : /\ contains(a[i].target, p)
                               /\ \A j \in (i + 1)..Len(a) : ~contains(a[j].target, p)
    BY <1>6, LastCover
  <2>2. Shown(a, p) = a[i]
    BY <2>1, ShownIs
  <2>3. i \in 1..Len(c) /\ c[i] = a[i]
    BY <1>1, <1>2
  <2>4. ASSUME NEW j \in (i + 1)..Len(c) PROVE ~contains(c[j].target, p)
    <3>1. j \in 1..Len(c)
      BY <1>1, <1>2, <2>1
    <3>2. CASE j \in 1..Len(a) /\ c[j] = a[j]
      BY <1>1, <2>1, <2>4, <3>2
    <3>3. CASE j - Len(a) \in 1..Len(b) /\ c[j] = b[j - Len(a)]
      BY <1>6, <3>3 DEF Covered
    <3>4. QED
      BY <1>3, <3>1, <3>2, <3>3
  <2>5. Shown(c, p) = c[i]
    BY <1>2, <2>1, <2>3, <2>4, ShownIs, ZenonT(30)
  <2>6. QED
    BY <2>2, <2>3, <2>5
<1>7. QED
  BY <1>4, <1>5, <1>6 DEF c

-----------------------------------------------------------------------------
(* The order of mounts.                                                    *)

MountRecord == [path: Path, source: Source, readOnly: BOOLEAN]
MountList == Seq(MountRecord)

\* A list of mounts, its paths, flags and volumes have their types.
LEMMA MountsTyped ==
  ASSUME NEW ms \in MountList
  PROVE  /\ Len(ms) \in Nat /\ DOMAIN ms = 1..Len(ms)
         /\ \A i \in 1..Len(ms) : /\ ms[i].path \in Path /\ ms[i].readOnly \in BOOLEAN
                                  /\ ms[i].source.volume \in Names /\ Len(ms[i].path) \in Nat
PROOF
<1>1. Len(ms) \in Nat /\ DOMAIN ms = 1..Len(ms) /\ \A i \in 1..Len(ms) : ms[i] \in MountRecord
  BY DEF MountList
<1>2. \A m \in MountRecord : m.path \in Path /\ m.readOnly \in BOOLEAN /\ m.source \in Source
  BY DEF MountRecord
<1>3. \A src \in Source : src.volume \in Names
  BY DEF Source
<1>4. \A p \in Path : Len(p) \in Nat
  BY DEF Path
<1>5. QED
  BY <1>1, <1>2, <1>3, <1>4

\* Before, the order of the stable sort, is total and strict.
LEMMA BeforeOrder ==
  ASSUME NEW ms \in MountList, NEW i \in DOMAIN ms, NEW j \in DOMAIN ms, NEW k \in DOMAIN ms
  PROVE  /\ ~Before(ms, i, i)
         /\ i # j => Before(ms, i, j) \/ Before(ms, j, i)
         /\ Before(ms, i, j) /\ Before(ms, j, k) => Before(ms, i, k)
PROOF
<1>1. /\ Len(ms[i].path) \in Nat /\ Len(ms[j].path) \in Nat /\ Len(ms[k].path) \in Nat
      /\ i \in Nat /\ j \in Nat /\ k \in Nat
  BY MountsTyped
<1>2. QED
  BY <1>1 DEF Before

\* Counting to n.
LEMMA IntervalSize ==
  ASSUME NEW n \in Nat
  PROVE  IsFiniteSet(1..n) /\ Cardinality(1..n) = n
PROOF
  BY FS_Interval

\* A mount's rank is a place of the list, and ranks are in the sort's order.
LEMMA RankOrder ==
  ASSUME NEW ms \in MountList, NEW i \in DOMAIN ms
  PROVE  /\ Rank(ms, i) \in DOMAIN ms
         /\ \A j \in DOMAIN ms : Before(ms, i, j) => Rank(ms, i) < Rank(ms, j)
PROOF
<1> DEFINE D == DOMAIN ms
           Ahead(x) == {y \in D : Before(ms, y, x)}
<1>1. D = 1..Len(ms) /\ Len(ms) \in Nat
  BY MountsTyped
<1>2. IsFiniteSet(D) /\ Cardinality(D) = Len(ms)
  <2>1. IsFiniteSet(1..Len(ms)) /\ Cardinality(1..Len(ms)) = Len(ms)
    BY <1>1, IntervalSize
  <2>2. QED
    BY <1>1, <2>1
<1>3. \A x \in D : IsFiniteSet(Ahead(x)) /\ Cardinality(Ahead(x)) \in Nat
  <2>1. \A x \in D : Ahead(x) \in SUBSET D
    OBVIOUS
  <2> HIDE DEF D, Ahead
  <2>2. QED
    BY <1>2, <2>1, FS_Subset, FS_CardinalityType
<1>4. Rank(ms, i) \in D
  <2>1. Ahead(i) \subseteq D \ {i}
    BY BeforeOrder
  <2>2. IsFiniteSet(D \ {i}) /\ Cardinality(D \ {i}) = Len(ms) - 1
    <3> HIDE DEF D
    <3>1. i \in D
      BY DEF D
    <3>2. QED
      BY <1>2, <3>1, FS_RemoveElement, Zenon
  <2>3. Cardinality(Ahead(i)) <= Len(ms) - 1
    <3> HIDE DEF D, Ahead
    <3>1. QED
      BY <2>1, <2>2, FS_Subset
  <2>4. Rank(ms, i) = Cardinality(Ahead(i)) + 1 /\ Cardinality(Ahead(i)) \in Nat
    BY <1>3 DEF Rank
  <2>5. Rank(ms, i) \in 1..Len(ms)
    BY <1>1, <2>3, <2>4
  <2>6. QED
    BY <1>1, <2>5
<1>5. ASSUME NEW j \in D, Before(ms, i, j) PROVE Rank(ms, i) < Rank(ms, j)
  <2>1. Ahead(i) \subseteq Ahead(j) /\ i \in Ahead(j) /\ i \notin Ahead(i)
    BY <1>5, BeforeOrder
  <2>2. Cardinality(Ahead(i)) <= Cardinality(Ahead(j)) /\ Cardinality(Ahead(i)) # Cardinality(Ahead(j))
    <3> HIDE DEF D, Ahead
    <3>1. QED
      BY <1>3, <1>5, <2>1, FS_Subset
  <2>3. Cardinality(Ahead(i)) \in Nat /\ Cardinality(Ahead(j)) \in Nat
    BY <1>3
  <2>4. QED
    BY <2>2, <2>3 DEF Rank
<1>6. QED
  BY <1>4, <1>5

\* orderedMounts has every mount, at its rank, and nothing else.
LEMMA OrderedMounts ==
  ASSUME NEW ms \in MountList
  PROVE  /\ DOMAIN orderedMounts(ms) = DOMAIN ms
         /\ \A i \in DOMAIN ms : orderedMounts(ms)[Rank(ms, i)] = ms[i]
         /\ \A k \in DOMAIN ms : \E i \in DOMAIN ms : Rank(ms, i) = k
PROOF
<1> DEFINE D == DOMAIN ms
           rank == [i \in D |-> Rank(ms, i)]
<1>1. D = 1..Len(ms) /\ Len(ms) \in Nat
  BY MountsTyped
<1>2. IsFiniteSet(D)
  BY <1>1, FS_Interval
<1>3. \A i, j \in D : Rank(ms, i) = Rank(ms, j) => i = j
  <2>1. SUFFICES ASSUME NEW i \in D, NEW j \in D, i # j PROVE Rank(ms, i) # Rank(ms, j)
    OBVIOUS
  <2>2. Rank(ms, i) \in D /\ Rank(ms, j) \in D
    BY RankOrder
  <2>3. Rank(ms, i) < Rank(ms, j) \/ Rank(ms, j) < Rank(ms, i)
    BY <2>1, BeforeOrder, RankOrder
  <2>4. QED
    BY <1>1, <2>2, <2>3
<1>4. rank \in [D -> D]
  BY RankOrder
<1>5. rank \in Injection(D, D)
  BY <1>3, <1>4 DEF Injection, IsInjective
<1>6. rank \in Surjection(D, D)
  <2> HIDE DEF rank, D
  <2>1. QED
    BY <1>2, <1>5, FS_Injection
<1>7. \A k \in D : \E i \in D : Rank(ms, i) = k
  BY <1>6, Zenon DEF Surjection
<1>8. ASSUME NEW i \in D PROVE orderedMounts(ms)[Rank(ms, i)] = ms[i]
  <2>1. Rank(ms, i) \in D
    BY RankOrder
  <2>2. (CHOOSE x \in D : Rank(ms, x) = Rank(ms, i)) = i
    BY <1>3
  <2>3. QED
    BY <2>1, <2>2, Zenon DEF orderedMounts
<1>9. QED
  BY <1>7, <1>8, Zenon DEF orderedMounts

-----------------------------------------------------------------------------
(* Generate.                                                               *)

\* A function on 1..n is a sequence of n.
LEMMA SeqOf ==
  ASSUME NEW T, NEW n \in Nat, NEW f \in [1..n -> T]
  PROVE  f \in Seq(T) /\ Len(f) = n
PROOF
  OBVIOUS

\* A bind has the type of one.
LEMMA BindTyped ==
  ASSUME NEW op \in BindOp, NEW from \in BindFrom, NEW p \in Path
  PROVE  Bind(op, from, p) \in Binding
PROOF
  BY DEF Bind, Binding

\* One bind per path is a list of binds.
LEMMA EachTyped ==
  ASSUME NEW paths \in Seq(Path), NEW op \in BindOp, NEW from \in BindFrom
  PROVE  Each(paths, op, from) \in Seq(Binding) /\ Len(Each(paths, op, from)) = Len(paths)
PROOF
<1>1. DOMAIN paths = 1..Len(paths) /\ Len(paths) \in Nat /\ \A i \in DOMAIN paths : paths[i] \in Path
  OBVIOUS
<1>2. \A i \in 1..Len(paths) : Bind(op, from, paths[i]) \in Binding
  BY <1>1, BindTyped
<1>3. Each(paths, op, from) \in [1..Len(paths) -> Binding]
  BY <1>1, <1>2 DEF Each
<1>4. QED
  BY <1>1, <1>3, SeqOf

\* The paths of the platform.
LEMMA PathsOfThePlatform ==
  /\ DefaultSystemPaths \in Seq(Path) /\ Skeleton \in Seq(Path)
  /\ InitTarget \in Path /\ IPCMount \in Path
  /\ <<"proc">> \in Path /\ <<"dev">> \in Path
  /\ <<"tmp">> \in Path /\ <<"run">> \in Path /\ <<"home">> \in Path
PROOF
<1>1. DefaultSystemPaths \in Seq(Path)
  BY DEF DefaultSystemPaths, Path, Names
<1>2. Skeleton \in Seq(Path)
  BY DEF Skeleton, Path, Names
<1>3. QED
  BY <1>1, <1>2 DEF InitTarget, IPCMount, Path, Names

\* Generate's groups other than the tenant's are lists of binds.
LEMMA BindsTyped ==
  ASSUME NEW s \in FilesystemSpec, NEW dirs
  PROVE  /\ SystemBinds(s) \in Seq(Binding) /\ PlatformBinds(s) \in Seq(Binding)
         /\ HideBinds(s, dirs) \in Seq(Binding)
         /\ Len(HideBinds(s, dirs)) = Len(s.hide)
         /\ \A i \in 1..Len(s.hide) : /\ HideBinds(s, dirs)[i].target = s.hide[i]
                                      /\ HideBinds(s, dirs)[i].from = "nothing"
PROOF
<1>1. SystemBinds(s) \in Seq(Binding)
  <2>1. s.system \in Seq(Path)
    BY DEF FilesystemSpec
  <2>2. "ro-bind-try" \in BindOp /\ "ro-bind" \in BindOp /\ "system" \in BindFrom
          /\ "skeleton" \in BindFrom
    BY DEF BindOp, BindFrom
  <2>3. Each(IF s.system = <<>> THEN DefaultSystemPaths ELSE s.system, "ro-bind-try", "system")
          \in Seq(Binding)
    BY <2>1, <2>2, EachTyped, PathsOfThePlatform
  <2>4. Each(Skeleton, "ro-bind", "skeleton") \in Seq(Binding)
    BY <2>2, EachTyped, PathsOfThePlatform
  <2>5. QED
    BY <2>3, <2>4 DEF SystemBinds
<1>2. PlatformBinds(s) \in Seq(Binding)
  <2>1. /\ {"ro-bind", "bind", "proc", "dev", "tmpfs"} \subseteq BindOp
        /\ {"platform", "scratch"} \subseteq BindFrom
    BY DEF BindOp, BindFrom
  <2>2. /\ Bind(IF s.tier = "filesystem" THEN "ro-bind" ELSE "proc", "platform", <<"proc">>) \in Binding
        /\ Bind("dev", "platform", <<"dev">>) \in Binding
        /\ Bind("tmpfs", "scratch", <<"tmp">>) \in Binding
        /\ Bind("tmpfs", "scratch", <<"run">>) \in Binding
        /\ Bind("tmpfs", "scratch", <<"home">>) \in Binding
        /\ Bind("ro-bind", "platform", InitTarget) \in Binding
        /\ Bind("bind", "platform", IPCMount) \in Binding
    BY <2>1, BindTyped, PathsOfThePlatform
  <2>3. QED
    BY <2>2 DEF PlatformBinds
<1>3. s.hide \in Seq(Path) /\ Len(s.hide) \in Nat /\ DOMAIN s.hide = 1..Len(s.hide)
  BY DEF FilesystemSpec
<1>4. \A i \in 1..Len(s.hide) :
        Bind(IF s.hide[i] \in dirs THEN "tmpfs" ELSE "ro-bind", "nothing", s.hide[i]) \in Binding
  <2>1. {"ro-bind", "tmpfs"} \subseteq BindOp /\ "nothing" \in BindFrom
    BY DEF BindOp, BindFrom
  <2>2. QED
    BY <1>3, <2>1, BindTyped
<1>5. HideBinds(s, dirs) \in [1..Len(s.hide) -> Binding]
  BY <1>3, <1>4 DEF HideBinds
<1>6. HideBinds(s, dirs) \in Seq(Binding) /\ Len(HideBinds(s, dirs)) = Len(s.hide)
  BY <1>3, <1>5, SeqOf
<1>7. QED
  BY <1>1, <1>2, <1>3, <1>6 DEF HideBinds, Bind

\* The tenant's binds: the workspace, and then every mount after the ones of
\* lower rank.
LEMMA TenantShape ==
  ASSUME NEW s \in FilesystemSpec
  PROVE  /\ s.mounts \in MountList /\ TenantBinds(s) \in Seq(Binding)
         /\ Len(TenantBinds(s)) = Len(s.mounts) + 1
         /\ TenantBinds(s)[1] = Bind("bind", "workspace", s.ws)
         /\ \A i \in 1..Len(s.mounts) :
              /\ Rank(s.mounts, i) \in 1..Len(s.mounts)
              /\ TenantBinds(s)[Rank(s.mounts, i) + 1] = MountBind(s.mounts[i])
         /\ \A j \in 2..(Len(s.mounts) + 1) :
              \E i \in 1..Len(s.mounts) : j = Rank(s.mounts, i) + 1
PROOF
<1> DEFINE ms == s.mounts
           binds == [k \in DOMAIN orderedMounts(ms) |-> MountBind(orderedMounts(ms)[k])]
           first == <<Bind("bind", "workspace", s.ws)>>
<1>1. /\ ms \in MountList /\ Len(ms) \in Nat /\ DOMAIN ms = 1..Len(ms)
      /\ \A i \in DOMAIN ms : MountBind(ms[i]) \in Binding
  <2>1. ms \in MountList
    BY DEF FilesystemSpec, MountList, MountRecord
  <2>2. Len(ms) \in Nat /\ DOMAIN ms = 1..Len(ms)
    BY <2>1, MountsTyped
  <2>3. \A i \in DOMAIN ms : ms[i].path \in Path /\ ms[i].source.volume \in BindFrom
    BY <2>1, MountsTyped DEF BindFrom
  <2>4. {"ro-bind", "bind"} \subseteq BindOp
    BY DEF BindOp
  <2>5. \A i \in DOMAIN ms : MountBind(ms[i]) \in Binding
    BY <2>3, <2>4, BindTyped DEF MountBind
  <2>6. QED
    BY <2>1, <2>2, <2>5
<1>2. /\ DOMAIN orderedMounts(ms) = 1..Len(ms)
      /\ \A i \in 1..Len(ms) : orderedMounts(ms)[Rank(ms, i)] = ms[i] /\ Rank(ms, i) \in 1..Len(ms)
      /\ \A k \in 1..Len(ms) : \E i \in 1..Len(ms) : Rank(ms, i) = k
  BY <1>1, OrderedMounts, RankOrder, Zenon
<1>3. \A i \in 1..Len(ms) : binds[Rank(ms, i)] = MountBind(ms[i])
  BY <1>2, Zenon
<1>4. binds \in [1..Len(ms) -> Binding]
  <2>1. \A k \in 1..Len(ms) : MountBind(orderedMounts(ms)[k]) \in Binding
    BY <1>1, <1>2, Zenon
  <2>2. QED
    BY <1>2, <2>1, Zenon
<1>5. binds \in Seq(Binding) /\ Len(binds) = Len(ms)
  BY <1>1, <1>4, SeqOf
<1>6. first \in Seq(Binding) /\ Len(first) = 1 /\ first[1] = Bind("bind", "workspace", s.ws)
  <2>1. s.ws \in Path /\ "bind" \in BindOp /\ "workspace" \in BindFrom
    BY DEF FilesystemSpec, BindOp, BindFrom
  <2>2. Bind("bind", "workspace", s.ws) \in Binding
    BY <2>1, BindTyped
  <2>3. QED
    BY <2>2
<1>7. TenantBinds(s) = first \o binds
  BY DEF TenantBinds
<1> HIDE DEF ms, binds, first
<1>8. /\ TenantBinds(s) \in Seq(Binding) /\ Len(TenantBinds(s)) = Len(ms) + 1
      /\ TenantBinds(s)[1] = first[1] /\ \A k \in 1..Len(ms) : TenantBinds(s)[k + 1] = binds[k]
  <2>1. /\ first \o binds \in Seq(Binding) /\ Len(first \o binds) = Len(first) + Len(binds)
        /\ \A i \in 1..Len(first) : (first \o binds)[i] = first[i]
        /\ \A i \in 1..Len(binds) : (first \o binds)[Len(first) + i] = binds[i]
    BY <1>5, <1>6, Joined, Zenon
  <2>2. Len(first) + Len(binds) = Len(ms) + 1 /\ 1 \in 1..Len(first)
    BY <1>1, <1>5, <1>6
  <2>3. \A k \in 1..Len(ms) : k \in 1..Len(binds) /\ Len(first) + k = k + 1
    BY <1>1, <1>5, <1>6
  <2>4. TenantBinds(s)[1] = first[1] /\ Len(TenantBinds(s)) = Len(ms) + 1
    BY <1>7, <2>1, <2>2
  <2>5. ASSUME NEW k \in 1..Len(ms) PROVE TenantBinds(s)[k + 1] = binds[k]
    <3>1. k \in 1..Len(binds) /\ Len(first) + k = k + 1
      BY <2>3
    <3>2. (first \o binds)[Len(first) + k] = binds[k]
      BY <2>1, <3>1
    <3>3. QED
      BY <1>7, <3>1, <3>2
  <2>6. QED
    BY <1>7, <2>1, <2>4, <2>5
<1>9. \A j \in 2..(Len(ms) + 1) : \E i \in 1..Len(ms) : j = Rank(ms, i) + 1
  <2>1. SUFFICES ASSUME NEW j \in 2..(Len(ms) + 1) PROVE \E i \in 1..Len(ms) : j = Rank(ms, i) + 1
    OBVIOUS
  <2>2. j - 1 \in 1..Len(ms)
    BY <1>1
  <2>3. PICK i \in 1..Len(ms) : Rank(ms, i) = j - 1
    BY <1>2, <2>2, Zenon
  <2>4. QED
    BY <2>3
<1>10. QED
  BY <1>1, <1>2, <1>3, <1>6, <1>8, <1>9, Zenon DEF ms

\* What shows at a path is decided by the last of Generate's groups that
\* covers it.
LEMMA ShownGroup ==
  ASSUME NEW s \in FilesystemSpec, NEW dirs, NEW p
  PROVE  LET argv == Generate(s, dirs)
         IN /\ Covered(HideBinds(s, dirs), p) => Shown(argv, p) = Shown(HideBinds(s, dirs), p)
            /\ ~Covered(HideBinds(s, dirs), p) =>
                 /\ Covered(TenantBinds(s), p) => Shown(argv, p) = Shown(TenantBinds(s), p)
                 /\ ~Covered(TenantBinds(s), p) =>
                      /\ Covered(PlatformBinds(s), p) => Shown(argv, p) = Shown(PlatformBinds(s), p)
                      /\ ~Covered(PlatformBinds(s), p) /\ Covered(SystemBinds(s), p) =>
                           Shown(argv, p) = Shown(SystemBinds(s), p)
PROOF
<1> DEFINE S == SystemBinds(s)
           P == PlatformBinds(s)
           T == TenantBinds(s)
           H == HideBinds(s, dirs)
<1>1. S \in Seq(Binding) /\ P \in Seq(Binding) /\ T \in Seq(Binding) /\ H \in Seq(Binding)
  BY BindsTyped, TenantShape
<1>2. Generate(s, dirs) = ((S \o P) \o T) \o H
  BY DEF Generate
<1> HIDE DEF S, P, T, H
<1>3. S \o P \in Seq(Binding) /\ (S \o P) \o T \in Seq(Binding)
  BY <1>1
<1>4. /\ Covered(P, p) => Shown(S \o P, p) = Shown(P, p)
      /\ Covered(S, p) /\ ~Covered(P, p) => Shown(S \o P, p) = Shown(S, p)
      /\ Covered(S \o P, p) <=> Covered(S, p) \/ Covered(P, p)
  BY <1>1, ShownLater
<1>5. /\ Covered(T, p) => Shown((S \o P) \o T, p) = Shown(T, p)
      /\ Covered(S \o P, p) /\ ~Covered(T, p) => Shown((S \o P) \o T, p) = Shown(S \o P, p)
      /\ Covered((S \o P) \o T, p) <=> Covered(S \o P, p) \/ Covered(T, p)
  BY <1>1, <1>3, ShownLater, Zenon
<1>6. /\ Covered(H, p) => Shown(((S \o P) \o T) \o H, p) = Shown(H, p)
      /\ Covered((S \o P) \o T, p) /\ ~Covered(H, p) =>
           Shown(((S \o P) \o T) \o H, p) = Shown((S \o P) \o T, p)
  BY <1>1, <1>3, ShownLater, Zenon
<1>7. QED
  BY <1>2, <1>4, <1>5, <1>6, Zenon DEF S, P, T, H

\* The mounts of a valid spec have different paths, all types are as declared,
\* and no mount and no hidden path covers the workspace.
LEMMA ValidSpec ==
  ASSUME NEW s \in FilesystemSpec, Validate(s)
  PROVE  /\ s.ws \in Path /\ Len(s.mounts) \in Nat /\ DOMAIN s.mounts = 1..Len(s.mounts)
         /\ \A i \in 1..Len(s.mounts) : s.mounts[i].path \in Path /\ s.mounts[i].readOnly \in BOOLEAN
         /\ \A i, j \in 1..Len(s.mounts) : s.mounts[i].path = s.mounts[j].path => i = j
         /\ \A i \in 1..Len(s.mounts) : ~contains(s.mounts[i].path, s.ws)
         /\ Len(s.hide) \in Nat
         /\ \A h \in 1..Len(s.hide) :
              /\ s.hide[h] \in Path /\ ~contains(s.hide[h], s.ws)
              /\ \A i \in 1..Len(s.mounts) : ~contains(s.hide[h], s.mounts[i].path)
         /\ \A t \in protectedTargets :
              /\ ~contains(s.ws, t)
              /\ \A i \in 1..Len(s.mounts) : ~contains(s.mounts[i].path, t)
              /\ \A h \in 1..Len(s.hide) : ~contains(s.hide[h], t)
PROOF
<1>1. /\ s.ws \in Path /\ s.mounts \in MountList /\ s.hide \in Seq(Path)
  BY DEF FilesystemSpec, MountList, MountRecord
<1>2. /\ Len(s.mounts) \in Nat /\ DOMAIN s.mounts = 1..Len(s.mounts)
      /\ \A i \in 1..Len(s.mounts) : s.mounts[i].path \in Path /\ s.mounts[i].readOnly \in BOOLEAN
  BY <1>1, MountsTyped
<1>3. /\ Len(s.hide) \in Nat /\ DOMAIN s.hide = 1..Len(s.hide)
      /\ \A h \in 1..Len(s.hide) : s.hide[h] \in Path /\ s.hide[h] \in Range(s.hide)
  BY <1>1 DEF Range
<1>4. /\ Free(s.ws) /\ \A i \in 1..Len(s.mounts) : ValidMount(s, i)
      /\ \A h \in 1..Len(s.hide) : ValidHide(s, s.hide[h])
  BY <1>2, <1>3 DEF Validate, ValidWorkspace
<1>5. \A i \in 1..Len(s.mounts) :
        /\ Free(s.mounts[i].path) /\ ~contains(s.mounts[i].path, s.ws)
        /\ \A j \in 1..(i - 1) : s.mounts[j].path # s.mounts[i].path
  BY <1>4, Zenon DEF ValidMount, shadowable
<1>6. \A h \in 1..Len(s.hide) :
        /\ Free(s.hide[h]) /\ ~contains(s.hide[h], s.ws)
        /\ \A i \in 1..Len(s.mounts) : ~contains(s.hide[h], s.mounts[i].path)
  BY <1>2, <1>4 DEF ValidHide, shadowable
<1>7. \A i, j \in 1..Len(s.mounts) : s.mounts[i].path = s.mounts[j].path => i = j
  <2>1. SUFFICES ASSUME NEW i \in 1..Len(s.mounts), NEW j \in 1..Len(s.mounts), i < j
                 PROVE  s.mounts[i].path # s.mounts[j].path
    BY <1>2
  <2>2. i \in 1..(j - 1)
    BY <1>2, <2>1
  <2>3. QED
    BY <1>5, <2>2
<1>8. \A p : Free(p) => \A t \in protectedTargets : ~contains(p, t)
  BY DEF Free, overlaps
<1>9. QED
  BY <1>1, <1>2, <1>3, <1>4, <1>5, <1>6, <1>7, <1>8

\* No hidden path covers what no hidden path contains.
LEMMA HideCovers ==
  ASSUME NEW s \in FilesystemSpec, NEW dirs, NEW p
  PROVE  /\ Covered(HideBinds(s, dirs), p) <=> \E h \in 1..Len(s.hide) : contains(s.hide[h], p)
         /\ Covered(HideBinds(s, dirs), p) => Shown(HideBinds(s, dirs), p).from = "nothing"
PROOF
<1> DEFINE H == HideBinds(s, dirs)
<1>1. /\ H \in Seq(Binding) /\ Len(H) = Len(s.hide)
      /\ \A i \in 1..Len(s.hide) : H[i].target = s.hide[i] /\ H[i].from = "nothing"
  BY BindsTyped
<1> HIDE DEF H
<1>2. Covered(H, p) <=> \E h \in 1..Len(s.hide) : contains(s.hide[h], p)
  BY <1>1 DEF Covered
<1>3. ASSUME Covered(H, p) PROVE Shown(H, p).from = "nothing"
  <2>1. PICK i \in 1..Len(H) : /\ contains(H[i].target, p)
                               /\ \A j \in (i + 1)..Len(H) : ~contains(H[j].target, p)
    BY <1>1, <1>3, LastCover
  <2>2. Shown(H, p) = H[i]
    BY <1>1, <2>1, ShownIs
  <2>3. QED
    BY <1>1, <2>2
<1>4. QED
  BY <1>2, <1>3 DEF H

\* The tenant's binds cover what the workspace or a mount contains.
LEMMA TenantCovers ==
  ASSUME NEW s \in FilesystemSpec, NEW p
  PROVE  Covered(TenantBinds(s), p) <=>
           \/ contains(s.ws, p)
           \/ \E i \in 1..Len(s.mounts) : contains(s.mounts[i].path, p)
PROOF
<1> DEFINE T == TenantBinds(s)
           n == Len(s.mounts)
<1>1. /\ n \in Nat /\ Len(T) = n + 1 /\ T[1].target = s.ws
      /\ \A i \in 1..n : /\ Rank(s.mounts, i) \in 1..n
                         /\ T[Rank(s.mounts, i) + 1].target = s.mounts[i].path
      /\ \A j \in 2..(n + 1) : \E i \in 1..n : j = Rank(s.mounts, i) + 1
  <2>1. s.mounts \in MountList /\ n \in Nat
    BY TenantShape, MountsTyped
  <2>2. T[1] = Bind("bind", "workspace", s.ws)
    BY TenantShape
  <2>3. T[1].target = s.ws /\ \A i \in 1..n : MountBind(s.mounts[i]).target = s.mounts[i].path
    BY <2>2 DEF Bind, MountBind
  <2>4. QED
    BY <2>1, <2>3, TenantShape, Zenon
<1> HIDE DEF T, n
<1>2. \A j \in 1..Len(T) : \/ j = 1
                           \/ \E i \in 1..n : j = Rank(s.mounts, i) + 1
  <2>1. \A j \in 1..Len(T) : j = 1 \/ j \in 2..(n + 1)
    BY <1>1
  <2>2. QED
    BY <1>1, <2>1
<1>3. 1 \in 1..Len(T) /\ \A i \in 1..n : Rank(s.mounts, i) + 1 \in 1..Len(T)
  BY <1>1
<1>4. QED
  BY <1>1, <1>2, <1>3, Zenon DEF Covered, T, n

\* Above a path that the deepest of a valid spec's mounts contains, that mount
\* shows: mounts above it were made before it (orderedMounts).
LEMMA MountShown ==
  ASSUME NEW s \in FilesystemSpec, Validate(s), NEW i \in 1..Len(s.mounts), NEW p \in Path,
         contains(s.mounts[i].path, p),
         \A j \in 1..Len(s.mounts) :
           contains(s.mounts[j].path, p) => Len(s.mounts[j].path) <= Len(s.mounts[i].path)
  PROVE  Shown(TenantBinds(s), p) = MountBind(s.mounts[i])
PROOF
<1> DEFINE T == TenantBinds(s)
           ms == s.mounts
           n == Len(ms)
<1>1. /\ ms \in MountList /\ T \in Seq(Binding) /\ n \in Nat /\ Len(T) = n + 1 /\ DOMAIN ms = 1..n
      /\ \A x \in 1..n : ms[x].path \in Path /\ Len(ms[x].path) \in Nat
  BY TenantShape, MountsTyped, Zenon
<1>2. \A x \in 1..n : /\ Rank(ms, x) \in 1..n /\ T[Rank(ms, x) + 1] = MountBind(ms[x])
                      /\ T[Rank(ms, x) + 1].target = ms[x].path
  <2>1. \A x \in 1..n : Rank(ms, x) \in 1..n /\ T[Rank(ms, x) + 1] = MountBind(ms[x])
    BY TenantShape
  <2>2. \A x \in 1..n : MountBind(ms[x]).target = ms[x].path
    BY DEF MountBind, Bind
  <2>3. QED
    BY <2>1, <2>2, Zenon
<1>3. \A j \in 2..(n + 1) : \E x \in 1..n : j = Rank(ms, x) + 1
  BY TenantShape
<1>4. ASSUME NEW j \in (Rank(ms, i) + 2)..Len(T), contains(T[j].target, p)
      PROVE  FALSE
  <2>1. j \in 2..(n + 1) /\ Rank(ms, i) + 1 < j
    BY <1>1, <1>2, <1>4
  <2>2. PICK x \in 1..n : j = Rank(ms, x) + 1
    BY <1>3, <2>1, Zenon
  <2>3. Rank(ms, i) < Rank(ms, x) /\ contains(ms[x].path, p)
    <3>1. contains(ms[x].path, p)
      BY <1>2, <1>4, <2>2, Zenon
    <3>2. Rank(ms, i) \in 1..n /\ Rank(ms, x) \in 1..n
      BY <1>2
    <3>3. QED
      BY <2>1, <2>2, <3>1, <3>2
  <2>4. ~Before(ms, x, i)
    <3>1. Before(ms, x, i) => Rank(ms, x) < Rank(ms, i)
      BY <1>1, RankOrder, Zenon
    <3>2. QED
      BY <1>2, <2>3, <3>1
  <2>5. x # i
    BY <1>2, <2>3
  <2>6. Before(ms, i, x)
    BY <1>1, <2>4, <2>5, BeforeOrder, Zenon
  <2>7. Len(ms[i].path) = Len(ms[x].path)
    BY <1>1, <2>3, <2>6, SMTT(30) DEF Before
  <2>8. contains(ms[x].path, ms[i].path)
    BY <1>1, <2>3, <2>7, ContainsChain, Zenon
  <2>9. ms[x].path = ms[i].path
    BY <1>1, <2>7, <2>8, ContainsOrder, SMTT(30)
  <2>10. QED
    BY <2>5, <2>9, ValidSpec
<1>5. Rank(ms, i) + 1 \in 1..Len(T) /\ contains(T[Rank(ms, i) + 1].target, p)
  BY <1>1, <1>2, SMTT(30)
<1>6. \A j \in ((Rank(ms, i) + 1) + 1)..Len(T) : ~contains(T[j].target, p)
  <2>1. (Rank(ms, i) + 1) + 1 = Rank(ms, i) + 2
    BY <1>1, <1>2
  <2>2. QED
    BY <1>4, <2>1
<1>7. Shown(T, p) = T[Rank(ms, i) + 1]
  <2> HIDE DEF T, n, ms
  <2>1. QED
    BY <1>1, <1>5, <1>6, ShownIs, Zenon
<1>8. QED
  BY <1>2, <1>7

\* Where only the workspace reaches, the workspace shows.
LEMMA WorkspaceShown ==
  ASSUME NEW s \in FilesystemSpec, NEW p \in Path, contains(s.ws, p),
         \A j \in 1..Len(s.mounts) : ~contains(s.mounts[j].path, p)
  PROVE  Shown(TenantBinds(s), p) = Bind("bind", "workspace", s.ws)
PROOF
<1> DEFINE T == TenantBinds(s)
           n == Len(s.mounts)
<1>1. T \in Seq(Binding) /\ n \in Nat /\ Len(T) = n + 1 /\ T[1] = Bind("bind", "workspace", s.ws)
  BY TenantShape, MountsTyped
<1>2. T[1].target = s.ws /\ \A x \in 1..n : MountBind(s.mounts[x]).target = s.mounts[x].path
  BY <1>1 DEF Bind, MountBind
<1>3. ASSUME NEW j \in 2..(n + 1) PROVE ~contains(T[j].target, p)
  <2>1. PICK x \in 1..n : j = Rank(s.mounts, x) + 1
    BY <1>3, TenantShape
  <2>2. T[j].target = s.mounts[x].path
    BY <1>2, <2>1, TenantShape, Zenon
  <2>3. QED
    BY <2>2
<1>4. 1 \in 1..Len(T) /\ 1 + 1 = 2
  BY <1>1
<1> HIDE DEF T, n
<1>5. Shown(T, p) = T[1]
  BY <1>1, <1>2, <1>3, <1>4, ShownIs, Zenon
<1>6. QED
  BY <1>1, <1>5 DEF T

\* Where the tenant's binds reach and nothing is hidden, they show.
LEMMA TenantShows ==
  ASSUME NEW s \in FilesystemSpec, NEW dirs, NEW p,
         \A h \in 1..Len(s.hide) : ~contains(s.hide[h], p),
         contains(s.ws, p) \/ \E i \in 1..Len(s.mounts) : contains(s.mounts[i].path, p)
  PROVE  Shown(Generate(s, dirs), p) = Shown(TenantBinds(s), p)
PROOF
<1>1. ~Covered(HideBinds(s, dirs), p)
  BY HideCovers
<1>2. Covered(TenantBinds(s), p)
  BY TenantCovers
<1>3. QED
  BY <1>1, <1>2, ShownGroup, Zenon

\* No mount of the tenant and no hidden path reaches what is protected.
LEMMA ProtectedShows ==
  ASSUME NEW s \in FilesystemSpec, NEW dirs, Validate(s), NEW t \in protectedTargets
  PROVE  /\ Covered(PlatformBinds(s), t) => Shown(Generate(s, dirs), t) = Shown(PlatformBinds(s), t)
         /\ ~Covered(PlatformBinds(s), t) /\ Covered(SystemBinds(s), t) =>
              Shown(Generate(s, dirs), t) = Shown(SystemBinds(s), t)
PROOF
<1>1. ~Covered(HideBinds(s, dirs), t)
  BY HideCovers, ValidSpec, Zenon
<1>2. ~Covered(TenantBinds(s), t)
  BY TenantCovers, ValidSpec
<1>3. QED
  BY <1>1, <1>2, ShownGroup, Zenon

\* /proc, /dev, jdix-init and the socket's directory show as the platform
\* binds them: the socket's directory comes after the tmpfs of /run.
LEMMA PlatformShown ==
  ASSUME NEW s \in FilesystemSpec, NEW p \in {<<"proc">>, <<"dev">>, InitTarget, IPCMount}
  PROVE  /\ Covered(PlatformBinds(s), p)
         /\ \E op : Shown(PlatformBinds(s), p) = Bind(op, "platform", p)
PROOF
<1> DEFINE P == PlatformBinds(s)
<1>1. P \in Seq(Binding) /\ Len(P) = 7
  <2>1. Len(P) = 7
    BY DEF PlatformBinds
  <2>2. QED
    BY <2>1, BindsTyped
<1>2. /\ P[1].target = <<"proc">> /\ P[2].target = <<"dev">> /\ P[3].target = <<"tmp">>
      /\ P[4].target = <<"run">> /\ P[5].target = <<"home">> /\ P[6].target = InitTarget
      /\ P[7].target = IPCMount
  BY DEF PlatformBinds, Bind
<1>3. /\ P[1] = Bind(P[1].op, "platform", <<"proc">>) /\ P[2] = Bind(P[2].op, "platform", <<"dev">>)
      /\ P[6] = Bind(P[6].op, "platform", InitTarget) /\ P[7] = Bind(P[7].op, "platform", IPCMount)
  BY DEF PlatformBinds, Bind
<1>4. ASSUME NEW i \in 1..7, contains(P[i].target, p),
             \A j \in (i + 1)..7 : ~contains(P[j].target, p),
             \E op : P[i] = Bind(op, "platform", p)
      PROVE  Covered(P, p) /\ \E op : Shown(P, p) = Bind(op, "platform", p)
  <2>1. Covered(P, p)
    BY <1>1, <1>4 DEF Covered
  <2>2. Shown(P, p) = P[i]
    <3> HIDE DEF P
    <3>1. QED
      BY <1>1, <1>4, ShownIs
  <2>3. QED
    BY <1>4, <2>1, <2>2
<1> SUFFICES Covered(P, p) /\ \E op : Shown(P, p) = Bind(op, "platform", p)
  OBVIOUS
<1> HIDE DEF P
<1>5. CASE p = <<"proc">>
  <2>1. \A j \in 2..7 : ~contains(P[j].target, p)
    BY <1>2, <1>5, SMTT(30) DEF contains, InitTarget, IPCMount
  <2>2. contains(P[1].target, p) /\ 1 + 1 = 2
    BY <1>2, <1>5 DEF contains
  <2>3. contains(P[1].target, p) /\ \A j \in (1 + 1)..7 : ~contains(P[j].target, p)
    BY <2>1, <2>2
  <2>4. \E op : P[1] = Bind(op, "platform", p)
    BY <1>3, <1>5
  <2>5. QED
    BY <1>4, <2>3, <2>4
<1>6. CASE p = <<"dev">>
  <2>1. \A j \in 3..7 : ~contains(P[j].target, p)
    BY <1>2, <1>6, SMTT(30) DEF contains, InitTarget, IPCMount
  <2>2. contains(P[2].target, p) /\ 2 + 1 = 3
    BY <1>2, <1>6 DEF contains
  <2>3. contains(P[2].target, p) /\ \A j \in (2 + 1)..7 : ~contains(P[j].target, p)
    BY <2>1, <2>2
  <2>4. \E op : P[2] = Bind(op, "platform", p)
    BY <1>3, <1>6
  <2>5. QED
    BY <1>4, <2>3, <2>4
<1>7. CASE p = InitTarget
  <2>1. \A j \in 7..7 : ~contains(P[j].target, p)
    BY <1>2, <1>7 DEF contains, InitTarget, IPCMount
  <2>2. contains(P[6].target, p) /\ 6 + 1 = 7
    BY <1>2, <1>7 DEF contains, InitTarget
  <2>3. contains(P[6].target, p) /\ \A j \in (6 + 1)..7 : ~contains(P[j].target, p)
    BY <2>1, <2>2
  <2>4. \E op : P[6] = Bind(op, "platform", p)
    BY <1>3, <1>7
  <2>5. QED
    BY <1>4, <2>3, <2>4
<1>8. CASE p = IPCMount
  <2>1. contains(P[7].target, p) /\ 7 + 1 = 8 /\ 8..7 = {}
    BY <1>2, <1>8 DEF contains, IPCMount
  <2>2. contains(P[7].target, p) /\ \A j \in (7 + 1)..7 : ~contains(P[j].target, p)
    BY <2>1
  <2>3. \E op : P[7] = Bind(op, "platform", p)
    BY <1>3, <1>8
  <2>4. QED
    BY <1>4, <2>2, <2>3
<1>9. QED
  BY <1>5, <1>6, <1>7, <1>8

\* The files of the skeleton show: they come after the system paths, and
\* nothing of the platform covers them.
LEMMA SkeletonShown ==
  ASSUME NEW s \in FilesystemSpec, NEW p \in Range(Skeleton)
  PROVE  /\ Covered(SystemBinds(s), p) /\ ~Covered(PlatformBinds(s), p)
         /\ \E op : Shown(SystemBinds(s), p) = Bind(op, "skeleton", p)
PROOF
<1> DEFINE K == Each(Skeleton, "ro-bind", "skeleton")
           E == Each(IF s.system = <<>> THEN DefaultSystemPaths ELSE s.system, "ro-bind-try", "system")
<1>1. /\ "ro-bind-try" \in BindOp /\ "ro-bind" \in BindOp /\ "system" \in BindFrom
      /\ "skeleton" \in BindFrom /\ s.system \in Seq(Path)
  BY DEF BindOp, BindFrom, FilesystemSpec
<1>2. E \in Seq(Binding) /\ K \in Seq(Binding) /\ Len(K) = Len(Skeleton) /\ SystemBinds(s) = E \o K
  BY <1>1, EachTyped, PathsOfThePlatform DEF SystemBinds
<1>3. Len(Skeleton) = 3 /\ DOMAIN Skeleton = 1..3
  BY DEF Skeleton
<1>4. \A i \in 1..3 : K[i] = Bind("ro-bind", "skeleton", Skeleton[i]) /\ K[i].target = Skeleton[i]
  BY <1>3 DEF Each, Bind
<1>5. PICK i \in 1..3 : p = Skeleton[i]
  BY <1>3 DEF Range
<1>6. contains(K[i].target, p) /\ \A j \in (i + 1)..Len(K) : ~contains(K[j].target, p)
  <2>1. \A j \in 1..3 : contains(Skeleton[j], Skeleton[i]) <=> j = i
    <3>1. Skeleton[1] = <<"etc", "passwd">> /\ Skeleton[2] = <<"etc", "group">>
            /\ Skeleton[3] = <<"etc", "resolv.conf">>
      BY DEF Skeleton
    <3>2. i \in {1, 2, 3}
      BY <1>5
    <3>3. QED
      BY <3>1, <3>2, SMTT(30) DEF contains
  <2>2. \A j \in 1..3 : contains(K[j].target, p) <=> j = i
    BY <1>4, <1>5, <2>1
  <2>3. Len(K) = 3
    BY <1>2, <1>3
  <2>4. QED
    BY <2>2, <2>3
<1> HIDE DEF K, E
<1>7. Covered(K, p) /\ Shown(K, p) = K[i]
  BY <1>2, <1>3, <1>6, ShownIs, Zenon DEF Covered
<1>8. Covered(SystemBinds(s), p) /\ Shown(SystemBinds(s), p) = K[i]
  BY <1>2, <1>7, ShownLater
<1>9. ~Covered(PlatformBinds(s), p)
  <2> DEFINE P == PlatformBinds(s)
  <2>1. Len(P) = 7
    BY DEF PlatformBinds
  <2>2. /\ P[1].target = <<"proc">> /\ P[2].target = <<"dev">> /\ P[3].target = <<"tmp">>
        /\ P[4].target = <<"run">> /\ P[5].target = <<"home">> /\ P[6].target = <<"jdix-init">>
        /\ P[7].target = <<"run", "jdix">>
    BY DEF PlatformBinds, Bind, InitTarget, IPCMount
  <2>3. p[1] = "etc" /\ Len(p) = 2
    BY <1>5 DEF Skeleton
  <2> HIDE DEF P
  <2>4. /\ ~contains(<<"proc">>, p) /\ ~contains(<<"dev">>, p) /\ ~contains(<<"tmp">>, p)
        /\ ~contains(<<"run">>, p) /\ ~contains(<<"home">>, p) /\ ~contains(<<"jdix-init">>, p)
        /\ ~contains(<<"run", "jdix">>, p)
    BY <2>3 DEF contains
  <2>5. \A j \in 1..7 : ~contains(P[j].target, p)
    BY <2>2, <2>4, SMTT(30)
  <2>6. QED
    BY <2>1, <2>5 DEF Covered, P
<1>10. QED
  BY <1>4, <1>5, <1>8, <1>9

\* What Validate accepts shows as it was asked for.
LEMMA ValidShows ==
  ASSUME NEW s \in FilesystemSpec, NEW dirs, Validate(s)
  PROVE  ShowsAsAsked(s, dirs)
PROOF
<1> DEFINE argv == Generate(s, dirs)
           Shows(p, from) == Shown(argv, p) = Bind(Shown(argv, p).op, from, p)
<1>1. \A p, op, from : Shown(argv, p) = Bind(op, from, p) => Shows(p, from)
  BY DEF Bind
<1>2. Shows(s.ws, "workspace")
  <2>1. contains(s.ws, s.ws) /\ s.ws \in Path
    BY ValidSpec, ContainsOrder
  <2>2. Shown(argv, s.ws) = Shown(TenantBinds(s), s.ws)
    BY <2>1, ValidSpec, TenantShows, Zenon
  <2>3. Shown(TenantBinds(s), s.ws) = Bind("bind", "workspace", s.ws)
    BY <2>1, ValidSpec, WorkspaceShown
  <2>4. QED
    BY <1>1, <2>2, <2>3, Zenon
<1>3. ASSUME NEW i \in DOMAIN s.mounts
      PROVE  /\ Shows(s.mounts[i].path, s.mounts[i].source.volume)
             /\ (Shown(argv, s.mounts[i].path).op = "ro-bind") = s.mounts[i].readOnly
  <2> DEFINE p == s.mounts[i].path
  <2>1. i \in 1..Len(s.mounts) /\ p \in Path /\ contains(p, p) /\ s.mounts[i].readOnly \in BOOLEAN
    BY <1>3, ValidSpec, ContainsOrder, Zenon
  <2>2. Shown(argv, p) = Shown(TenantBinds(s), p)
    BY <2>1, ValidSpec, TenantShows
  <2>3. \A j \in 1..Len(s.mounts) : contains(s.mounts[j].path, p) => Len(s.mounts[j].path) <= Len(p)
    BY DEF contains
  <2>4. Shown(TenantBinds(s), p) = MountBind(s.mounts[i])
    BY <2>1, <2>3, MountShown, Zenon
  <2>5. QED
    BY <2>1, <2>2, <2>4 DEF MountBind, Bind
<1>4. ASSUME NEW h \in Range(s.hide) PROVE Shown(argv, h).from = "nothing"
  <2>1. PICK i \in 1..Len(s.hide) : h = s.hide[i]
    BY <1>4, SMTT(30) DEF Range, FilesystemSpec
  <2>2. contains(s.hide[i], h)
    BY <2>1, ValidSpec, ContainsOrder, Zenon
  <2>3. Covered(HideBinds(s, dirs), h) /\ Shown(HideBinds(s, dirs), h).from = "nothing"
    BY <2>2, HideCovers
  <2>4. QED
    BY <2>3, ShownGroup, Zenon
<1>5. ASSUME NEW p \in {<<"proc">>, <<"dev">>, InitTarget, IPCMount} PROVE Shows(p, "platform")
  <2>1. p \in protectedTargets
    BY <1>5 DEF protectedTargets
  <2>2. PICK op : Shown(PlatformBinds(s), p) = Bind(op, "platform", p)
    BY <1>5, PlatformShown
  <2>3. Shown(argv, p) = Bind(op, "platform", p)
    BY <1>5, <2>1, <2>2, PlatformShown, ProtectedShows
  <2>4. QED
    BY <1>1, <2>3
<1>6. ASSUME NEW p \in Range(Skeleton) PROVE Shows(p, "skeleton")
  <2>1. p \in protectedTargets
    BY <1>6 DEF protectedTargets
  <2>2. PICK op : Shown(SystemBinds(s), p) = Bind(op, "skeleton", p)
    BY <1>6, SkeletonShown
  <2>3. Shown(argv, p) = Bind(op, "skeleton", p)
    BY <1>6, <2>1, <2>2, SkeletonShown, ProtectedShows
  <2>4. QED
    BY <1>1, <2>3
<1>7. QED
  BY <1>2, <1>3, <1>4, <1>5, <1>6 DEF ShowsAsAsked

-----------------------------------------------------------------------------
(* The launch.                                                             *)

\* What execd launched was valid, and once jdix-init is configured its roots
\* are the spec's.
Launched ==
  /\ spec \in Specs
  /\ phase \in {"launched", "ready"} => Validate(spec)
  /\ phase = "ready" => roots = Roots

\* No request and no process of the tenant changes the spec, the phase or the
\* roots.
LEMMA ServingKeepsLaunch ==
  ASSUME [Next]_vars
  PROVE  launch \/ configureInit \/ UNCHANGED <<spec, phase, roots>>
PROOF
<1>1. ASSUME NEW r \in Requests, NEW ask \in Asks,
             handleFileGet(r, ask) \/ handleFileList(r, ask)
               \/ handleFilePut(r, ask) \/ handleFileDelete(r, ask)
      PROVE  UNCHANGED <<spec, phase, roots>>
  BY <1>1, SMTT(30) DEF handleFileGet, handleFileList, handleFilePut, handleFileDelete, Handled
<1>2. ASSUME NEW r \in Requests, mkdirLook(r) \/ mkdirMake(r) \/ putOpen(r) \/ putCopy(r) \/ deleteRemove(r)
      PROVE  UNCHANGED <<spec, phase, roots>>
  BY <1>2, Zenon DEF mkdirLook, mkdirMake, putOpen, putCopy, deleteRemove, Handled
<1>3. ASSUME NEW n \in Nodes, NEW kind \in {"none", "dir", "file"}, Process(n, kind)
      PROVE  UNCHANGED <<spec, phase, roots>>
  BY <1>3 DEF Process
<1>4. QED
  BY <1>1, <1>2, <1>3, Zenon DEF Next, vars

\* Launched is inductive.
LEMMA LaunchedStep ==
  ASSUME Launched, [Next]_vars
  PROVE  Launched'
PROOF
<1>1. CASE launch
  BY <1>1 DEF launch, Launched
<1>2. CASE configureInit
  BY <1>2 DEF configureInit, Launched, Roots
<1>3. CASE UNCHANGED <<spec, phase, roots>>
  BY <1>3 DEF Launched, Roots
<1>4. QED
  BY <1>1, <1>2, <1>3, ServingKeepsLaunch

\* Launched holds throughout.
LEMMA AlwaysLaunched == Spec => []Launched
PROOF
<1>1. Init => Launched
  BY DEF Init, Launched
<1>2. QED
  BY <1>1, LaunchedStep, PTL DEF Spec

\* Whatever execd launches shows as its spec asked: the mounts, however they
\* nest, the workspace, what is hidden and what the platform needs (Validate
\* and Generate of pkg/bwrap).
THEOREM SpecsShow == Spec => []MountsShow
PROOF
<1>1. Launched => MountsShow
  BY ValidShows, SpecsAssumption DEF Launched, MountsShow
<1>2. QED
  BY <1>1, AlwaysLaunched, PTL

-----------------------------------------------------------------------------
(* The roots.                                                              *)

\* resolveRoot takes the deepest of the roots above the path.
LEMMA RootTaken ==
  ASSUME roots \subseteq [path: Path, readOnly: BOOLEAN], NEW p, Clean(p) \in Path,
         resolveRoot(p) # NoRoot
  PROVE  /\ p # NoPath /\ resolveRoot(p) \in roots /\ contains(resolveRoot(p).path, Clean(p))
         /\ \A o \in roots : contains(o.path, Clean(p)) => Len(o.path) <= Len(resolveRoot(p).path)
PROOF
<1> DEFINE M == Matching(p)
           c == Clean(p)
           Deepest(r) == \A o \in M : Len(o.path) <= Len(r.path)
           depths == {Len(c) - Len(o.path) : o \in M}
<1>1. /\ p # NoPath /\ M # {} /\ resolveRoot(p) = CHOOSE r \in M : Deepest(r)
      /\ M \subseteq roots /\ \A o \in M : contains(o.path, c)
  BY DEF resolveRoot, Matching
<1>2. Len(c) \in Nat /\ \A o \in M : Len(o.path) \in Nat /\ Len(o.path) <= Len(c)
  BY <1>1 DEF contains, Path
<1> HIDE DEF M, c
<1>3. depths \in SUBSET Nat /\ depths # {}
  BY <1>1, <1>2
<1>4. PICK d \in depths : \A e \in depths : d <= e
  BY <1>3, SmallestOf, Zenon
<1>5. PICK r \in M : d = Len(c) - Len(r.path)
  BY <1>4
<1>6. Deepest(r)
  <2>1. SUFFICES ASSUME NEW o \in M PROVE Len(o.path) <= Len(r.path)
    OBVIOUS
  <2>2. d <= Len(c) - Len(o.path)
    BY <1>4, <2>1
  <2>3. QED
    BY <1>2, <1>5, <2>2
<1>7. resolveRoot(p) \in M /\ Deepest(resolveRoot(p))
  BY <1>1, <1>6
<1>8. QED
  BY <1>1, <1>7 DEF M, c, Matching

\* The roots have the types jdix-init's have.
LEMMA RootsTyped ==
  ASSUME Launched, Validate(spec)
  PROVE  /\ spec \in FilesystemSpec /\ Roots \subseteq [path: Path, readOnly: BOOLEAN]
         /\ \A r \in Roots : r.path \in MountPoints
PROOF
<1>1. spec \in FilesystemSpec
  BY SpecsAssumption DEF Launched
<1>2. /\ DOMAIN spec.mounts = 1..Len(spec.mounts) /\ spec.ws \in Path
      /\ \A i \in DOMAIN spec.mounts : spec.mounts[i].path \in Path /\ spec.mounts[i].readOnly \in BOOLEAN
  BY <1>1, ValidSpec
<1>3. ASSUME NEW r \in Roots PROVE r \in [path: Path, readOnly: BOOLEAN] /\ r.path \in MountPoints
  <2>1. CASE r = [path |-> spec.ws, readOnly |-> FALSE]
    BY <1>2, <2>1 DEF MountPoints
  <2>2. ASSUME NEW i \in DOMAIN spec.mounts,
               r = [path |-> spec.mounts[i].path, readOnly |-> spec.mounts[i].readOnly]
        PROVE  r \in [path: Path, readOnly: BOOLEAN] /\ r.path \in MountPoints
    BY <1>2, <2>2, Zenon DEF MountPoints
  <2>3. QED
    BY <2>1, <2>2 DEF Roots
<1>4. QED
  BY <1>1, <1>3

\* Unless it is hidden, what is under a root and under none deeper is shown by
\* the mount of that root, with its flag.
LEMMA RootShows ==
  ASSUME Launched, Validate(spec), NEW p \in Path, NEW r \in Roots, contains(r.path, p),
         \A o \in Roots : contains(o.path, p) => Len(o.path) <= Len(r.path)
  PROVE  \/ /\ \E h \in 1..Len(spec.hide) : contains(spec.hide[h], p)
            /\ Shown(Argv, p).from = "nothing"
         \/ Shown(Argv, p).target = r.path /\ Writable(Shown(Argv, p)) # r.readOnly
PROOF
<1>1. spec \in FilesystemSpec
  BY RootsTyped
<1>2. /\ DOMAIN spec.mounts = 1..Len(spec.mounts) /\ spec.ws \in Path
      /\ \A i \in 1..Len(spec.mounts) : /\ spec.mounts[i].path \in Path
                                        /\ spec.mounts[i].readOnly \in BOOLEAN
                                        /\ ~contains(spec.mounts[i].path, spec.ws)
  BY <1>1, ValidSpec, Zenon
<1>3. CASE \E h \in 1..Len(spec.hide) : contains(spec.hide[h], p)
  <2>1. Covered(HideBinds(spec, PodDirs), p) /\ Shown(HideBinds(spec, PodDirs), p).from = "nothing"
    BY <1>1, <1>3, HideCovers
  <2>2. Shown(Argv, p).from = "nothing"
    BY <1>1, <2>1, ShownGroup, Zenon DEF Argv
  <2>3. QED
    BY <1>3, <2>2, Zenon
<1>4. CASE \A h \in 1..Len(spec.hide) : ~contains(spec.hide[h], p)
  <2>1. CASE r = [path |-> spec.ws, readOnly |-> FALSE]
    <3>1. ASSUME NEW j \in 1..Len(spec.mounts) PROVE ~contains(spec.mounts[j].path, p)
      <4>1. SUFFICES ASSUME contains(spec.mounts[j].path, p) PROVE FALSE
        OBVIOUS
      <4>2. [path |-> spec.mounts[j].path, readOnly |-> spec.mounts[j].readOnly] \in Roots
        BY <1>2 DEF Roots
      <4>3. Len(spec.mounts[j].path) <= Len(spec.ws)
        BY <2>1, <4>1, <4>2
      <4>4. contains(spec.mounts[j].path, spec.ws)
        BY <1>2, <2>1, <4>1, <4>3, ContainsChain, Zenon
      <4>5. QED
        BY <1>2, <4>4, Zenon
    <3>2. Shown(TenantBinds(spec), p) = Bind("bind", "workspace", spec.ws)
      BY <1>1, <2>1, <3>1, WorkspaceShown, Zenon
    <3>3. Shown(Argv, p) = Bind("bind", "workspace", spec.ws)
      BY <1>1, <1>4, <2>1, <3>2, TenantShows DEF Argv
    <3>4. Shown(Argv, p).target = spec.ws /\ Writable(Shown(Argv, p))
      BY <3>3 DEF Bind, Writable
    <3>5. r.path = spec.ws /\ r.readOnly = FALSE
      BY <2>1, Zenon
    <3>6. QED
      BY <3>4, <3>5, Zenon
  <2>2. ASSUME NEW i \in 1..Len(spec.mounts),
               r = [path |-> spec.mounts[i].path, readOnly |-> spec.mounts[i].readOnly]
        PROVE  Shown(Argv, p).target = r.path /\ Writable(Shown(Argv, p)) # r.readOnly
    <3>1. \A j \in 1..Len(spec.mounts) :
            contains(spec.mounts[j].path, p) => Len(spec.mounts[j].path) <= Len(spec.mounts[i].path)
      <4>1. SUFFICES ASSUME NEW j \in 1..Len(spec.mounts), contains(spec.mounts[j].path, p)
                     PROVE  Len(spec.mounts[j].path) <= Len(spec.mounts[i].path)
        OBVIOUS
      <4>2. [path |-> spec.mounts[j].path, readOnly |-> spec.mounts[j].readOnly] \in Roots
        BY <1>2, Zenon DEF Roots
      <4>3. QED
        BY <2>2, <4>1, <4>2
    <3>2. Shown(TenantBinds(spec), p) = MountBind(spec.mounts[i])
      BY <1>1, <2>2, <3>1, MountShown, Zenon
    <3>3. Shown(Argv, p) = MountBind(spec.mounts[i])
      BY <1>1, <1>4, <2>2, <3>2, TenantShows DEF Argv
    <3>4. QED
      BY <1>2, <2>2, <3>3 DEF MountBind, Bind, Writable
  <2>3. QED
    BY <1>2, <2>1, <2>2 DEF Roots
<1>5. QED
  BY <1>3, <1>4

\* The file API works on what bwrap mounted: whatever path it is asked about,
\* the root it takes is the mount that shows there, with the same flag, unless
\* the path is hidden (configureInit, resolveRoot).
THEOREM RootsMatch == Spec => []RootsMatchMounts
PROOF
<1>1. ASSUME Launched PROVE RootsMatchMounts
  <2>1. SUFFICES ASSUME phase = "ready", NEW n \in Nodes, resolveRoot(n) # NoRoot
                 PROVE  \/ Shown(Argv, n).from = "nothing"
                        \/ /\ Shown(Argv, n).target = resolveRoot(n).path
                           /\ Writable(Shown(Argv, n)) # resolveRoot(n).readOnly
    BY DEF RootsMatchMounts
  <2>2. Validate(spec) /\ roots = Roots /\ n \in Path /\ Clean(n) = n
    BY <1>1, <2>1, NodesAssumption DEF Launched
  <2>3. roots \subseteq [path: Path, readOnly: BOOLEAN]
    BY <1>1, <2>2, RootsTyped
  <2>4. /\ resolveRoot(n) \in Roots /\ contains(resolveRoot(n).path, n)
        /\ \A o \in Roots : contains(o.path, n) => Len(o.path) <= Len(resolveRoot(n).path)
    BY <2>1, <2>2, <2>3, RootTaken
  <2>5. QED
    BY <1>1, <2>2, <2>4, RootShows, Zenon
<1>2. QED
  BY <1>1, AlwaysLaunched, PTL

-----------------------------------------------------------------------------
(* The requests.                                                           *)

\* t has every mount point and every directory above one.
Stands(t) == \A n \in Nodes : (\E p \in MountPoints : contains(n, p)) => t[n] = "dir"

\* In the tree t the directories of n up to k are there, and nothing is in the
\* way after them.
WayIsFree(t, n, k) ==
  /\ t[n] \notin {"dir", "outside"}
  /\ \A m \in Above(n) : t[m] \in {"none", "dir"} /\ (Len(m) < k => t[m] = "dir")

\* An upload works its way down from a writable root, and the way of one that
\* nothing crosses is free.
Descends(t, h) ==
  LET n == Clean(h.ask.path)
      root == resolveRoot(h.ask.path)
  IN /\ n \in Nodes /\ root # NoRoot /\ ~root.readOnly
     /\ Len(root.path) < h.k /\ h.k <= Len(n)
     /\ h.at = "open" <=> h.k = Len(n)
     /\ ~h.crossed => WayIsFree(t, n, h.k)

Sane(t, h) ==
  /\ h.at # "idle" => phase = "ready" /\ spec \in Busy
  /\ h.at = "remove" => h.ask.op # "put" /\ Clean(h.ask.path) \in Nodes
  /\ h.at \in {"look", "make", "open"} => Descends(t, h)

Landed(h) ==
  h.at = "done" /\ h.ask.op = "put" /\ ~h.crossed =>
    h.answer \in {"ok", "cut", "read_only", "path_forbidden", "is_directory"}

\* The inductive invariant: while uploads descend, the ways that count as free
\* are, and the directories they start from cannot go.
FilesInv ==
  /\ TypeOK /\ Launched
  /\ phase \in {"launched", "ready"} => Stands(tree)
  /\ \A r \in Requests : Sane(tree, req[r]) /\ Landed(req[r])

\* A request's record has its type, and so do the records the handlers make.
LEMMA HandlingTyped ==
  ASSUME NEW h \in Handling
  PROVE  /\ h.ask \in Asks /\ h.ask.path \in Path /\ h.ask.op \in Ops
         /\ h.k \in Nat /\ h.crossed \in BOOLEAN
         /\ h.ask.path # NoPath => Clean(h.ask.path) \in Nodes /\ Clean(h.ask.path) \in Path
         /\ \A a \in Answers : Answer(h, a) \in Handling
         /\ \A k \in Nat : After(h, k) \in Handling
         /\ \A ask \in Asks : [h EXCEPT !.ask = ask] \in Handling
         /\ \A at \in {"make", "copy", "remove"} : [h EXCEPT !.at = at] \in Handling
         /\ \A c \in BOOLEAN : [h EXCEPT !.crossed = c] \in Handling
PROOF
<1>1. /\ h.ask \in Asks /\ h.k \in Nat /\ h.crossed \in BOOLEAN
      /\ \A a \in Answers : Answer(h, a) \in Handling
      /\ \A ask \in Asks : [h EXCEPT !.ask = ask] \in Handling
      /\ \A at \in {"make", "copy", "remove"} : [h EXCEPT !.at = at] \in Handling
      /\ \A c \in BOOLEAN : [h EXCEPT !.crossed = c] \in Handling
  BY Zenon DEF Handling, Answer
<1>2. \A k \in Nat : After(h, k) \in Handling
  BY Zenon DEF Handling, After
<1>3. h.ask.path \in Path /\ h.ask.op \in Ops
  BY <1>1, AsksAssumption
<1>4. h.ask.path # NoPath => Clean(h.ask.path) \in Nodes /\ Clean(h.ask.path) \in Path
  BY <1>1, AsksAssumption, NodesAssumption
<1>5. QED
  BY <1>1, <1>2, <1>3, <1>4, SMTT(30)

\* What a step may make of the tree.
Changed(new) ==
  /\ new \in [Nodes -> Kinds] /\ Stands(new)
  /\ \A m \in Nodes : new[m] = tree[m] \/ new[m] \in {"none", "dir", "file"}

\* A request that a change of the tree by another one crosses is marked so,
\* and the way of the others stays free.
LEMMA OthersKeep ==
  ASSUME FilesInv, NEW new, Changed(new), NEW x \in Requests
  PROVE  LET h == [req[x] EXCEPT !.crossed =
                     @ \/ (req[x].at \notin {"idle", "done"} /\ Crosses(new, Clean(req[x].ask.path)))]
         IN h \in Handling /\ Sane(new, h) /\ Landed(h)
PROOF
<1> DEFINE o == req[x]
           n == Clean(o.ask.path)
           c == o.crossed \/ (o.at \notin {"idle", "done"} /\ Crosses(new, n))
           h == [o EXCEPT !.crossed = c]
<1>1. o \in Handling /\ Sane(tree, o) /\ Landed(o)
  BY DEF FilesInv, TypeOK
<1>2. c \in BOOLEAN /\ h \in Handling
  BY <1>1, HandlingTyped, Zenon
<1>3. /\ h.at = o.at /\ h.ask = o.ask /\ h.k = o.k /\ h.answer = o.answer /\ h.crossed = c
  BY <1>1 DEF Handling
<1>4. Landed(h)
  BY <1>1, <1>3, ZenonT(30) DEF Landed
<1>5. ASSUME o.at \in {"look", "make", "open"}, ~c PROVE WayIsFree(new, n, o.k)
  <2>1. ~o.crossed /\ ~Crosses(new, n) /\ n \in Nodes /\ WayIsFree(tree, n, o.k)
    BY <1>1, <1>5, Zenon DEF Sane, Descends
  <2>2. \A m \in Above(n) : new[m] = tree[m] \/ new[m] = "dir"
    BY <2>1, Zenon DEF Crosses
  <2>3. new[n] \notin {"dir", "outside"}
    BY <2>1 DEF Crosses, Changed, WayIsFree
  <2>4. QED
    BY <2>1, <2>2, <2>3, Zenon DEF WayIsFree
<1>6. o.at \in {"look", "make", "open"} => Descends(new, h)
  BY <1>1, <1>3, <1>5, Zenon DEF Sane, Descends
<1>7. Sane(new, h)
  BY <1>1, <1>3, <1>6 DEF Sane
<1>8. QED
  BY <1>2, <1>4, <1>7

\* A step of the requests keeps the invariant when it changes the tree as it
\* may and every request is sane after it.
LEMMA ServingKeeps ==
  ASSUME FilesInv, phase = "ready", UNCHANGED <<spec, phase, roots>>, moves' \in 0..MaxMoves,
         Changed(tree'), DOMAIN req' = Requests, req' = [x \in Requests |-> req'[x]],
         \A x \in Requests : req'[x] \in Handling /\ Sane(tree', req'[x]) /\ Landed(req'[x])
  PROVE  FilesInv'
PROOF
<1>1. TypeOK'
  BY DEF FilesInv, TypeOK, Changed
<1>2. Launched'
  BY DEF FilesInv, Launched, Roots
<1>3. Stands(tree)'
  BY DEF Changed, Stands, MountPoints
<1>4. ASSUME NEW x \in Requests PROVE Sane(tree, req[x])' /\ Landed(req[x])'
  <2>1. Landed(req[x])'
    BY Zenon DEF Landed
  <2>2. Sane(tree, req[x])'
    BY DEF Sane, Descends, WayIsFree, resolveRoot, Matching
  <2>3. QED
    BY <2>1, <2>2
<1>5. QED
  BY <1>1, <1>2, <1>3, <1>4 DEF FilesInv

\* The same for the step of one request.
LEMMA HandledKeeps ==
  ASSUME FilesInv, phase = "ready", NEW r \in Requests, NEW new, NEW h, Changed(new),
         Handled(r, new, h), h \in Handling, Sane(new, h), Landed(h)
  PROVE  FilesInv'
PROOF
<1>1. /\ UNCHANGED <<spec, phase, roots, moves>> /\ tree' = new /\ req'[r] = h
      /\ DOMAIN req' = Requests /\ req' = [x \in Requests |-> req'[x]]
      /\ \A x \in Requests \ {r} :
           req'[x] = [req[x] EXCEPT !.crossed =
                        @ \/ (req[x].at \notin {"idle", "done"} /\ Crosses(new, Clean(req[x].ask.path)))]
  BY DEF Handled
<1>2. ASSUME NEW x \in Requests
      PROVE  req'[x] \in Handling /\ Sane(tree', req'[x]) /\ Landed(req'[x])
  <2>1. CASE x = r
    BY <1>1, <2>1
  <2>2. CASE x # r
    BY <1>1, <2>2, OthersKeep
  <2>3. QED
    BY <2>1, <2>2
<1>3. moves' \in 0..MaxMoves /\ Changed(tree')
  BY <1>1, Zenon DEF FilesInv, TypeOK
<1>4. QED
  BY <1>1, <1>2, <1>3, ServingKeeps

\* An answer keeps a request sane when it is one that an upload may have.
LEMMA Answered ==
  ASSUME phase = "ready", spec \in Busy, NEW t, NEW h \in Handling, NEW a \in Answers,
         h.ask.op = "put" /\ ~h.crossed =>
           a \in {"ok", "cut", "read_only", "path_forbidden", "is_directory"}
  PROVE  Answer(h, a) \in Handling /\ Sane(t, Answer(h, a)) /\ Landed(Answer(h, a))
PROOF
<1>1. /\ Answer(h, a) \in Handling
      /\ Answer(h, a).at = "done" /\ Answer(h, a).answer = a /\ Answer(h, a).ask = h.ask
      /\ Answer(h, a).crossed = h.crossed
  BY HandlingTyped, ZenonT(30) DEF Answer, Handling
<1>2. QED
  BY <1>1, SMTT(30) DEF Sane, Landed

\* A request that only looks leaves the tree as it may be.
LEMMA TreeKept ==
  ASSUME FilesInv, phase = "ready"
  PROVE  Changed(tree)
PROOF
  BY DEF FilesInv, TypeOK, Changed

\* The directories of an upload's path, from its root down: they are in the
\* tree, and while the way is free each is reached through directories.
LEMMA WayDown ==
  ASSUME NEW n \in Nodes, NEW k \in 1..Len(n)
  PROVE  LET d == SubSeq(n, 1, k)
         IN /\ d \in Nodes /\ d \in Path /\ Len(d) = k /\ contains(d, n)
            /\ k < Len(n) => d \in Above(n)
            /\ \A m \in Above(d) : m \in Above(n) /\ Len(m) < k
            /\ \A m \in Above(n) : Len(m) = k => m = d
            /\ WayIsFree(tree, n, k) => Way(d) = "dir"
PROOF
<1> DEFINE d == SubSeq(n, 1, k)
<1>1. n \in Path /\ Len(n) \in Nat /\ \A m \in Nodes : m \in Path /\ Len(m) \in Nat
  BY NodesAssumption DEF Path
<1>2. d \in Nodes
  BY <1>1, NodesAssumption
<1>3. Len(d) = k /\ \A i \in 1..k : d[i] = n[i]
  BY <1>1 DEF Path
<1>4. d \in Path /\ contains(d, n)
  BY <1>1, <1>2, <1>3 DEF contains
<1> HIDE DEF d
<1>5. k < Len(n) => d \in Above(n)
  BY <1>1, <1>2, <1>3, <1>4 DEF Above
<1>6. ASSUME NEW m \in Above(d) PROVE m \in Above(n) /\ Len(m) < k
  <2>1. m \in Nodes /\ m \in Path /\ contains(m, d) /\ m # d
    BY <1>1 DEF Above
  <2>2. contains(m, n)
    BY <1>1, <1>4, <2>1, ContainsOrder
  <2>3. Len(m) # Len(d)
    BY <1>4, <2>1, ContainsOrder
  <2>4. Len(m) < k
    BY <1>1, <1>3, <2>1, <2>3 DEF contains
  <2>5. m # n
    BY <1>1, <2>4
  <2>6. QED
    BY <2>1, <2>2, <2>4, <2>5 DEF Above
<1>7. ASSUME NEW m \in Above(n), Len(m) = k PROVE m = d
  <2>1. m \in Path /\ contains(m, n)
    BY <1>1 DEF Above
  <2>2. contains(m, d)
    BY <1>1, <1>3, <1>4, <1>7, <2>1, ContainsChain
  <2>3. QED
    BY <1>3, <1>4, <1>7, <2>1, <2>2, ContainsOrder
<1>8. WayIsFree(tree, n, k) => Way(d) = "dir"
  BY <1>6 DEF WayIsFree, Way
<1>9. QED
  BY <1>2, <1>3, <1>4, <1>5, <1>6, <1>7, <1>8 DEF d

\* What an upload writes is not read-only: below the root it was given there
\* is no other mount on its way.
LEMMA NotFrozen ==
  ASSUME FilesInv, phase = "ready", spec \in Busy, NEW p, Clean(p) \in Nodes,
         resolveRoot(p) # NoRoot, ~resolveRoot(p).readOnly,
         NEW d \in Path, contains(d, Clean(p)), Len(resolveRoot(p).path) <= Len(d)
  PROVE  ~Frozen(d)
PROOF
<1> DEFINE root == resolveRoot(p)
           n == Clean(p)
<1>1. Launched /\ Validate(spec) /\ roots = Roots /\ roots \subseteq [path: Path, readOnly: BOOLEAN]
  BY DEF FilesInv, Launched, TypeOK
<1>2. n \in Path
  BY NodesAssumption
<1>3. /\ root \in Roots /\ contains(root.path, n) /\ root.path \in Path /\ root.readOnly \in BOOLEAN
      /\ \A o \in Roots : contains(o.path, n) => Len(o.path) <= Len(root.path)
  BY <1>1, <1>2, RootTaken
<1> HIDE DEF root, n
<1>4. contains(root.path, d)
  BY <1>2, <1>3, ContainsChain DEF root, n
<1>5. \A o \in Roots : contains(o.path, d) => Len(o.path) <= Len(root.path)
  <2>1. SUFFICES ASSUME NEW o \in Roots, contains(o.path, d) PROVE contains(o.path, n)
    BY <1>3
  <2>2. o.path \in Path
    BY <1>1
  <2>3. QED
    BY <1>2, <2>1, <2>2, ContainsOrder DEF n
<1>6. Len(spec.hide) = 0
  BY BusyAssumption, SMTT(30)
<1>7. Writable(Shown(Argv, d)) # root.readOnly
  BY <1>1, <1>3, <1>4, <1>5, <1>6, RootShows
<1>8. Writable(Shown(Argv, d))
  BY <1>3, <1>7 DEF root, Writable
<1>9. QED
  BY <1>8 DEF Frozen

\* What the system calls answer.
LEMMA CallsAnswer ==
  ASSUME NEW n
  PROVE  /\ OpenBeneath(n) \in {"ok", "io_error", "not_found", "path_escape"}
         /\ Create(n) \in {"ok", "io_error", "not_found", "path_escape"}
         /\ Mkdir(n) \in {"ok", "io_error", "not_found"}
PROOF
<1>1. OpenBeneath(n) \in {"ok", "io_error", "not_found", "path_escape"}
  BY DEF OpenBeneath
<1>2. QED
  BY <1>1 DEF Create, Mkdir

\* Reading and listing, and the refusals of a delete, change nothing but the
\* request.
LEMMA LookingKeeps ==
  ASSUME FilesInv, NEW r \in Requests, NEW ask \in Asks,
         handleFileGet(r, ask) \/ handleFileList(r, ask) \/ handleFileDelete(r, ask)
  PROVE  FilesInv'
PROOF
<1> DEFINE h == Taken(r, ask)
           root == resolveRoot(ask.path)
<1>1. phase = "ready" /\ spec \in Busy /\ ask.op # "put" /\ req[r] \in Handling
  BY DEF handleFileGet, handleFileList, handleFileDelete, Takes, FilesInv, TypeOK
<1>2. h \in Handling /\ h.ask = ask
  BY <1>1, HandlingTyped DEF Taken, Handling
<1>3. Changed(tree)
  BY <1>1, TreeKept, Zenon
<1> HIDE DEF h
<1>4. ASSUME NEW a \in Answers, Handled(r, tree, Answer(h, a)) PROVE FilesInv'
  BY <1>1, <1>2, <1>3, <1>4, Answered, HandledKeeps
<1>5. \A n : OpenBeneath(n) \in Answers
  BY CallsAnswer DEF Answers
<1>6. {"path_forbidden", "is_directory", "not_a_directory", "read_only", "root_delete"} \subseteq Answers
  BY DEF Answers
<1>7. CASE handleFileGet(r, ask)
  <2>1. \E a \in Answers : Handled(r, tree, Answer(h, a))
    BY <1>5, <1>6, <1>7, SMTT(30) DEF handleFileGet, h
  <2>2. QED
    BY <1>4, <2>1
<1>8. CASE handleFileList(r, ask)
  <2>1. \E a \in Answers : Handled(r, tree, Answer(h, a))
    BY <1>5, <1>6, <1>8, Zenon DEF handleFileList, h
  <2>2. QED
    BY <1>4, <2>1
<1>9. CASE handleFileDelete(r, ask)
  <2>1. \/ \E a \in Answers : Handled(r, tree, Answer(h, a))
        \/ root # NoRoot /\ Handled(r, tree, [h EXCEPT !.at = "remove"])
    BY <1>5, <1>6, <1>9 DEF handleFileDelete, h
  <2>2. ASSUME root # NoRoot, Handled(r, tree, [h EXCEPT !.at = "remove"]) PROVE FilesInv'
    <3>1. /\ [h EXCEPT !.at = "remove"] \in Handling /\ [h EXCEPT !.at = "remove"].at = "remove"
          /\ [h EXCEPT !.at = "remove"].ask = ask
      BY <1>2, HandlingTyped DEF Handling
    <3>2. Clean(ask.path) \in Nodes
      BY <2>2, AsksAssumption DEF resolveRoot
    <3>3. Sane(tree, [h EXCEPT !.at = "remove"]) /\ Landed([h EXCEPT !.at = "remove"])
      BY <1>1, <3>1, <3>2 DEF Sane, Landed
    <3>4. QED
      BY <1>1, <1>3, <2>2, <3>1, <3>3, HandledKeeps
  <2>3. QED
    BY <1>4, <2>1, <2>2
<1>10. QED
  BY <1>7, <1>8, <1>9

\* An upload starts below its root, whose directories stand.
LEMMA PutKeeps ==
  ASSUME FilesInv, NEW r \in Requests, NEW ask \in Asks, handleFilePut(r, ask)
  PROVE  FilesInv'
PROOF
<1> DEFINE n == Clean(ask.path)
           root == resolveRoot(ask.path)
           blocked == tree[n] \in {"dir", "outside"} \/ \E m \in Above(n) : tree[m] \notin {"none", "dir"}
           t == Taken(r, ask)
           b == [t EXCEPT !.crossed = blocked]
           h == After(b, Len(root.path) + 1)
<1>1. phase = "ready" /\ spec \in Busy /\ req[r] \in Handling /\ Changed(tree)
  BY TreeKept DEF handleFilePut, Takes, FilesInv, TypeOK
<1>2. t \in Handling
  BY <1>1, HandlingTyped, Zenon DEF Taken
<1>3. blocked \in BOOLEAN /\ b \in Handling /\ b.ask = ask /\ b.crossed = blocked
  BY <1>1, <1>2, HandlingTyped, ZenonT(30) DEF Taken, Handling
<1>4. ASSUME NEW a \in {"path_forbidden", "read_only", "is_directory"}, Handled(r, tree, Answer(t, a))
      PROVE  FilesInv'
  <2>1. a \in Answers
    BY DEF Answers
  <2> HIDE DEF t
  <2>2. QED
    BY <1>1, <1>2, <1>4, <2>1, Answered, HandledKeeps, Zenon
<1>5. ASSUME root # NoRoot, ~root.readOnly, n # root.path, Handled(r, tree, h)
      PROVE  FilesInv'
  <2>1. n \in Nodes /\ n \in Path /\ Len(n) \in Nat
    BY <1>5, AsksAssumption, NodesAssumption DEF resolveRoot, Path
  <2>2. roots = Roots /\ Launched /\ Validate(spec) /\ roots \subseteq [path: Path, readOnly: BOOLEAN]
    BY <1>1 DEF FilesInv, TypeOK, Launched
  <2>3. root \in Roots /\ contains(root.path, n)
    BY <1>5, <2>1, <2>2, RootTaken, Zenon
  <2>4. root.path \in Path /\ root.path \in MountPoints /\ Len(root.path) \in Nat
    BY <2>2, <2>3, RootsTyped DEF Path
  <2>5. Len(root.path) < Len(n)
    <3>1. Len(root.path) # Len(n)
      BY <1>5, <2>1, <2>3, <2>4, ContainsOrder, Zenon
    <3>2. QED
      BY <2>1, <2>3, <2>4, <3>1 DEF contains
  <2>6. ASSUME NEW m \in Above(n), Len(m) < Len(root.path) + 1 PROVE tree[m] = "dir"
    <3>1. m \in Nodes /\ m \in Path /\ contains(m, n) /\ Len(m) \in Nat
      BY NodesAssumption DEF Above, Path
    <3>2. Len(m) <= Len(root.path)
      BY <2>4, <2>6, <3>1
    <3>3. contains(m, root.path)
      BY <2>1, <2>3, <2>4, <3>1, <3>2, ContainsChain, Zenon
    <3>4. QED
      BY <1>1, <2>4, <3>1, <3>3, Zenon DEF Changed, Stands
  <2>7. ~blocked => WayIsFree(tree, n, Len(root.path) + 1)
    BY <2>6 DEF WayIsFree
  <2>8. h \in Handling
    <3> HIDE DEF b, blocked
    <3>1. Len(root.path) + 1 \in Nat
      BY <2>4
    <3>2. QED
      BY <1>3, <3>1, HandlingTyped, Zenon
  <2>9. /\ h.ask = ask /\ h.crossed = blocked /\ h.k = Len(root.path) + 1
        /\ h.at = IF h.k = Len(n) THEN "open" ELSE "look"
    BY <1>3, Zenon DEF After, Handling
  <2> HIDE DEF h, blocked, root, n
  <2>10. Descends(tree, h)
    BY <1>5, <2>1, <2>4, <2>5, <2>7, <2>9, SMTT(30) DEF Descends, root, n
  <2>11. Sane(tree, h) /\ Landed(h)
    BY <1>1, <2>9, <2>10, Zenon DEF Sane, Landed
  <2>12. QED
    BY <1>1, <1>5, <2>8, <2>11, HandledKeeps
<1>6. QED
  BY <1>4, <1>5 DEF handleFilePut

\* What is known of an upload that looks at, makes or opens a path.
LEMMA UploadKnown ==
  ASSUME FilesInv, NEW r \in Requests, req[r].at \in {"look", "make", "open"}
  PROVE  /\ phase = "ready" /\ spec \in Busy /\ req[r] \in Handling /\ Changed(tree)
         /\ Target(r) \in Nodes /\ Target(r) \in Path /\ Len(Target(r)) \in Nat
         /\ req[r].k \in 1..Len(Target(r)) /\ (req[r].at = "open" <=> req[r].k = Len(Target(r)))
         /\ ~req[r].crossed => WayIsFree(tree, Target(r), req[r].k)
         /\ \A d \in Path : contains(d, Target(r)) /\ req[r].k <= Len(d) => ~Frozen(d)
PROOF
<1> DEFINE n == Target(r)
           p == req[r].ask.path
           root == resolveRoot(p)
<1>1. /\ phase = "ready" /\ spec \in Busy /\ req[r] \in Handling /\ Descends(tree, req[r])
      /\ roots \subseteq [path: Path, readOnly: BOOLEAN]
  BY DEF FilesInv, TypeOK, Sane
<1>2. Changed(tree) /\ req[r].k \in Nat
  BY <1>1, TreeKept, HandlingTyped, ZenonT(30)
<1>3. /\ n \in Nodes /\ root # NoRoot /\ ~root.readOnly /\ Clean(p) = n
      /\ Len(root.path) < req[r].k /\ req[r].k <= Len(n)
      /\ (req[r].at = "open" <=> req[r].k = Len(n))
      /\ ~req[r].crossed => WayIsFree(tree, n, req[r].k)
  BY <1>1 DEF Descends, Target
<1>4. n \in Path /\ Len(n) \in Nat
  BY <1>3, NodesAssumption DEF Path
<1>5. root \in roots
  BY <1>1, <1>3, <1>4, RootTaken, Zenon
<1>6. Len(root.path) \in Nat
  BY <1>1, <1>5 DEF Path
<1> HIDE DEF n, root, p
<1>7. ASSUME NEW d \in Path, contains(d, n), req[r].k <= Len(d) PROVE ~Frozen(d)
  <2>1. Len(d) \in Nat
    BY SMTT(30) DEF Path
  <2>2. Len(root.path) <= Len(d)
    BY <1>2, <1>3, <1>6, <1>7, <2>1
  <2>3. QED
    BY <1>1, <1>3, <1>7, <2>2, NotFrozen DEF root
<1>8. req[r].k \in 1..Len(n)
  BY <1>2, <1>3, <1>4, <1>6, SMTT(30)
<1>9. QED
  BY <1>1, <1>2, <1>3, <1>4, <1>7, <1>8, Zenon DEF n

\* One directory further down: the request goes on to the next directory, or
\* to the file.
LEMMA NextDirectory ==
  ASSUME FilesInv, NEW r \in Requests, req[r].at \in {"look", "make"}, NEW new,
         ~req[r].crossed => WayIsFree(new, Target(r), req[r].k + 1)
  PROVE  LET h == After(req[r], req[r].k + 1)
         IN h \in Handling /\ Sane(new, h) /\ Landed(h)
PROOF
<1> DEFINE k == req[r].k
           n == Target(r)
           h == After(req[r], k + 1)
<1>1. /\ phase = "ready" /\ spec \in Busy /\ req[r] \in Handling /\ n \in Nodes
      /\ Len(n) \in Nat /\ k \in 1..Len(n) /\ k # Len(n)
  BY UploadKnown
<1>2. /\ h \in Handling /\ h.ask = req[r].ask /\ h.crossed = req[r].crossed /\ h.k = k + 1
      /\ h.at = IF k + 1 = Len(n) THEN "open" ELSE "look"
  <2>1. k + 1 \in Nat
    BY <1>1
  <2>2. h \in Handling
    BY <1>1, <2>1, HandlingTyped, ZenonT(30)
  <2>3. QED
    BY <1>1, <2>2 DEF After, Handling, Target
<1>3. /\ resolveRoot(req[r].ask.path) # NoRoot /\ ~resolveRoot(req[r].ask.path).readOnly
      /\ Len(resolveRoot(req[r].ask.path).path) < k
  BY Zenon DEF FilesInv, Sane, Descends
<1>4. Len(resolveRoot(req[r].ask.path).path) \in Nat
  <2>1. roots \subseteq [path: Path, readOnly: BOOLEAN] /\ n \in Path
    BY <1>1, NodesAssumption DEF FilesInv, TypeOK
  <2>2. resolveRoot(req[r].ask.path) \in roots
    BY <1>3, <2>1, RootTaken, Zenon DEF Target
  <2>3. QED
    BY <2>1, <2>2 DEF Path
<1> HIDE DEF h
<1>5. Descends(new, h)
  BY <1>1, <1>2, <1>3, <1>4 DEF Descends, Target
<1>6. Sane(new, h) /\ Landed(h)
  BY <1>1, <1>2, <1>5 DEF Sane, Landed
<1>7. QED
  BY <1>2, <1>6, Zenon DEF h

\* Looking at a directory: the next one when it is there, to be made when not.
LEMMA LookKeeps ==
  ASSUME FilesInv, NEW r \in Requests, mkdirLook(r)
  PROVE  FilesInv'
PROOF
<1> DEFINE k == req[r].k
           n == Target(r)
           d == SubSeq(n, 1, k)
           opened == OpenBeneath(d)
<1>1. req[r].at = "look"
  BY Zenon DEF mkdirLook
<1>2. /\ phase = "ready" /\ spec \in Busy /\ req[r] \in Handling /\ Changed(tree) /\ n \in Nodes
      /\ Len(n) \in Nat /\ k \in 1..Len(n) /\ k < Len(n)
      /\ ~req[r].crossed => WayIsFree(tree, n, k)
  BY <1>1, UploadKnown, SMTT(30)
<1>3. /\ d \in Above(n) /\ \A m \in Above(n) : Len(m) = k => m = d
      /\ WayIsFree(tree, n, k) => Way(d) = "dir"
  BY <1>2, WayDown
<1>4. opened \in Answers
  BY CallsAnswer, Zenon DEF Answers
<1> HIDE DEF d
<1>5. CASE opened = "ok"
  <2>1. ~req[r].crossed => WayIsFree(tree, n, k + 1)
    <3>1. SUFFICES ASSUME ~req[r].crossed, NEW m \in Above(n), Len(m) < k + 1 PROVE tree[m] = "dir"
      BY <1>2, Zenon DEF WayIsFree
    <3>2. CASE Len(m) < k
      BY <1>2, <3>1, <3>2 DEF WayIsFree
    <3>3. CASE Len(m) = k
      <4>1. m = d /\ tree[d] \in {"none", "dir"} /\ Way(d) = "dir"
        BY <1>2, <1>3, <3>1, <3>3 DEF WayIsFree
      <4>2. tree[d] # "none"
        BY <1>5, <4>1 DEF OpenBeneath
      <4>3. QED
        BY <4>1, <4>2, Zenon
    <3>4. Len(m) \in Nat
      BY NodesAssumption DEF Above, Path
    <3>5. QED
      BY <1>2, <3>1, <3>2, <3>3, <3>4, SMTT(30)
  <2>2. Handled(r, tree, After(req[r], k + 1))
    BY <1>5 DEF mkdirLook, d
  <2>3. QED
    BY <1>1, <1>2, <2>1, <2>2, NextDirectory, HandledKeeps, Zenon
<1>6. CASE opened = "path_escape"
  <2>1. req[r].crossed
    <3>1. ~req[r].crossed => Way(d) = "dir" /\ tree[d] \in {"none", "dir"}
      BY <1>2, <1>3 DEF WayIsFree
    <3>2. QED
      BY <1>6, <3>1, Zenon DEF OpenBeneath
  <2>2. Handled(r, tree, Answer(req[r], opened))
    BY <1>6, Zenon DEF mkdirLook, d
  <2>3. QED
    BY <1>2, <1>4, <2>1, <2>2, Answered, HandledKeeps, Zenon
<1>7. CASE opened \notin {"ok", "path_escape"}
  <2> DEFINE h == [req[r] EXCEPT !.at = "make"]
  <2>1. /\ h \in Handling /\ h.at = "make" /\ h.ask = req[r].ask /\ h.k = k
        /\ h.crossed = req[r].crossed
    BY <1>2, HandlingTyped DEF Handling
  <2>2. Handled(r, tree, h)
    BY <1>7 DEF mkdirLook, d
  <2>3. Descends(tree, req[r])
    BY <1>1, Zenon DEF FilesInv, Sane
  <2> HIDE DEF h
  <2>4. Descends(tree, h)
    BY <1>1, <2>1, <2>3, Zenon DEF Descends
  <2>5. Sane(tree, h) /\ Landed(h)
    BY <1>2, <2>1, <2>4 DEF Sane, Landed
  <2>6. QED
    BY <1>2, <2>1, <2>2, <2>5, HandledKeeps
<1>8. QED
  BY <1>5, <1>6, <1>7

\* Making a directory, also when another request has just made it.
LEMMA MakeKeeps ==
  ASSUME FilesInv, NEW r \in Requests, mkdirMake(r)
  PROVE  FilesInv'
PROOF
<1> DEFINE k == req[r].k
           n == Target(r)
           d == SubSeq(n, 1, k)
           made == Mkdir(d)
           new == [tree EXCEPT ![d] = IF @ = "none" THEN "dir" ELSE @]
<1>1. req[r].at = "make"
  BY SMTT(30) DEF mkdirMake
<1>2. /\ phase = "ready" /\ spec \in Busy /\ req[r] \in Handling /\ Changed(tree)
      /\ n \in Nodes /\ Len(n) \in Nat /\ k \in 1..Len(n) /\ k < Len(n)
      /\ ~req[r].crossed => WayIsFree(tree, n, k)
      /\ \A p \in Path : contains(p, n) /\ k <= Len(p) => ~Frozen(p)
  <2>1. req[r].at \in {"look", "make", "open"} /\ req[r].at # "open"
    BY <1>1
  <2>2. /\ phase = "ready" /\ spec \in Busy /\ req[r] \in Handling /\ Changed(tree)
        /\ n \in Nodes /\ Len(n) \in Nat /\ k \in 1..Len(n) /\ k # Len(n)
        /\ ~req[r].crossed => WayIsFree(tree, n, k)
        /\ \A p \in Path : contains(p, n) /\ k <= Len(p) => ~Frozen(p)
    BY <2>1, UploadKnown, Zenon
  <2> HIDE DEF n, k
  <2>3. k < Len(n)
    BY <2>2, SMTT(30)
  <2>4. QED
    BY <2>2, <2>3, Zenon
<1>3. /\ d \in Nodes /\ d \in Path /\ Len(d) = k /\ contains(d, n) /\ d \in Above(n)
      /\ \A m \in Above(n) : Len(m) = k => m = d
      /\ WayIsFree(tree, n, k) => Way(d) = "dir"
  BY <1>2, WayDown, Zenon
<1>4. made \in Answers
  BY CallsAnswer, SMTT(30) DEF Answers
<1> HIDE DEF d
<1>5. CASE made # "ok"
  <2>1. req[r].crossed
    <3>1. ~Frozen(d)
      <4>1. k <= Len(d)
        BY <1>2, <1>3, SMTT(30)
      <4>2. QED
        BY <1>2, <1>3, <4>1, ZenonT(30)
    <3>2. ~req[r].crossed => Way(d) = "dir"
      BY <1>2, <1>3, Zenon
    <3>3. QED
      BY <1>5, <3>1, <3>2, SMTT(30) DEF Mkdir
  <2>2. Handled(r, tree, Answer(req[r], made))
    BY <1>5, SMTT(30) DEF mkdirMake, d
  <2>3. QED
    BY <1>2, <1>4, <2>1, <2>2, Answered, HandledKeeps, Zenon
<1>6. CASE made = "ok"
  <2>1. /\ new \in [Nodes -> Kinds] /\ \A m \in Nodes : m # d => new[m] = tree[m]
        /\ new[d] = IF tree[d] = "none" THEN "dir" ELSE tree[d]
    BY <1>2, <1>3, Zenon DEF Changed, Kinds
  <2>2. Handled(r, new, After(req[r], k + 1))
    BY <1>6, Zenon DEF mkdirMake, d
  <2> HIDE DEF new
  <2>3. Changed(new)
    BY <1>2, <2>1 DEF Changed, Stands
  <2>4. ASSUME ~req[r].crossed PROVE WayIsFree(new, n, k + 1)
    <3>1. WayIsFree(tree, n, k)
      BY <1>2, <2>4, Zenon
    <3> HIDE DEF n, k
    <3>0. n # d /\ k \in Nat
      BY <1>2, <1>3
    <3>2. new[n] \notin {"dir", "outside"}
      BY <1>2, <2>1, <3>0, <3>1 DEF WayIsFree
    <3>3. ASSUME NEW m \in Above(n)
          PROVE  new[m] \in {"none", "dir"} /\ (Len(m) < k + 1 => new[m] = "dir")
      <4>1. m \in Nodes /\ Len(m) \in Nat
        BY NodesAssumption DEF Above, Path
      <4>2. tree[m] \in {"none", "dir"} /\ (Len(m) < k => tree[m] = "dir")
        BY <3>1 DEF WayIsFree
      <4>3. CASE m = d
        BY <2>1, <4>2, <4>3, SMTT(30)
      <4>4. CASE m # d
        <5>1. Len(m) # k /\ new[m] = tree[m]
          BY <1>3, <2>1, <4>1, <4>4, Zenon
        <5>2. Len(m) < k + 1 => Len(m) < k
          BY <3>0, <4>1, <5>1
        <5>3. QED
          BY <4>2, <5>1, <5>2
      <4>5. QED
        BY <4>3, <4>4
    <3>4. QED
      BY <3>2, <3>3, SMTT(30) DEF WayIsFree
  <2>5. QED
    BY <1>1, <1>2, <2>2, <2>3, <2>4, NextDirectory, HandledKeeps, ZenonT(30)
<1>7. QED
  BY <1>5, <1>6

\* Opening the file, and making it when it is not there.
LEMMA OpenKeeps ==
  ASSUME FilesInv, NEW r \in Requests, putOpen(r)
  PROVE  FilesInv'
PROOF
<1> DEFINE n == Target(r)
           opened == Create(n)
           new == [tree EXCEPT ![n] = IF @ = "none" THEN "file" ELSE @]
           h == [req[r] EXCEPT !.at = "copy"]
<1>1. req[r].at = "open"
  BY Zenon DEF putOpen
<1>2. /\ phase = "ready" /\ spec \in Busy /\ req[r] \in Handling /\ Changed(tree)
      /\ n \in Nodes /\ n \in Path /\ Len(n) \in Nat /\ req[r].k = Len(n) /\ Len(n) \in 1..Len(n)
      /\ ~req[r].crossed => WayIsFree(tree, n, Len(n))
      /\ \A p \in Path : contains(p, n) /\ req[r].k <= Len(p) => ~Frozen(p)
  BY <1>1, UploadKnown
<1>3. ~Frozen(n)
  <2>1. contains(n, n)
    BY <1>2, ContainsOrder, Zenon
  <2>2. req[r].k <= Len(n)
    BY <1>2
  <2>3. QED
    BY <1>2, <2>1, <2>2, Zenon
<1>4. opened \in Answers
  BY CallsAnswer, SMTT(30) DEF Answers
<1>5. CASE opened # "ok"
  <2>1. req[r].crossed
    <3>1. SUFFICES ASSUME ~req[r].crossed PROVE opened = "ok"
      BY <1>5, Zenon
    <3>2. SubSeq(n, 1, Len(n)) = n
      BY <1>2 DEF Path
    <3>3. Way(n) = "dir" /\ tree[n] \notin {"dir", "outside"}
      BY <1>2, <3>1, <3>2, WayDown, ZenonT(30) DEF WayIsFree
    <3>4. QED
      BY <1>3, <3>3 DEF Create, OpenBeneath
  <2>2. Handled(r, tree, Answer(req[r], opened))
    BY <1>5 DEF putOpen
  <2>3. QED
    BY <1>2, <1>4, <2>1, <2>2, Answered, HandledKeeps, Zenon
<1>6. CASE opened = "ok"
  <2>1. /\ new \in [Nodes -> Kinds] /\ \A m \in Nodes : m # n => new[m] = tree[m]
        /\ new[n] = IF tree[n] = "none" THEN "file" ELSE tree[n]
    BY <1>2 DEF Changed, Kinds
  <2>2. Handled(r, new, h)
    BY <1>6 DEF putOpen
  <2>3. h \in Handling /\ h.at = "copy"
    BY <1>2, HandlingTyped, Zenon DEF Handling
  <2> HIDE DEF new, h
  <2>4. Changed(new)
    BY <1>2, <2>1, Zenon DEF Changed, Stands
  <2>5. Sane(new, h) /\ Landed(h)
    BY <1>2, <2>3, Zenon DEF Sane, Landed
  <2>6. QED
    BY <1>2, <2>2, <2>3, <2>4, <2>5, HandledKeeps, Zenon
<1>7. QED
  BY <1>5, <1>6

\* The end of an upload.
LEMMA CopyKeeps ==
  ASSUME FilesInv, NEW r \in Requests, putCopy(r)
  PROVE  FilesInv'
PROOF
<1>1. PICK a \in {"ok", "cut"} : Handled(r, tree, Answer(req[r], a))
  BY DEF putCopy
<1>2. phase = "ready" /\ spec \in Busy /\ req[r] \in Handling /\ a \in Answers
  BY DEF putCopy, FilesInv, TypeOK, Sane, Answers
<1>3. QED
  BY <1>1, <1>2, TreeKept, Answered, HandledKeeps, Zenon

\* A mount point of a sandbox that serves files is a directory of the tree.
LEMMA PointsStand ==
  ASSUME FilesInv, phase = "ready", spec \in Busy, NEW p \in MountPoints
  PROVE  p \in Nodes /\ p \in Path /\ contains(p, p) /\ tree[p] = "dir"
PROOF
<1>1. p \in Nodes /\ p \in Path
  BY BusyAssumption, NodesAssumption DEF MountPoints
<1>2. contains(p, p)
  BY <1>1, ContainsOrder
<1>3. QED
  BY <1>1, <1>2 DEF FilesInv, Stands

\* RemoveAll holds on to what is above or at a mount point.
LEMMA RemoveHolds ==
  ASSUME FilesInv, phase = "ready", spec \in Busy, NEW n \in Nodes,
         NEW m \in Below(n) \cup {n}, NEW p \in MountPoints, contains(m, p)
  PROVE  m \in Held(n)
PROOF
<1>1. p \in Nodes /\ p \in Path /\ contains(p, p) /\ tree[p] = "dir"
  BY PointsStand
<1>2. n \in Path /\ m \in Path /\ contains(n, m)
  BY NodesAssumption, ContainsOrder DEF Below
<1>3. contains(n, p)
  BY <1>1, <1>2, ContainsOrder
<1>4. p \in Below(n) \cup {n}
  BY <1>1, <1>3 DEF Below
<1>5. QED
  BY <1>1, <1>4 DEF Held

\* Removing never takes a mount point, or a directory above one.
LEMMA RemoveKeeps ==
  ASSUME FilesInv, NEW r \in Requests, deleteRemove(r)
  PROVE  FilesInv'
PROOF
<1> DEFINE n == Target(r)
           gone == Below(n) \cup {n}
           all == [m \in Nodes |-> IF m \in gone \ Held(n) THEN "none" ELSE tree[m]]
           one == [tree EXCEPT ![n] = "none"]
<1>1. /\ phase = "ready" /\ spec \in Busy /\ req[r] \in Handling /\ req[r].ask.op # "put" /\ n \in Nodes
  BY Zenon DEF deleteRemove, FilesInv, TypeOK, Sane, Target
<1>2. Changed(tree)
  BY <1>1, TreeKept, SMTT(30)
<1>3. ASSUME NEW new, Changed(new), NEW a \in Answers, Handled(r, new, Answer(req[r], a))
      PROVE  FilesInv'
  BY <1>1, <1>3, Answered, HandledKeeps, Zenon
<1>4. {"ok", "io_error", "not_found"} \subseteq Answers
  BY DEF Answers
<1>5. Changed(all)
  <2>1. all \in [Nodes -> Kinds] /\ \A m \in Nodes : all[m] = tree[m] \/ all[m] = "none"
    BY <1>2 DEF Changed, Kinds
  <2>2. ASSUME NEW m \in Nodes, NEW p \in MountPoints, contains(m, p) PROVE all[m] = "dir"
    <3>1. tree[m] = "dir"
      BY <1>2, <2>2, Zenon DEF Changed, Stands
    <3>2. m \in gone => m \in Held(n)
      BY <1>1, <2>2, RemoveHolds
    <3>3. QED
      BY <3>1, <3>2
  <2> HIDE DEF all
  <2>3. QED
    BY <2>1, <2>2 DEF Changed, Stands
<1>6. ASSUME Held(n) = {} PROVE Changed(one)
  <2>1. /\ one \in [Nodes -> Kinds] /\ \A m \in Nodes : m # n => one[m] = tree[m]
        /\ one[n] = "none"
    BY <1>1, <1>2, Zenon DEF Changed, Kinds
  <2>2. \A p \in MountPoints : ~contains(n, p)
    BY <1>1, <1>6, RemoveHolds, Zenon
  <2> HIDE DEF one
  <2>3. QED
    BY <1>2, <2>1, <2>2, Zenon DEF Changed, Stands
<1>7. \/ \E a \in Answers : Handled(r, all, Answer(req[r], a))
      \/ \E a \in Answers : Handled(r, tree, Answer(req[r], a))
      \/ Held(n) = {} /\ \E a \in Answers : Handled(r, one, Answer(req[r], a))
  BY <1>4 DEF deleteRemove
<1> HIDE DEF all, one
<1>8. QED
  BY <1>2, <1>3, <1>5, <1>6, <1>7, SMTT(30)

\* What the tenant's processes do.
LEMMA ProcessKeeps ==
  ASSUME FilesInv, NEW n \in Nodes, NEW kind \in {"none", "dir", "file"}, Process(n, kind)
  PROVE  FilesInv'
PROOF
<1>1. /\ phase = "ready" /\ spec \in Busy /\ moves < MaxMoves /\ moves' = moves + 1
      /\ n \notin MountPoints /\ \A m \in Below(n) : tree[m] = "none"
      /\ tree' = [tree EXCEPT ![n] = kind] /\ UNCHANGED <<spec, phase, roots>>
      /\ req' = [x \in Requests |->
                   [req[x] EXCEPT !.crossed =
                      @ \/ (req[x].at \notin {"idle", "done"} /\ Crosses(tree', Clean(req[x].ask.path)))]]
  BY DEF Process, Target
<1>2. Changed(tree)
  BY <1>1, TreeKept
<1>3. /\ tree' \in [Nodes -> Kinds] /\ tree'[n] = kind /\ \A m \in Nodes : m # n => tree'[m] = tree[m]
  BY <1>1, <1>2 DEF Changed, Kinds
<1>4. ASSUME NEW p \in MountPoints PROVE ~contains(n, p)
  <2>1. p \in Nodes /\ tree[p] = "dir"
    BY <1>1, PointsStand
  <2>2. contains(n, p) => p \in Below(n)
    BY <1>1, <2>1 DEF Below
  <2>3. QED
    BY <1>1, <2>1, <2>2
<1>5. Changed(tree')
  BY <1>2, <1>3, <1>4 DEF Changed, Stands
<1>6. ASSUME NEW x \in Requests
      PROVE  req'[x] \in Handling /\ Sane(tree', req'[x]) /\ Landed(req'[x])
  BY <1>1, <1>5, OthersKeep
<1>7. moves' \in 0..MaxMoves
  BY <1>1, SeedsAssumption DEF FilesInv, TypeOK
<1>8. req' = [x \in Requests |-> req'[x]] /\ DOMAIN req' = Requests
  BY <1>1
<1>9. QED
  BY <1>1, <1>5, <1>6, <1>7, <1>8, ServingKeeps, Zenon

\* A launch mounts the mount points, and no request has been taken before it.
LEMMA LaunchKeeps ==
  ASSUME FilesInv, launch \/ configureInit
  PROVE  FilesInv'
PROOF
<1>1. TypeOK /\ Launched /\ Launched'
  <2>1. [Next]_vars
    BY Zenon DEF Next
  <2>2. QED
    BY <2>1, LaunchedStep DEF FilesInv
<1>2. \A r \in Requests : req[r].at = "idle"
  BY DEF launch, configureInit, FilesInv, Sane
<1>3. req' = req
  BY DEF launch, configureInit
<1>4. \A r \in Requests : Sane(tree, req[r])' /\ Landed(req[r])'
  BY <1>2, <1>3, Zenon DEF Sane, Landed
<1>5. CASE launch
  <2>1. Mounted \in [Nodes -> Kinds] /\ Stands(Mounted)
    BY SeedsAssumption DEF Mounted, Kinds, Stands
  <2>2. \/ phase' = "launched" /\ tree' = Mounted
        \/ phase' = "failed" /\ tree' = tree
    BY <1>5 DEF launch
  <2>3. TypeOK'
    BY <1>1, <1>5, <2>1, <2>2, Zenon DEF launch, TypeOK
  <2>4. (phase \in {"launched", "ready"} => Stands(tree))'
    BY <1>5, <2>1, <2>2, Zenon DEF launch, Stands, MountPoints
  <2>5. QED
    BY <1>1, <1>4, <2>3, <2>4, Zenon DEF FilesInv
<1>6. CASE configureInit
  <2>1. Validate(spec) /\ Roots \subseteq [path: Path, readOnly: BOOLEAN]
    BY <1>1, <1>6, RootsTyped DEF configureInit, Launched
  <2>2. TypeOK'
    BY <1>1, <1>6, <2>1, Zenon DEF configureInit, TypeOK
  <2>3. (phase \in {"launched", "ready"} => Stands(tree))'
    BY <1>6 DEF configureInit, FilesInv, Stands, MountPoints
  <2>4. QED
    BY <1>1, <1>4, <2>2, <2>3 DEF FilesInv
<1>7. QED
  BY <1>5, <1>6

\* FilesInv is inductive: one case per action.
LEMMA FilesStep ==
  ASSUME FilesInv, [Next]_vars
  PROVE  FilesInv'
PROOF
<1>1. CASE launch \/ configureInit
  BY <1>1, LaunchKeeps
<1>2. ASSUME NEW r \in Requests, NEW ask \in Asks,
             handleFileGet(r, ask) \/ handleFileList(r, ask)
               \/ handleFilePut(r, ask) \/ handleFileDelete(r, ask)
      PROVE  FilesInv'
  BY <1>2, LookingKeeps, PutKeeps
<1>3. ASSUME NEW r \in Requests,
             mkdirLook(r) \/ mkdirMake(r) \/ putOpen(r) \/ putCopy(r) \/ deleteRemove(r)
      PROVE  FilesInv'
  BY <1>3, LookKeeps, MakeKeeps, OpenKeeps, CopyKeeps, RemoveKeeps
<1>4. ASSUME NEW n \in Nodes, NEW kind \in {"none", "dir", "file"}, Process(n, kind)
      PROVE  FilesInv'
  BY <1>4, ProcessKeeps, Zenon
<1>5. CASE UNCHANGED vars
  <2>1. UNCHANGED <<spec, phase, roots, tree, req, moves>>
    BY <1>5, Zenon DEF vars
  <2>2. TypeOK' /\ Launched'
    BY <2>1, Zenon DEF FilesInv, TypeOK, Launched, Roots
  <2>3. (phase \in {"launched", "ready"} => Stands(tree))'
    BY <2>1, SMTT(30) DEF FilesInv, Stands, MountPoints
  <2>4. \A r \in Requests : Sane(tree, req[r])' /\ Landed(req[r])'
    BY <2>1, ZenonT(30) DEF FilesInv, Sane, Landed, Descends, WayIsFree, resolveRoot, Matching
  <2>5. QED
    BY <2>2, <2>3, <2>4 DEF FilesInv
<1>6. QED
  BY <1>1, <1>2, <1>3, <1>4, <1>5 DEF Next

\* FilesInv holds at the start.
LEMMA FilesInit == Init => FilesInv
PROOF
<1>1. SUFFICES ASSUME Init PROVE FilesInv
  OBVIOUS
<1>2. Idle \in Handling /\ Idle.at = "idle"
  <2>1. (CHOOSE a \in Asks : TRUE) \in Asks
    BY AsksAssumption
  <2>2. QED
    BY <2>1 DEF Idle, Handling, Answers
<1>3. TypeOK
  BY <1>1, <1>2, SeedsAssumption DEF Init, TypeOK, Kinds
<1>4. \A r \in Requests : Sane(tree, req[r]) /\ Landed(req[r])
  BY <1>1, <1>2 DEF Init, Sane, Landed
<1>5. QED
  BY <1>1, <1>3, <1>4 DEF FilesInv, Init, Launched

\* The types, whatever the requests and the tenant do.
THEOREM FilesystemTypeCorrect == Spec => []TypeOK
PROOF
<1>1. FilesInv => TypeOK
  BY DEF FilesInv
<1>2. QED
  BY <1>1, FilesInit, FilesStep, PTL DEF Spec

\* However many requests make directories on its way, and whatever the tenant
\* does elsewhere, an upload to a writable root whose path is free lands or is
\* cut off (handleFilePut, mkdirAllBeneath).
THEOREM UploadsAlwaysLand == Spec => []UploadsLand
PROOF
<1>1. FilesInv => UploadsLand
  BY DEF FilesInv, Landed, UploadsLand
<1>2. QED
  BY <1>1, FilesInit, FilesStep, PTL DEF Spec
=============================================================================
