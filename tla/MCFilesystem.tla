------------------------------ MODULE MCFilesystem ------------------------------
(***************************************************************************)
(* Instances of Filesystem: every spec built from a few paths, among them  *)
(* the nested, clashing and malformed ones, and requests on one with a     *)
(* read-only and a writable mount in its workspace.                        *)
(***************************************************************************)
EXTENDS Filesystem

W == <<"workspace">>
D == <<"data">>
In(d, name) == Append(d, name)

SomeNames == {"workspace", "data", "in", "x", "sub", "f", "u", "v", "w", "1", "m", "n", "o", "p", "a", "ro",
              "rw", "l", "out", "g", ".", "..", ""}

Good == [volume |-> "v", canonical |-> TRUE, there |-> TRUE]
Mount(p, src, ro) == [path |-> p, source |-> src, readOnly |-> ro]

Workspaces == {W, <<"usr">>, <<"home", "u">>, <<"run">>}
Targets == {D, In(D, "in"), In(In(D, "in"), "x"), In(W, "sub"), W, <<"usr">>, In(<<"usr">>, "lib"),
            <<"etc">>, <<"home">>, <<"data", "..", "x">>}
HidePaths == {D, In(D, "in"), In(W, "f"), In(<<"usr">>, "lib"), <<"proc", "1">>, Root}

Mounts == {Mount(p, Good, ro) : p \in Targets, ro \in BOOLEAN}
MountLists ==
  {<<>>} \cup {<<m>> : m \in Mounts}
    \cup {<<Mount(p, Good, FALSE), Mount(q, Good, TRUE)>> : p \in Targets, q \in Targets}
    \cup {<<Mount(In(In(D, "in"), "x"), Good, FALSE), Mount(D, Good, ro), Mount(In(D, "in"), Good, ~ro)>>
            : ro \in BOOLEAN}
    \cup {[i \in 1..4 |-> Mount(<<<<"m">>, <<"n">>, <<"o">>, <<"p">>>>[i], Good, FALSE)]}
Other(volume, canonical, there) ==
  <<Mount(D, [volume |-> volume, canonical |-> canonical, there |-> there], TRUE)>>

Form(tier, ws, mounts, system, hide) ==
  [tier |-> tier, ws |-> ws, mounts |-> mounts, system |-> system, hide |-> hide]

Nested ==
  Form("userns", W, <<Mount(In(W, "ro"), Good, TRUE), Mount(In(W, "rw"), Good, FALSE)>>, <<>>, <<>>)

AllSpecs ==
  {Form("userns", ws, ms, <<>>, hide)
     : ws \in Workspaces, ms \in MountLists, hide \in {<<>>} \cup {<<h>> : h \in HidePaths}}
    \cup {Form("chroot", W, ms, <<>>, <<>>) : ms \in {<<>>, <<Mount(D, Good, TRUE)>>}}
    \cup {Form("filesystem", W, ms, <<>>, <<>>)
            : ms \in {Other("w", TRUE, TRUE), Other("v", FALSE, TRUE), Other("v", TRUE, FALSE),
                      Other("v", TRUE, TRUE)}}
    \cup {Form("userns", W, <<>>, <<p>>, <<>>) : p \in {<<"usr">>, <<"opt">>}}
    \cup {Nested}
BusySpecs == {Nested}

Paths == {In(In(W, "a"), "f"), In(In(W, "ro"), "f"), In(In(W, "rw"), "f"), In(W, "l"), In(W, "out"),
          In(In(In(D, "in"), "x"), "f"), In(In(W, "sub"), "f"), In(W, "f"), <<"usr", "lib", "f">>,
          <<"home", "u", "f">>, <<"run", "f">>, <<"etc", "f">>}
AllNodes == UNION {{SubSeq(p, 1, k) : k \in 0..Len(p)} : p \in Paths}

SeedFiles ==
  [n \in {In(In(W, "ro"), "f"), In(In(W, "rw"), "f"), In(W, "l"), In(W, "out")} |->
     IF n = In(W, "l") THEN "inside" ELSE IF n = In(W, "out") THEN "outside" ELSE "file"]

Ask(op, p) == [op |-> op, path |-> p]
AllAsks ==
  {Ask(op, p) : op \in {"get", "put", "delete"}, p \in {In(In(W, "a"), "f"), In(In(W, "ro"), "f")}}
    \cup {Ask("put", In(W, "a")), Ask("delete_all", In(W, "a")), Ask("delete", In(W, "a")),
          Ask("delete", In(W, "rw")), Ask("get", In(W, "l")), Ask("get", In(W, "out")),
          Ask("get", W), Ask("list", NoPath), Ask("list", In(W, "a")), Ask("put", <<"etc", "f">>),
          Ask("delete", NoPath), Ask("put", <<"workspace", "ro", "..", "rw", "f">>),
          Ask("put", W)}
DeletesAll == {Ask("delete_all", In(W, "sub")), Ask("delete_all", In(W, "a"))}

\* A directory of the workspace with a writable mount in it.
Deep == Form("userns", W, <<Mount(<<"workspace", "sub", "f">>, Good, FALSE)>>, <<>>, <<>>)
DeepSpecs == {Deep}
DeepFile == <<"workspace", "sub", "f", "g">>
DeepNodes == AllNodes \cup {DeepFile}
DeepSeeds == [n \in {DeepFile} |-> "file"]

UsrDirs == {<<"usr">>, <<"usr", "lib">>}
=============================================================================
