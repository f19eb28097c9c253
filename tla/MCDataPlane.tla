------------------------------ MODULE MCDataPlane ------------------------------
EXTENDS DataPlane, TLC

CONSTANTS r1, r2, k1, k2, i1

A == <<"sbx", "a">>
B == <<"sbx", "8000">>
TwoNames == {A, B}
TwoOwners == [s \in Ids |-> IF s = A THEN "acme" ELSE "umbra"]
Tenants == [k \in Keys |-> IF k = k1 THEN "acme" ELSE "umbra"]

Ask(k, url) == [key |-> k, presents |-> "key", listed |-> TRUE, url |-> url]

\* Keys come and go; one sandbox.
KeyAsks == {Ask(k1, PathEndpointURL(A)),
            [Ask(k1, PathEndpointURL(A)) EXCEPT !.presents = "wrong"]}
KeyScene == [asks |-> KeyAsks, keys |-> {k1}, ids |-> {A}]

\* Two tenants' sandboxes share an address.
NameAsks == {Ask(k1, HostEndpointURL(A)), Ask(k1, PathEndpointURL(B)), Ask(k1, HostPortURL(A, "8000"))}
NameScene == [asks |-> NameAsks, keys |-> {}, ids |-> {A, B}]

\* Everything else a request may be.
OddAsks == {[Ask(k1, PathEndpointURL(A)) EXCEPT !.presents = "malformed"],
            [Ask(k1, PathEndpointURL(A)) EXCEPT !.listed = FALSE],
            Ask(k2, PathEndpointURL(A)),
            Ask(k1, Url("path", A, None, "")), Ask(k1, Url("path", A, "x", "/")),
            Ask(k1, Url("path", A, None, "ports")), Ask(k1, Url("host", A, None, "ports")),
            Ask(k1, PathPortURL(A, "8000"))}
OddScene == [asks |-> OddAsks, keys |-> {}, ids |-> {A}]

AllAsks == KeyAsks \cup NameAsks \cup OddAsks
ClientScene == [asks |-> {}, keys |-> {}, ids |-> {}]
AllScenes == [keys |-> KeyScene, names |-> NameScene, odd |-> OddScene, client |-> ClientScene]

\* Names of which one reads as a port of the other.
Clash == {<<"a">>, <<"a", "8000">>}
ClashOwners == [s \in Ids |-> "acme"]
ClashAsks == {Ask(k1, HostEndpointURL(s)) : s \in Clash}
ClashScenes == [names |-> [asks |-> ClashAsks, keys |-> {}, ids |-> Clash]]

RequestSymmetry == Permutations(Requests)
=============================================================================
