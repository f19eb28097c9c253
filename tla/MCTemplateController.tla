------------------------- MODULE MCTemplateController -------------------------
EXTENDS TemplateController

CONSTANTS d1, d2

\* Two tags of one repository and one of another, a tag nobody has pushed, and
\* a reference by digest.
Ref(host, repo, tag, digest) == [host |-> host, repo |-> repo, tag |-> tag, digest |-> digest]
v1 == Ref("reg.io", "a", "v1", None)
v2 == Ref("reg.io", "a", "v2", None)
other == Ref("", "b", "v1", None)
gone == Ref("reg.io", "a", "v0", None)
pin == Ref("reg.io", "a", "", d1)
Images5 == {v1, v2, other, gone, pin}
Allowlist == {"reg.io", "docker.io"}
Pushed == {[r \in Refs |-> CASE r = gone -> None [] r = other -> d2 [] OTHER -> d1]}
Hidden == {v2}

Plain(r) ==
  [ref |-> r, resolve |-> TRUE, secret |-> FALSE, filesystem |-> "", minTier |-> "",
   userns |-> FALSE, workspace |-> "own", volume |-> FALSE, reviewed |-> FALSE]
Secret(r) == [Plain(r) EXCEPT !.secret = TRUE]
Volume == [Plain(other) EXCEPT !.volume = TRUE]
Overlap == [Plain(pin) EXCEPT !.workspace = "platform"]

Written ==
  {{Plain(v1), Secret(v2), [Plain(pin) EXCEPT !.filesystem = "bwrap", !.userns = TRUE]},
   {[Plain(v1) EXCEPT !.minTier = "chroot"],
    [Plain(v1) EXCEPT !.resolve = FALSE, !.minTier = "chroot"]},
   {Plain(gone), Overlap, Plain(other)},
   {Volume, [Volume EXCEPT !.reviewed = TRUE]}}
Unreadable == {{Secret(v2)}}
=============================================================================
