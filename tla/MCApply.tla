------------------------------ MODULE MCApply -------------------------------
(* Small instances of Apply for TLC.                                       *)
EXTENDS Promises, TLC

CONSTANTS v1, v2, v3, tok1, tok2, tok3, tok4

Python(version, deps, site) ==
    [kind |-> "python", pages |-> ("app.py" :> version), deps |-> deps, site |-> site]
Static(pages, site) == [kind |-> "static", pages |-> pages, deps |-> FALSE, site |-> site]

Plain == Python(v1, FALSE, "x.test")
WithDeps == Python(v2, TRUE, "x.test")
WithNewDeps == Python(v3, TRUE, "x.test")
TwoPages == Static("index.html" :> v1 @@ "old.html" :> v1, "x.test")
OnePage == Static("index.html" :> v2, "y.test")

MCPages == {"app.py", "index.html", "old.html"}
MCVersions == {v1, v2, v3}

OneName == {"a"}
OneIds == {"a", "a-gw"}
OneGw == [n \in OneName |-> "a-gw"]

TwoNames == {"a", "b"}
TwoIds == {"a", "a-gw", "b", "b-gw"}
TwoGw == ("a" :> "a-gw") @@ ("b" :> "b-gw")

\* A third name, whose gateway's account the host already has.
ThreeNames == {"a", "b", "c"}
ThreeIds == TwoIds \cup {"c", "c-gw"}
ThreeGw == TwoGw @@ ("c" :> "c-gw")

\* A unit whose name is the stem of another one's gateway.
NestedNames == {"a", "a-gw"}
NestedIds == {"a", "a-gw", "a-gw-gw"}
NestedGw == ("a" :> "a-gw") @@ ("a-gw" :> "a-gw-gw")

AllTargets == {Plain, WithDeps, WithNewDeps, TwoPages, OnePage}
PlainAndStatic == {Plain, OnePage}
PlainOnly == {Plain}

EveryVerb ==
    {"plan", "user", "mkdir", "chmod", "write", "rm", "rm temp", "unmark", "sync", "mark", "chgrp",
     "chown", "join", "leave", "restart caddy", "daemon-reload", "start", "reload caddy",
     "commit", "flush", "print", "load", "disable", "rm tree", "userdel", "drop", "prune"}

\* Without the steps after whose failure a retry is known to fall short.
HarmlessVerbs ==
    EveryVerb \ {"rm", "rm temp", "unmark", "restart caddy", "flush", "print", "disable", "rm tree"}

\* A file in a directory all units share, and one in each of the unit's own.
SomeFiles == {Env("a"), Page("a", "index.html"), Marker("a")}

LibOnly == {Lib}
NoDirs == {}
ThreeTokens == {tok1, tok2, tok3}
FourTokens == {tok1, tok2, tok3, tok4}
TokenSymmetry == Permutations(Tokens)
=============================================================================
