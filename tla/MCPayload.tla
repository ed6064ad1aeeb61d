----------------------------- MODULE MCPayload -----------------------------
(* The small instance of Accepting: a page that is a file in one tree and a *)
(* directory in the next, a symlink, a tree over the limit, one without an   *)
(* index; and every script of one small expression.                          *)
EXTENDS Accepting

CONSTANTS v1, v2

root == <<>>
index == <<"index.html">>
p == <<"p">>
q == <<"p", "q">>

MCPaths == <<index, p, q>>
MCPagePaths == {index, p, q}
MCSize == (v1 :> 1) @@ (v2 :> 2) @@ (Outside :> 0)

Tree(r, i, pp, qq) ==
    (root :> r) @@ (index :> i) @@ (p :> pp) @@ (q :> qq)
Site(i, pp, qq) == Tree(Directory, i, pp, qq)
PythonTree(script) == Tree(script, None, None, None)

Bases == {Name("os"), Name("environ"), Name("config"), Attribute(Name("os"), "environ"),
          Attribute(Name("config"), "environ"), Attribute(Name("config"), "os"),
          Attribute(Attribute(Name("config"), "os"), "environb")}
Functions_ == {Attribute(e, "get") : e \in Bases}
              \cup {Attribute(e, "getenv") : e \in {Name("os"), Name("config")}}
              \cup {Attribute(Name("environ"), "pop"), Name("getenv"), Name("get")}
Arguments ==
    {[args |-> a, keyword |-> None] : a \in {<<>>, <<"PORT">>, <<"HOST">>}} \cup
    {[args |-> <<>>, keyword |-> [arg |-> g, value |-> "PORT"]] : g \in {"key", "default"}} \cup
    {[args |-> <<>>, keyword |-> [arg |-> "key", value |-> "HOST"]]}
Calls ==
    {Subscript(e, k, "load") : e \in Bases, k \in {"PORT", "HOST"}} \cup
    {Subscript(e, "PORT", ctx) : e \in Bases, ctx \in {"store", "del"}} \cup
    {Call(f, a.args, a.keyword) : f \in Functions_, a \in Arguments}
MCExpressions == Bases \cup Functions_ \cup Calls

\* The names of the script are what they seem to be; or config is a module that
\* imports os, or os under another name; or os is something else.
Usual == [id \in {"os", "environ", "config", "getenv", "get"} |->
             CASE id = "os" -> "os" [] id = "environ" -> "environ" [] id = "getenv" -> "reader"
               [] OTHER -> "other"]
MCBindings == {Usual, [Usual EXCEPT !["config"] = "package"],
               [Usual EXCEPT !["config"] = "os"], [Usual EXCEPT !["os"] = "other"]}

\* An expression and what it is made of.
Parts[e \in MCExpressions] ==
    {e} \cup CASE e.kind = "attribute" -> Parts[e.of]
               [] e.kind = "subscript" -> Parts[e.base]
               [] e.kind = "call"      -> Parts[e.func]
               [] OTHER                -> {}
Script(e, b) == [valid |-> TRUE, walk |-> Parts[e], names |-> b]
MCScripts == {Script(e, b) : e \in Calls, b \in MCBindings} \cup
             {[Script(Call(Name("getenv"), <<"PORT">>, None), Usual) EXCEPT !.valid = FALSE]}

MCTrees ==
    {Site(v1, v1, None), Site(v2, None, None), Site(v1, Directory, v1),
     Site(v1, Symlink, None), Tree(None, None, None, None),
     PythonTree(Script(Subscript(Name("environ"), "PORT", "load"), Usual))}
MCInitial == MCTrees \cup {Site(None, v1, None), Site(v2, v1, None),
                           PythonTree(Script(Subscript(Name("config"), "PORT", "load"), Usual))}
=============================================================================
