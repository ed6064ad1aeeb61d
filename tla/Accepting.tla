----------------------------- MODULE Accepting -----------------------------
(***************************************************************************)
(* What reads_port is to find out about a script: whether some expression  *)
(* of it takes PORT from the process environment.  That depends on what    *)
(* the names of the script are bound to and on what its expressions do     *)
(* with the environment; reads_port goes by the names.                     *)
(***************************************************************************)
EXTENDS Publishing

CONSTANTS
    Scripts,      \* scripts to compare reads_port on; names: a script's bindings
    Expressions,  \* what occurs in them
    Bindings      \* what names can be bound to

\* "package" is a module that imports os, "reader" a function that returns the
\* variable it is given, "taker" one that also removes or sets it.
Objects == {"os", "environ", "reader", "taker", "package", "other"}

ASSUME BindingsAssumption ==
    \A b \in Bindings : \A e \in Expressions :
        e.kind = "name" => e.id \in STRING /\ e.id \in DOMAIN b /\ b[e.id] \in Objects

\* ast.walk visits what an expression is made of, too.
ASSUME ScriptsAssumption ==
    /\ None \notin {"python", [arg |-> "key", value |-> "PORT"]}
    /\ \A e \in Expressions : e.kind = "attribute" => e.of \in Expressions
    /\ \A script \in Scripts :
          /\ script \notin {None, Directory} /\ script.valid \in BOOLEAN
          /\ script.names \in Bindings /\ script.walk \subseteq Expressions
          /\ \A e \in script.walk :
                /\ e.kind = "attribute" => e.of \in script.walk
                /\ e.kind = "subscript" =>
                      e.base \in script.walk /\ e.ctx \in {"load", "store", "del"}
                /\ e.kind = "call" =>
                      /\ e.func \in script.walk /\ e.args \in Seq(STRING)
                      /\ e.keyword \in {None} \cup [arg : STRING, value : STRING]

-----------------------------------------------------------------------------
(* What the expressions of a script are.                                   *)

Member(object, attr) ==
    CASE object = "package" -> IF attr = "os" THEN "os" ELSE "other"
      [] object = "os"      -> IF attr \in {"environ", "environb"} THEN "environ"
                               ELSE IF attr \in {"getenv", "getenvb"} THEN "reader" ELSE "other"
      [] object = "environ" -> IF attr = "get" THEN "reader"
                               ELSE IF attr \in {"pop", "setdefault"} THEN "taker" ELSE "other"
      [] OTHER              -> "other"

Values[x \in Bindings \X Expressions] ==
    LET b == x[1] e == x[2]
    IN  IF e.kind = "name" THEN b[e.id]
        ELSE IF e.kind = "attribute" THEN Member(Values[<<b, e.of>>], e.attr)
        ELSE "other"
Value(b, e) == Values[<<b, e>>]

\* The key is the first argument or called so.
GivesPort(call) ==
    IF call.args = <<>> THEN call.keyword = [arg |-> "key", value |-> "PORT"]
    ELSE Head(call.args) = "PORT"

\* environ["PORT"], to use it or to change it, and calls with PORT.
PortItem(script, e, uses) ==
    /\ e.kind = "subscript" /\ e.key = "PORT" /\ e.ctx \in uses
    /\ Value(script.names, e.base) = "environ"
PortCall(script, e, functions) ==
    e.kind = "call" /\ GivesPort(e) /\ Value(script.names, e.func) \in functions

\* It reads PORT in the documented ways; it reads PORT in some way; it sets or
\* deletes PORT.
ReadsPlainly(script) ==
    \E e \in script.walk : PortItem(script, e, {"load"}) \/ PortCall(script, e, {"reader"})
Reads(script) ==
    \E e \in script.walk :
        PortItem(script, e, {"load"}) \/ PortCall(script, e, {"reader", "taker"})
Changes(script) == \E e \in script.walk : PortItem(script, e, {"store", "del"})

-----------------------------------------------------------------------------
(* What its names promise.                                                 *)

Bound(id) ==
    CASE id = "os"                       -> "os"
      [] id \in {"environ", "environb"} -> "environ"
      [] id \in {"getenv", "getenvb"}   -> "reader"
      [] OTHER                          -> "other"

\* Something goes by a name of os's, or by .os, and is something else.
Impostor(script) ==
    \E e \in script.walk :
        \/ e.kind = "name" /\ Bound(e.id) \notin {"other", script.names[e.id]}
        \/ e.kind = "attribute" /\ e.attr = "os" /\ Value(script.names, e) # "os"

\* Something of os's goes by another name.
Alias(script) ==
    \E e \in script.walk :
        e.kind = "name" /\ script.names[e.id] \in {"os", "environ", "reader"} \ {Bound(e.id)}

Accepted(script) == Detect([source EXCEPT ![Root] = script]) = "python"

\* Whenever a command may begin, a script in the place of the target that reads
\* PORT in a documented way, under os's own names, is accepted; and one that is
\* accepted reads PORT from the process environment, except where it only sets
\* or deletes PORT there, or something else goes by the name of os (target.py:76
\* and 94 say that these do not count either).
AcceptsServers ==
    job = None => \A script \in Scripts :
        /\ script.valid /\ ReadsPlainly(script) /\ ~Alias(script) => Accepted(script)
        /\ Accepted(script) =>
              script.valid /\ (Reads(script) \/ Changes(script) \/ Impostor(script))
=============================================================================
