------------------------------- MODULE Target -------------------------------
(***************************************************************************)
(* target.py: what can be deployed.  A source is a tree: the root is a     *)
(* directory, a script or nothing, a page under it is a file, a directory, *)
(* a symlink or nothing.  A script is known by the expressions ast.walk    *)
(* finds in it.                                                            *)
(***************************************************************************)
EXTENDS Integers, FiniteSets, FiniteSetsExt

CONSTANTS
    Root,        \* the path that is deployed
    Index,       \* index.html
    PagePaths,   \* every page a directory can have
    Size,        \* Size[content]: bytes
    MaxPayload,  \* MAX_PAYLOAD_BYTES
    None,        \* nothing there
    Directory,
    Symlink      \* a symlink to a file

ASSUME LimitAssumption == MaxPayload \in Nat

Exists(source, p) == source[p] # None
IsLink(source, p) == source[p] = Symlink
IsDir(source, p) == source[p] = Directory
IsFile(source, p) == source[p] \notin {None, Directory}  \* is_file follows links

-----------------------------------------------------------------------------
(* reads_port: the check on the syntax tree.                               *)

Name(id) == [kind |-> "name", id |-> id]
Attribute(of, attr) == [kind |-> "attribute", of |-> of, attr |-> attr]
\* What a subscript is for, ctx, is in the tree: "load", "store" or "del".
Subscript(base, key, ctx) ==
    [kind |-> "subscript", base |-> base, key |-> key, ctx |-> ctx]
Call(func, args, keyword) ==
    [kind |-> "call", func |-> func, args |-> args, keyword |-> keyword]

IsOs(e) == \/ e.kind = "attribute" /\ e.attr = "os"
           \/ e.kind = "name" /\ e.id = "os"

\* Mutant: an attribute of anything named environ will do.
IsEnviron_Anywhere(e) ==
    \/ e.kind = "attribute" /\ e.attr \in {"environ", "environb"}
    \/ e.kind = "name" /\ e.id \in {"environ", "environb"}

IsEnviron(e) == \/ e.kind = "attribute" /\ e.attr \in {"environ", "environb"} /\ IsOs(e.of)
                \/ e.kind = "name" /\ e.id \in {"environ", "environb"}

\* PORT passed by position, or as key=; a keyword is [arg, value] or None.
ReadsPortArgument(call) ==
    IF call.args # <<>> THEN call.args[1] = "PORT"
    ELSE call.keyword # None /\ call.keyword.arg = "key" /\ call.keyword.value = "PORT"

IsPortCall(call) ==
    /\ ReadsPortArgument(call)
    /\ LET f == call.func
       IN  \/ f.kind = "attribute" /\ f.attr \in {"getenv", "getenvb"} /\ IsOs(f.of)
           \/ f.kind = "attribute" /\ f.attr = "get" /\ IsEnviron(f.of)
           \/ f.kind = "name" /\ f.id \in {"getenv", "getenvb"}

\* ctx is not looked at: an assignment to os.environ["PORT"] counts.
ReadsPort(script) ==
    \E e \in script.walk :
        \/ e.kind = "subscript" /\ IsEnviron(e.base) /\ e.key = "PORT"
        \/ e.kind = "call" /\ IsPortCall(e)

-----------------------------------------------------------------------------
(* detect.                                                                 *)

\* The .py suffix, UTF-8 and the syntax are one bit of the script.
DetectPython(source) == source[Root].valid /\ ReadsPort(source[Root])

\* Mutant: the sizes of the files are not added up.
DetectStatic_AnySize(source) ==
    IsFile(source, Index) /\ \A p \in PagePaths : ~IsLink(source, p)

DetectStatic(source) ==
    /\ IsFile(source, Index)
    /\ \A p \in PagePaths : ~IsLink(source, p)
    /\ SumFunction([p \in {q \in PagePaths : IsFile(source, q)} |-> Size[source[p]]])
           <= MaxPayload

\* A kind of target, or None for a TargetError.
Detect(source) ==
    IF IsDir(source, Root) /\ DetectStatic(source) THEN "static"
    ELSE IF IsFile(source, Root) /\ DetectPython(source) THEN "python"
    ELSE None
=============================================================================
