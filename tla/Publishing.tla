----------------------------- MODULE Publishing -----------------------------
(***************************************************************************)
(* What an author may count on who runs apply while the files change, the  *)
(* disk fills up and commands are interrupted.                             *)
(***************************************************************************)
EXTENDS Payload

\* Types; the unit's directory is a tree, and a page has a temporary file only
\* where one is being written or a command was ended.
TypeOK ==
    /\ source \in Trees \cup Initial /\ complete \in BOOLEAN
    /\ outcome \in {"none", "refused", "failed", "done", "removed"}
    /\ harm \subseteq {"fault", "full disk"}
    /\ \A p \in PagePaths : \A n \in 1..(Len(p) - 1) :
          Exists(app, p) \/ Exists(app, Temp(p)) => IsDir(app, SubSeq(p, 1, n))
    /\ \A p \in Published : ~IsDir(app, Temp(p))
    /\ job # None =>
        /\ job.at \in {"list", "read", "write", "create", "fill", "rename"}
        /\ job.kind \in {"python", "static"}
        /\ job.at \in {"create", "fill", "rename"} <=> job.file # None
        /\ job.at \in {"fill", "rename"} => Exists(app, Temp(job.file))

-----------------------------------------------------------------------------
Unedited == \A p \in Published : Cardinality(seen[p]) = 1
Shortened(p) == Live(p) = Short /\ "full disk" \in harm

\* An apply that reports success leaves, for every page, what the author had
\* there at some time since the command began, and exactly the author's files
\* when nothing was edited.  os.write may have been cut short by a full disk,
\* which is not noticed.
Delivered ==
    outcome = "done" => \A p \in Published : Live(p) \in seen[p] \/ Shortened(p)

\* Whatever earlier commands were ended in the middle of, an apply that reports
\* success leaves no temporary file for Caddy to serve.
NoLeftovers ==
    outcome = "done" => \A p \in Published : ~Exists(app, Temp(p))

\* At every moment of every command, ended or not, a page that changes does so
\* in one step and into something whole the author has had there meanwhile.
WholePages ==
    [][\A p \in Published : app'[p] # app[p] =>
          Live(p)' \in seen[p] \/ Shortened(p)' \/ outcome' = "removed"]_vars

\* What detect has looked at is what is published, though it looks before the
\* lock is taken and the files are read again: unless something was edited, no
\* symlink was followed and the size is within the limit.
Vetted ==
    outcome = "done" /\ Unedited =>
        /\ \A p \in Published : Live(p) # Outside
        /\ SumFunction([p \in {q \in PagePaths : Live(q) \notin {None, Short}} |->
                           Size[Live(p)]]) <= MaxPayload

\* An accepted target that nobody edits, on a host where nothing fails, is not
\* published only if a file of it would stand where a directory was deployed, or
\* below a file.
FailsForCause ==
    [][(job # None /\ outcome' = "failed" /\ harm' = {} /\ Unedited) => Conflicting]_vars

\* While there is no such conflict, applying again publishes the author's files in the end, wherever the
\* commands before were ended.
Converges ==
    <>[](Detect(source) # None /\ ~Conflicting =>
            \A p \in Published : Live(p) = Wanted(source, p) /\ ~Exists(app, Temp(p)))
=============================================================================
