------------------------------ MODULE Payload ------------------------------
(***************************************************************************)
(* One unit's payload, from the author's files to /opt/smallapp/NAME: the  *)
(* target is detected before the lock is taken, rendered once for what is  *)
(* written and once more for what has to be, and written file by file,     *)
(* each by a temporary file and a rename.  Meanwhile the author edits, the *)
(* disk fills up, and the command may end between any two system calls.    *)
(* The rest of an apply is Apply's.                                        *)
(***************************************************************************)
EXTENDS Target, Sequences, SequencesExt

CONSTANTS
    Paths,      \* PagePaths in sorted order, each a sequence of names
    Entry,      \* app.py
    Outside,    \* what a symlink leads to
    Short,      \* the first part of a content
    Trees,      \* what the author may have
    Initial,    \* what the author starts with
    MaxEdits,   \* bound: edits and removals of the unit
    MaxFaults   \* bound: failures, interruptions and full disks

VARIABLES
    source,    \* the author's tree
    app,       \* the unit's directory: pages, entry and temporary files
    complete,  \* of the unit's registry entry
    job,       \* the apply in progress
    outcome,   \* of the last command: "none", "refused", "failed", "done", "removed"
    seen,      \* history: what each path had in the source during the command
    harm,      \* history: "fault" and "full disk", when the command met them
    edits, faults

vars == <<source, app, complete, job, outcome, seen, harm, edits, faults>>

-----------------------------------------------------------------------------
(* The two trees.                                                          *)

Temp(p) == <<"tmp", p>>
Published == PagePaths \cup {<<Entry>>}
AppPaths == Published \cup {Temp(p) : p \in Published}

\* Mutant: only the root of the unit's directory is made.
Above_None(p) == {}

Above(p) == {a \in PagePaths : IsStrictPrefix(a, p)}

\* The path in the source of a file of the unit, and what reading it yields.
Origin(kind, p) == IF kind = "python" THEN Root ELSE p
Read(tree, p) == IF IsLink(tree, p) THEN Outside ELSE IF IsDir(tree, p) THEN None ELSE tree[p]

\* Mutant: a directory is taken for a file to copy.
TargetFiles_Directories(tree, kind) ==
    IF kind = "python" THEN {<<Entry>>} ELSE {p \in PagePaths : Exists(tree, p)}

\* Target.files: the entry, whatever has become of it, or a walk.
TargetFiles(tree, kind) ==
    IF kind = "python" THEN {<<Entry>>} ELSE {p \in PagePaths : IsFile(tree, p)}

\* What is published when the tree is, and what is.
Wanted(tree, p) ==
    IF IsDir(tree, Root) THEN IF p = <<Entry>> THEN None ELSE Read(tree, p)
    ELSE IF p = <<Entry>> THEN tree[Root] ELSE None
Live(p) == IF IsFile(app, p) THEN app[p] ELSE None

\* Paths are sequences of names, and what is above a page has one too; no page is
\* the entry, above it, or a temporary file.
ASSUME PathsAssumption ==
    /\ PagePaths \subseteq Seq(STRING) /\ IsFiniteSet(PagePaths)
    /\ \A p \in PagePaths : \A n \in 1..(Len(p) - 1) : SubSeq(p, 1, n) \in PagePaths
    /\ None \notin Published
    /\ Root \notin PagePaths /\ <<Entry>> \notin PagePaths /\ Above(<<Entry>>) = {}
    /\ \A p \in Published : Temp(p) \notin Published

ASSUME ContentsAssumption ==
    /\ None # Directory /\ Outside # Short
    /\ {Outside, Short, Symlink} \cap {None, Directory} = {}

\* What the author has is a tree, and its root a directory, a script or nothing;
\* a file has a size, and is none of those a symlink may lead to.
ASSUME TreesAssumption ==
    \A tree \in Trees \cup Initial :
        /\ Root \in DOMAIN tree /\ ~IsLink(tree, Root) /\ tree[Root] # Outside
        /\ \A p \in PagePaths :
              /\ Exists(tree, p) =>
                    IsDir(tree, Root) /\ \A a \in Above(p) : IsDir(tree, a)
              /\ IsFile(tree, p) /\ ~IsLink(tree, p) =>
                    tree[p] # Outside /\ Size[tree[p]] \in Nat

\* A file that would have to stand where a directory is, or below a file.
Conflict(p) == app[p] = Directory \/ \E a \in Above(p) : IsFile(app, a)
Conflicting == \E p \in Published : Wanted(source, p) # None /\ Conflict(p)

Init ==
    /\ source \in Initial
    /\ app = [p \in AppPaths |-> None]
    /\ complete = FALSE
    /\ job = None
    /\ outcome = "none"
    /\ seen = [p \in Published |-> {}]
    /\ harm = {}
    /\ edits = 0 /\ faults = 0

-----------------------------------------------------------------------------
(* The author.                                                             *)

Edit(tree) ==
    /\ edits < MaxEdits /\ tree # source
    /\ edits' = edits + 1
    /\ source' = tree
    /\ seen' = IF job = None THEN seen
               ELSE [p \in Published |-> seen[p] \cup {Wanted(tree, p)}]
    /\ UNCHANGED <<app, complete, job, outcome, harm, faults>>

-----------------------------------------------------------------------------
(* An apply.                                                               *)

\* A render before any file is read.
Unread == [p \in {} |-> None]

Begin ==
    /\ job = None
    /\ LET kind == Detect(source)
       IN  IF kind = None
           THEN outcome' = "refused" /\ UNCHANGED job
           ELSE /\ outcome' = "none"
                /\ job' = [at |-> "list", kind |-> kind, todo |-> {}, stale |-> {},
                           render |-> Unread, before |-> None, file |-> None]
    /\ seen' = [p \in Published |-> {Wanted(source, p)}]
    /\ harm' = {}
    /\ UNCHANGED <<source, app, complete, edits, faults>>

End(how) == job' = None /\ outcome' = how
Goto(at) == job' = [job EXCEPT !.at = at] /\ UNCHANGED outcome

\* The files of a set are gone through in order.
Order == <<<<Entry>>>> \o Paths
First(p, set) ==
    /\ p \in set
    /\ \E i \in DOMAIN Order : Order[i] = p /\ \A j \in 1..(i - 1) : Order[j] \notin set

With(render, p, content) ==
    [q \in DOMAIN render \cup {p} |-> IF q = p THEN content ELSE render[q]]

\* render: the files are listed, and then read one after the other.
List ==
    /\ job # None /\ job.at = "list"
    /\ job' = [job EXCEPT !.at = "read", !.todo = TargetFiles(source, job.kind),
                          !.render = Unread]
    /\ UNCHANGED <<source, app, complete, outcome, seen, harm, edits, faults>>

ReadFile(p) ==
    /\ job # None /\ job.at = "read" /\ First(p, job.todo)
    /\ LET content == Read(source, Origin(job.kind, p))
       IN  IF content = None     \* gone, or a directory by now
           THEN End("failed")
           ELSE /\ job' = [job EXCEPT !.todo = @ \ {p}, !.render = With(@, p, content)]
                /\ UNCHANGED outcome
    /\ UNCHANGED <<source, app, complete, seen, harm, edits, faults>>

\* apply_unit renders for what is written, build again for what has to be.
RenderAgain ==
    /\ job # None /\ job.at = "read" /\ job.todo = {} /\ job.before = None
    /\ job' = [job EXCEPT !.at = "list", !.before = job.render]
    /\ UNCHANGED <<source, app, complete, outcome, seen, harm, edits, faults>>

\* Mutant: only files that are missing have to be written.
ToWrite_Missing(render) == {p \in DOMAIN render : Live(p) = None}

ToWrite(render) == {p \in DOMAIN render : Live(p) # render[p]}

\* Mutant: what is left of an earlier command is not looked for.
Stale_Pages(render) == {p \in Published : Live(p) # None} \ DOMAIN render

Stale(render) == {p \in AppPaths : IsFile(app, p)} \ DOMAIN render

\* What has to be done comes of the second render.
Plan ==
    /\ job # None /\ job.at = "read" /\ job.todo = {} /\ job.before # None
    /\ LET write == ToWrite(job.render)
           stale == Stale(job.render)
       IN  IF write = {} /\ stale = {} /\ complete
           THEN End("done") /\ UNCHANGED complete
           ELSE /\ job' = [job EXCEPT !.at = "write", !.todo = write, !.stale = stale]
                /\ complete' = FALSE
                /\ UNCHANGED outcome
    /\ UNCHANGED <<source, app, seen, harm, edits, faults>>

\* What was written comes before what is removed.
Writes == job.todo # {}

\* files[action.target], of the first render: a KeyError when the file was not
\* there yet.  Then the parents are made, unless one of them is a file.
MakeParents(p) ==
    /\ job # None /\ job.at = "write" /\ Writes /\ First(p, job.todo)
    /\ IF p \notin DOMAIN job.before \/ \E a \in Above(p) : IsFile(app, a)
       THEN End("failed") /\ UNCHANGED app
       ELSE /\ app' = [a \in AppPaths |-> IF a \in Above(p) THEN Directory ELSE app[a]]
            /\ job' = [job EXCEPT !.at = "create", !.file = p]
            /\ UNCHANGED outcome
    /\ UNCHANGED <<source, complete, seen, harm, edits, faults>>

\* Mutant: what is in the way of the new temporary file stays there.
UnlinkTemp_Never == FALSE /\ UNCHANGED vars

\* The temporary file of an earlier command goes; a new one is created, empty.
UnlinkTemp ==
    /\ job # None /\ job.at = "create" /\ app[Temp(job.file)] # None
    /\ app' = [app EXCEPT ![Temp(job.file)] = None]
    /\ UNCHANGED <<source, complete, job, outcome, seen, harm, edits, faults>>

CreateTemp ==
    /\ job # None /\ job.at = "create" /\ app[Temp(job.file)] = None
    /\ app' = [app EXCEPT ![Temp(job.file)] = Short]
    /\ Goto("fill")
    /\ UNCHANGED <<source, complete, seen, harm, edits, faults>>

\* Mutant: the file is written where it is to be.
FillTemp_InPlace ==
    /\ job # None /\ job.at = "fill"
    /\ app' = [app EXCEPT ![job.file] = IF @ = Directory THEN @ ELSE Short,
                          ![Temp(job.file)] = job.before[job.file]]
    /\ UNCHANGED <<harm, faults>>
    /\ Goto("rename")
    /\ UNCHANGED <<source, complete, seen, edits>>

\* One os.write: all of the content, or what a full disk has room for.
FillTemp ==
    /\ job # None /\ job.at = "fill"
    /\ \/ /\ app' = [app EXCEPT ![Temp(job.file)] = job.before[job.file]]
          /\ UNCHANGED <<harm, faults>>
       \/ /\ faults < MaxFaults /\ faults' = faults + 1
          /\ harm' = harm \cup {"full disk"}
          /\ UNCHANGED app
    /\ Goto("rename")
    /\ UNCHANGED <<source, complete, seen, edits>>

Rename ==
    /\ job # None /\ job.at = "rename"
    /\ LET p == job.file
       IN  IF app[p] = Directory
           THEN End("failed") /\ UNCHANGED app
           ELSE /\ app' = [app EXCEPT ![p] = app[Temp(p)], ![Temp(p)] = None]
                /\ job' = [job EXCEPT !.at = "write", !.todo = @ \ {p}, !.file = None]
                /\ UNCHANGED outcome
    /\ UNCHANGED <<source, complete, seen, harm, edits, faults>>

\* A temporary file in the list may have become the page it was for.
RemoveStale(p) ==
    /\ job # None /\ job.at = "write" /\ ~Writes /\ p \in job.stale
    /\ app' = [app EXCEPT ![p] = None]
    /\ job' = [job EXCEPT !.stale = @ \ {p}]
    /\ UNCHANGED <<source, complete, outcome, seen, harm, edits, faults>>

\* The services, the entry and the report.
Finish ==
    /\ job # None /\ job.at = "write" /\ job.todo = {} /\ job.stale = {}
    /\ complete' = TRUE
    /\ End("done")
    /\ UNCHANGED <<source, app, seen, harm, edits, faults>>

Step == \/ List \/ RenderAgain \/ Plan \/ UnlinkTemp \/ CreateTemp \/ FillTemp
        \/ Rename \/ Finish
        \/ \E p \in Published : ReadFile(p) \/ MakeParents(p)
        \/ \E p \in AppPaths : RemoveStale(p)

\* A system call fails, or the command is interrupted.
Fault ==
    /\ job # None /\ faults < MaxFaults
    /\ faults' = faults + 1
    /\ harm' = harm \cup {"fault"}
    /\ End("failed")
    /\ UNCHANGED <<source, app, complete, seen, edits>>

\* rm, of which Apply has the steps.
RemoveUnit ==
    /\ job = None /\ edits < MaxEdits /\ \E p \in AppPaths : app[p] # None
    /\ edits' = edits + 1
    /\ app' = [p \in AppPaths |-> None]
    /\ complete' = FALSE
    /\ outcome' = "removed"
    /\ UNCHANGED <<source, job, seen, harm, faults>>

-----------------------------------------------------------------------------
Next ==
    \/ \E tree \in Trees : Edit(tree)
    \/ Begin \/ Step \/ Fault \/ RemoveUnit

Spec == Init /\ [][Next]_vars

\* A command goes on, and the operator runs it again.
FairSpec == Spec /\ WF_vars(Step) /\ WF_vars(Begin)
=============================================================================
