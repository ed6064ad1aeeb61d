--------------------------- MODULE PayloadProofs ---------------------------
(***************************************************************************)
(* Proofs about the publishing of a payload, for every site, any number of *)
(* edits and faults and any order of them.  Delivered is not inductive: it *)
(* takes that both renders are made of what the author had (RenderOK),     *)
(* that what is neither written nor removed is right already and what is   *)
(* to be removed is not the author's (WritesOK), and what stands in a      *)
(* temporary file between its steps (FileOK).  Vetted takes, besides, that *)
(* a tree detect accepted is among what was seen (VettedInv), and a lemma  *)
(* on sums.                                                                *)
(***************************************************************************)
EXTENDS Accepting, SequenceTheorems, FiniteSetTheorems, TLAPS

Fields == {"at", "kind", "todo", "stale", "render", "before", "file"}
Writing == {"write", "create", "fill", "rename"}
Content(x) == x \notin {None, Directory}

\* A render, so far: every file as it was at some time, in a directory that was.
RenderOK(render) ==
    /\ DOMAIN render \subseteq IF job.kind = "python" THEN {<<Entry>>} ELSE PagePaths
    /\ \A p \in DOMAIN render :
        /\ render[p] \in seen[p] /\ Content(render[p])
        /\ \A a \in Above(p) : None \in seen[a]

\* A render from which no file is missing that was always there.
Whole(render) == \A p \in Published \ DOMAIN render : None \in seen[p]

ReadOK ==
    /\ job.todo \subseteq IF job.kind = "python" THEN {<<Entry>>} ELSE PagePaths
    /\ \A p \in job.todo : \E x \in seen[p] : x # None
    /\ \A p \in Published \ (DOMAIN job.render \cup job.todo) : None \in seen[p]

WritesOK ==
    /\ job.before # None /\ Whole(job.render)
    /\ job.todo \subseteq DOMAIN job.render
    /\ \A p \in Published \ (job.todo \cup job.stale) : Live(p) \in seen[p] \/ Shortened(p)
    /\ \A p \in DOMAIN job.render \ job.todo : IsFile(app, p)
    /\ \A p \in Published \cap job.stale :
          p \notin DOMAIN job.render /\ None \in seen[p] /\ IsFile(app, p)
    /\ \A p \in Published : Exists(app, Temp(p)) =>
          Temp(p) \in job.stale \/ (job.at \in {"fill", "rename"} /\ p = job.file)

FileOK ==
    /\ job.file \in job.todo /\ job.file \in DOMAIN job.before
    /\ \A a \in Above(job.file) : IsDir(app, a)
    /\ job.at = "fill" => app[Temp(job.file)] = Short
    /\ job.at = "rename" => \/ app[Temp(job.file)] = job.before[job.file]
                            \/ app[Temp(job.file)] = Short /\ "full disk" \in harm

SeenOK ==
    /\ DOMAIN seen = Published
    /\ \A p \in Published : IsFiniteSet(seen[p])

\* What was seen since the command began, what is there now included.
Witnessed ==
    /\ \A p \in Published : Wanted(source, p) \in seen[p]
    /\ IF job.kind = "python"
       THEN /\ \E x \in seen[<<Entry>>] : x # None
            /\ \A p \in PagePaths : None \in seen[p]
       ELSE None \in seen[<<Entry>>]

JobOK ==
    /\ DOMAIN job = Fields
    /\ job.kind \in {"python", "static"}
    /\ job.at \in {"list", "read"} \cup Writing
    /\ outcome = "none"
    /\ Witnessed
    /\ RenderOK(job.render)
    /\ job.before # None => RenderOK(job.before) /\ Whole(job.before)
    /\ job.at = "read" => ReadOK
    /\ job.at \in Writing => WritesOK
    /\ job.at \in Writing \ {"write"} => FileOK

\* The unit's directory is a tree, and no temporary file a directory.
AppOK ==
    /\ DOMAIN app = AppPaths
    /\ \A p \in PagePaths : \A a \in Above(p) : Exists(app, p) => IsDir(app, a)
    /\ \A p \in Published : ~IsDir(app, Temp(p))

Inv ==
    /\ source \in Trees \cup Initial
    /\ AppOK
    /\ SeenOK
    /\ job # None => JobOK
    /\ Delivered /\ NoLeftovers

-----------------------------------------------------------------------------
(* Paths and trees.                                                        *)

\* What is above something above a page is above the page.
LEMMA AboveAbove ==
    ASSUME NEW p \in PagePaths, NEW a \in Above(p), NEW b \in Above(a)
    PROVE  b \in Above(p)
  <1>1. /\ p \in Seq(STRING) /\ a \in Seq(STRING) /\ b \in Seq(STRING) /\ b \in PagePaths
        /\ IsStrictPrefix(a, p) /\ IsStrictPrefix(b, a)
    BY PathsAssumption DEF Above
  <1>2. Len(p) \in Nat /\ Len(a) \in Nat /\ Len(b) \in Nat
    BY <1>1, LenProperties
  <1>3. /\ Len(b) <= Len(a) /\ SubSeq(b, 1, Len(b)) = SubSeq(a, 1, Len(b)) /\ b # a
        /\ Len(a) <= Len(p) /\ SubSeq(a, 1, Len(a)) = SubSeq(p, 1, Len(a)) /\ a # p
    BY <1>1 DEF IsStrictPrefix, IsPrefix
  <1>4. \A i \in 1..Len(b) : b[i] = p[i]
    <2> SUFFICES ASSUME NEW i \in 1..Len(b) PROVE b[i] = p[i]
      OBVIOUS
    <2>1. SubSeq(b, 1, Len(b))[i] = b[i] /\ SubSeq(a, 1, Len(b))[i] = a[i]
      BY <1>1, <1>2, <1>3, SubSeqProperties
    <2>2. SubSeq(a, 1, Len(a))[i] = a[i] /\ SubSeq(p, 1, Len(a))[i] = p[i]
      BY <1>1, <1>2, <1>3, SubSeqProperties
    <2> QED BY <1>3, <2>1, <2>2
  <1>5. SubSeq(b, 1, Len(b)) = SubSeq(p, 1, Len(b))
    <2> DEFINE front == SubSeq(p, 1, Len(b))
    <2>1. SubSeq(b, 1, Len(b)) = b
      BY <1>1, SubSeqFull
    <2>2. /\ front \in Seq(STRING) /\ Len(front) = Len(b)
          /\ \A i \in 1..Len(b) : front[i] = p[i]
      BY <1>1, <1>2, <1>3, SubSeqProperties
    <2> HIDE DEF front
    <2>3. front = b
      BY <1>1, <1>2, <1>4, <2>2, SeqEqual
    <2> QED BY <2>1, <2>3 DEF front
  <1>6. b # p
    <2>1. CASE Len(a) = Len(p)
      BY <1>1, <1>3, <2>1, SubSeqFull
    <2>2. CASE Len(a) < Len(p)
      BY <1>2, <1>3, <2>2
    <2> QED BY <1>2, <1>3, <2>1, <2>2
  <1> QED BY <1>1, <1>2, <1>3, <1>5, <1>6 DEF Above, IsStrictPrefix, IsPrefix

\* Pages, the entry and temporary files are told apart by their paths.
LEMMA PathsApart ==
    /\ PagePaths \subseteq Published /\ <<Entry>> \in Published
    /\ Published \subseteq AppPaths
    /\ \A p \in Published : Temp(p) \in AppPaths /\ Temp(p) \notin Published
    /\ \A p, q : Temp(p) = Temp(q) => p = q
    /\ \A p \in Published : p # <<Entry>> => p \in PagePaths
    /\ \A p \in Published : \A a \in Above(p) : p \in PagePaths /\ a \in PagePaths /\ a # p
  BY PathsAssumption DEF Published, AppPaths, Temp, Above, IsStrictPrefix

\* A file that could be read was the author's at that moment, in a directory.
LEMMA ReadIsWanted ==
    ASSUME source \in Trees \cup Initial,
           NEW kind \in {"python", "static"},
           NEW p \in IF kind = "python" THEN {<<Entry>>} ELSE PagePaths,
           Read(source, Origin(kind, p)) # None
    PROVE  /\ Wanted(source, p) = Read(source, Origin(kind, p))
           /\ Content(Wanted(source, p))
           /\ \A a \in Above(p) : Wanted(source, a) = None
  <1>1. CASE kind = "python"
    BY <1>1, PathsAssumption, TreesAssumption, ContentsAssumption
       DEF Read, Origin, Wanted, Content, IsDir, IsLink
  <1>2. CASE kind = "static"
    <2>1. p \in PagePaths /\ p # <<Entry>> /\ Exists(source, p)
      BY <1>2, PathsAssumption, ContentsAssumption DEF Read, Origin, Exists, IsLink, IsDir
    <2>2. IsDir(source, Root) /\ \A a \in Above(p) : IsDir(source, a) /\ a # <<Entry>>
      BY <2>1, TreesAssumption, PathsAssumption DEF Above
    <2> QED BY <1>2, <2>1, <2>2, ContentsAssumption
            DEF Read, Origin, Wanted, Content, IsDir, IsLink
  <1> QED BY <1>1, <1>2

\* What detect says of a tree, it is.
LEMMA DetectedKind ==
    ASSUME Detect(source) # None
    PROVE  \/ Detect(source) = "static" /\ IsDir(source, Root)
           \/ Detect(source) = "python" /\ IsFile(source, Root)
  BY DEF Detect

-----------------------------------------------------------------------------
(* The author's steps, and the beginning and the end of a command.         *)

LEMMA InitInv == Init => Inv
  <1> SUFFICES ASSUME Init PROVE Inv
    OBVIOUS
  <1>1. AppOK
    BY PathsApart, ContentsAssumption DEF Init, AppOK, Exists, IsDir
  <1>2. SeenOK
    BY FS_EmptySet DEF Init, SeenOK
  <1> QED BY <1>1, <1>2 DEF Init, Inv, Delivered, NoLeftovers

\* What was right of a command stays right when more is seen.
LEMMA SeeingMore ==
    ASSUME JobOK, UNCHANGED <<app, job, outcome, harm>>,
           \A p \in Published : seen[p] \subseteq seen'[p],
           \A p \in Published : Wanted(source, p)' \in seen'[p]
    PROVE  JobOK'
  <1>1. Witnessed'
    BY PathsApart DEF JobOK, Witnessed
  <1>2. ASSUME NEW r, RenderOK(r)
        PROVE  RenderOK(r)'
    BY <1>2, PathsApart, PathsAssumption DEF RenderOK
  <1>3. ASSUME NEW r, Whole(r)
        PROVE  Whole(r)'
    BY <1>3 DEF Whole
  <1>4. ReadOK => ReadOK'
    BY PathsApart DEF ReadOK
  <1>5. WritesOK => WritesOK'
    BY <1>3 DEF WritesOK, Live, IsFile, IsDir, Exists, Shortened
  <1>6. FileOK => FileOK'
    BY DEF FileOK, IsDir
  <1> QED BY <1>1, <1>2, <1>3, <1>4, <1>5, <1>6 DEF JobOK

LEMMA EditInv ==
    ASSUME Inv, NEW tree \in Trees, Edit(tree)
    PROVE  Inv'
  <1>1. source' \in Trees \cup Initial /\ AppOK' /\ NoLeftovers'
    BY DEF Edit, Inv, AppOK, Exists, IsDir, NoLeftovers
  <1>2. SeenOK'
    BY FS_AddElement DEF Edit, Inv, SeenOK
  <1>3. CASE job = None
    BY <1>1, <1>2, <1>3 DEF Edit, Inv, Delivered, Live, IsFile, Shortened
  <1>4. CASE job # None
    <2>1. seen' = [p \in Published |-> seen[p] \cup {Wanted(source', p)}]
      BY <1>4 DEF Edit
    <2>2. JobOK'
      BY <1>4, <2>1, SeeingMore DEF Edit, Inv
    <2>3. outcome' # "done"
      BY <1>4 DEF Edit, Inv, JobOK
    <2> QED BY <1>1, <1>2, <2>2, <2>3 DEF Inv, Delivered
  <1> QED BY <1>3, <1>4

LEMMA BeginInv == Inv /\ Begin => Inv'
  <1> SUFFICES ASSUME Inv, Begin PROVE Inv'
    OBVIOUS
  <1>1. source' \in Trees \cup Initial /\ AppOK' /\ outcome' # "done"
    BY DEF Begin, Inv, AppOK, Exists, IsDir
  <1>2. SeenOK'
    BY FS_Singleton DEF Begin, SeenOK
  <1>3. ASSUME job' # None PROVE JobOK'
    <2>1. /\ Detect(source) # None /\ outcome' = "none"
          /\ job' = [at |-> "list", kind |-> Detect(source), todo |-> {}, stale |-> {},
                     render |-> Unread, before |-> None, file |-> None]
      BY <1>3 DEF Begin
    <2>2. seen' = [p \in Published |-> {Wanted(source, p)}] /\ source' = source
      BY DEF Begin
    <2>3. Witnessed'
      <3>1. \A p \in Published : Wanted(source, p)' \in seen'[p]
        BY <2>2 DEF Wanted, IsDir, Read, IsLink
      <3>2. CASE Detect(source) = "python"
        <4>1. IsFile(source, Root)
          BY <2>1, <3>2, DetectedKind
        <4>2. /\ Wanted(source, <<Entry>>) = source[Root] /\ source[Root] # None
              /\ \A p \in PagePaths : Wanted(source, p) = None
          BY <4>1, PathsAssumption DEF Wanted, IsDir, IsFile
        <4> QED BY <2>1, <2>2, <3>1, <3>2, <4>2, PathsApart DEF Witnessed
      <3>3. CASE Detect(source) = "static"
        <4>1. Wanted(source, <<Entry>>) = None
          BY <2>1, <3>3, DetectedKind DEF Wanted
        <4> QED BY <2>1, <2>2, <3>1, <3>3, <4>1, PathsApart DEF Witnessed
      <3> QED BY <2>1, <3>2, <3>3, DetectedKind
    <2> QED BY <2>1, <2>3, DetectedKind DEF JobOK, Fields, RenderOK, Unread, Writing
  <1> QED BY <1>1, <1>2, <1>3 DEF Inv, Delivered, NoLeftovers

\* A command that fails leaves the directory as it is.
LEMMA FailInv ==
    ASSUME Inv, job' = None, outcome' = "failed", UNCHANGED <<source, app, seen>>
    PROVE  Inv'
  BY DEF Inv, AppOK, SeenOK, Exists, IsDir, Delivered, NoLeftovers

LEMMA RemoveUnitInv == Inv /\ RemoveUnit => Inv'
  BY PathsApart, ContentsAssumption
     DEF RemoveUnit, Inv, AppOK, SeenOK, Exists, IsDir, Delivered, NoLeftovers

-----------------------------------------------------------------------------
(* The renders.                                                            *)

\* Steps that change the job alone.
Rendering == UNCHANGED <<source, app, seen, harm>>

\* Then what was seen, and what was read before, is right as it was.
LEMMA RenderingKeeps ==
    ASSUME Inv, job # None, Rendering,
           DOMAIN job' = Fields, job'.kind = job.kind, outcome' = outcome,
           job'.at \in {"list", "read", "write"},
           RenderOK(job.render) => RenderOK(job.render)',
           job'.before # None => RenderOK(job.before)' /\ Whole(job.before)',
           job'.at = "read" => ReadOK',
           job'.at = "write" => WritesOK'
    PROVE  Inv'
  <1>1. AppOK' /\ SeenOK'
    BY DEF Rendering, Inv, AppOK, SeenOK, Exists, IsDir
  <1>2. Witnessed'
    BY DEF Rendering, Inv, JobOK, Witnessed, Wanted, Read, IsDir, IsLink
  <1>3. RenderOK(job.render)'
    BY DEF Inv, JobOK
  <1>4. JobOK'
    BY <1>2, <1>3 DEF Inv, JobOK, Writing
  <1> QED BY <1>1, <1>4 DEF Rendering, Inv, JobOK, Delivered, NoLeftovers

\* What a command has read before is not touched by another step.
LEMMA RenderStays ==
    ASSUME Rendering, job'.kind = job.kind
    PROVE  /\ job'.render = job.render /\ RenderOK(job.render) => RenderOK(job.render)'
           /\ job'.before = job.before /\ RenderOK(job.before) => RenderOK(job.before)'
           /\ job'.before = job.render /\ RenderOK(job.render) => RenderOK(job.before)'
           /\ job'.render = job.render /\ Whole(job.render) => Whole(job.render)'
           /\ job'.before = job.before /\ Whole(job.before) => Whole(job.before)'
           /\ job'.before = job.render /\ Whole(job.render) => Whole(job.before)'
  BY DEF Rendering, RenderOK, Whole

LEMMA ListInv == Inv /\ List => Inv'
  <1> SUFFICES ASSUME Inv, List PROVE Inv'
    OBVIOUS
  <1>1. JobOK /\ Rendering /\ job # None
    BY DEF List, Inv, Rendering
  <1>2. /\ DOMAIN job' = Fields /\ job'.kind = job.kind /\ job'.at = "read"
        /\ job'.todo = TargetFiles(source, job.kind)
        /\ job'.render = Unread /\ job'.before = job.before /\ outcome' = outcome
    BY <1>1 DEF List, JobOK, Fields
  <1>3. RenderOK(job.render)'
    BY <1>2 DEF RenderOK, Unread
  <1>4. job'.before # None => RenderOK(job.before)' /\ Whole(job.before)'
    BY <1>1, <1>2, RenderStays DEF JobOK
  <1>5. ReadOK'
    <2>1. CASE job.kind = "python"
      BY <1>1, <1>2, <2>1, PathsApart
         DEF ReadOK, TargetFiles, JobOK, Witnessed, Rendering, Unread
    <2>2. CASE job.kind = "static"
      <3>1. \A p \in PagePaths : IF IsFile(source, p) THEN Wanted(source, p) # None
                                                      ELSE Wanted(source, p) = None
        BY TreesAssumption, ContentsAssumption, PathsAssumption
           DEF Inv, Wanted, IsFile, IsDir, IsLink, Exists, Read
      <3>2. job'.todo = {p \in PagePaths : IsFile(source, p)}
        BY <1>2, <2>2 DEF TargetFiles
      <3>3. \A p \in Published : Wanted(source, p) \in seen'[p]
        BY <1>1 DEF JobOK, Witnessed, Rendering
      <3>4. None \in seen'[<<Entry>>]
        BY <1>1, <2>2 DEF JobOK, Witnessed, Rendering
      <3> QED BY <1>2, <2>2, <3>1, <3>2, <3>3, <3>4, PathsApart DEF ReadOK, Unread
    <2> QED BY <1>1, <2>1, <2>2 DEF JobOK
  <1> QED BY <1>1, <1>2, <1>3, <1>4, <1>5, RenderingKeeps

LEMMA ReadFileInv ==
    ASSUME Inv, NEW p \in Published, ReadFile(p)
    PROVE  Inv'
  <1> DEFINE content == Read(source, Origin(job.kind, p))
  <1>1. JobOK /\ ReadOK /\ Rendering /\ job # None /\ p \in job.todo
    BY DEF ReadFile, First, Inv, JobOK, Rendering
  <1>2. CASE content = None
    BY <1>2, FailInv DEF ReadFile, End
  <1>3. CASE content # None
    <2>1. job' = [job EXCEPT !.todo = @ \ {p}, !.render = With(@, p, content)]
          /\ outcome' = outcome
      BY <1>3 DEF ReadFile
    <2>2. /\ DOMAIN job' = Fields /\ job'.kind = job.kind /\ job'.at = "read"
          /\ job'.todo = job.todo \ {p} /\ job'.before = job.before
          /\ job'.render = With(job.render, p, content)
      BY <1>1, <2>1 DEF JobOK, Fields, ReadFile
    <2>3. p \in IF job.kind = "python" THEN {<<Entry>>} ELSE PagePaths
      BY <1>1 DEF ReadOK
    <2>4. /\ Wanted(source, p) = content /\ Content(content)
          /\ \A a \in Above(p) : Wanted(source, a) = None
      BY <1>1, <1>3, <2>3, ReadIsWanted DEF Inv, JobOK
    <2>5. /\ DOMAIN job'.render = DOMAIN job.render \cup {p}
          /\ \A q \in DOMAIN job'.render :
                job'.render[q] = IF q = p THEN content ELSE job.render[q]
      <3> HIDE DEF content
      <3> QED BY <2>2 DEF With
    <2>6. \A q \in Published : Wanted(source, q) \in seen[q]
      BY <1>1 DEF JobOK, Witnessed
    <2>7. RenderOK(job.render)'
      <3>1. content \in seen[p] /\ \A a \in Above(p) : None \in seen[a]
        BY <2>4, <2>6, PathsApart
      <3> HIDE DEF content
      <3> QED BY <1>1, <2>2, <2>3, <2>4, <2>5, <3>1 DEF JobOK, RenderOK, Rendering
    <2>8. ReadOK'
      BY <1>1, <2>2, <2>5 DEF ReadOK, Rendering
    <2>9. job'.before # None => RenderOK(job.before)' /\ Whole(job.before)'
      BY <1>1, <2>2, RenderStays DEF JobOK
    <2> QED BY <1>1, <2>1, <2>2, <2>7, <2>8, <2>9, RenderingKeeps
  <1> QED BY <1>2, <1>3

LEMMA RenderAgainInv == Inv /\ RenderAgain => Inv'
  <1> SUFFICES ASSUME Inv, RenderAgain PROVE Inv'
    OBVIOUS
  <1>1. /\ JobOK /\ ReadOK /\ Rendering /\ job # None /\ job.todo = {}
    BY DEF RenderAgain, Inv, JobOK, Rendering
  <1>2. /\ DOMAIN job' = Fields /\ job'.kind = job.kind /\ job'.at = "list"
        /\ job'.render = job.render /\ job'.before = job.render /\ outcome' = outcome
    BY <1>1 DEF RenderAgain, JobOK, Fields
  <1>3. RenderOK(job.render) /\ Whole(job.render)
    BY <1>1 DEF JobOK, ReadOK, Whole
  <1> QED BY <1>1, <1>2, <1>3, RenderStays, RenderingKeeps

LEMMA PlanInv == Inv /\ Plan => Inv'
  <1> SUFFICES ASSUME Inv, Plan PROVE Inv'
    OBVIOUS
  <1> DEFINE write == ToWrite(job.render)
             stale == Stale(job.render)
  <1>1. /\ JobOK /\ ReadOK /\ Rendering /\ job # None /\ job.todo = {} /\ job.before # None
    BY DEF Plan, Inv, JobOK, Rendering
  <1>2. RenderOK(job.render) /\ Whole(job.render)
    BY <1>1 DEF JobOK, ReadOK, Whole
  <1>3. DOMAIN job.render \subseteq Published
    BY <1>2, PathsApart DEF RenderOK
  <1>4. \A p \in DOMAIN job.render \ write :
          IsFile(app, p) /\ Live(p) = job.render[p] /\ Live(p) \in seen[p]
    BY <1>2 DEF RenderOK, ToWrite, Live, Content
  <1>5. \A p \in Published \ (DOMAIN job.render \cup stale) : Live(p) = None /\ None \in seen[p]
    BY <1>2, PathsApart DEF Whole, Stale, Live
  <1>6. \A p \in Published \cap stale :
          p \notin DOMAIN job.render /\ None \in seen[p] /\ IsFile(app, p)
    BY <1>2 DEF Whole, Stale
  <1>7. \A p \in Published : Exists(app, Temp(p)) => Temp(p) \in stale
    BY <1>3, PathsApart DEF Inv, AppOK, Stale, IsFile, IsDir, Exists
  <1>8. CASE write = {} /\ stale = {} /\ complete
    <2>1. job' = None /\ outcome' = "done"
      BY <1>8 DEF Plan, End
    <2>2. \A p \in Published : Live(p) \in seen[p] /\ ~Exists(app, Temp(p))
      BY <1>4, <1>5, <1>7, <1>8
    <2> QED BY <1>1, <2>1, <2>2
            DEF Rendering, Inv, AppOK, SeenOK, Exists, IsDir, Delivered, Live, IsFile, NoLeftovers
  <1>9. CASE ~(write = {} /\ stale = {} /\ complete)
    <2>1. job' = [job EXCEPT !.at = "write", !.todo = write, !.stale = stale]
          /\ outcome' = outcome
      BY <1>9 DEF Plan
    <2>2. /\ DOMAIN job' = Fields /\ job'.kind = job.kind /\ job'.at = "write"
          /\ job'.todo = write /\ job'.stale = stale
          /\ job'.render = job.render /\ job'.before = job.before
      BY <1>1, <2>1 DEF JobOK, Fields
    <2>3. write \subseteq DOMAIN job.render
      BY DEF ToWrite
    <2>4. WritesOK'
      <3> HIDE DEF write, stale
      <3>1. Whole(job.render)'
        BY <1>1, <1>2, <2>2, RenderStays
      <3>2. \A p \in Published : Live(p)' = Live(p) /\ seen'[p] = seen[p]
        BY <1>1 DEF Rendering, Live, IsFile
      <3>3. \A p \in AppPaths : app'[p] = app[p]
        BY <1>1 DEF Rendering
      <3> QED BY <1>1, <1>3, <1>4, <1>5, <1>6, <1>7, <2>2, <2>3, <3>1, <3>2, <3>3, PathsApart
              DEF WritesOK, Rendering, IsFile, IsDir, Exists
    <2>5. RenderOK(job.render) => RenderOK(job.render)'
      BY <1>1, <2>2, RenderStays
    <2>6. job'.before # None => RenderOK(job.before)' /\ Whole(job.before)'
      BY <1>1, <2>2, RenderStays DEF JobOK
    <2> QED BY <1>1, <2>1, <2>2, <2>4, <2>5, <2>6, RenderingKeeps
  <1> QED BY <1>8, <1>9

-----------------------------------------------------------------------------
(* The writes and the removals.                                            *)

\* A step of the writing keeps the renders; the rest is its own business.
LEMMA WritingKeeps ==
    ASSUME Inv, job # None, job.at \in Writing, UNCHANGED <<source, seen, outcome>>,
           DOMAIN job' = Fields, job'.at \in Writing, job'.kind = job.kind,
           job'.render = job.render, job'.before = job.before,
           AppOK', WritesOK', job'.at # "write" => FileOK'
    PROVE  Inv'
  <1>1. JobOK
    BY DEF Inv
  <1>2. SeenOK' /\ Witnessed'
    BY <1>1 DEF Inv, SeenOK, JobOK, Witnessed, Wanted, Read, IsDir, IsLink
  <1>3. /\ RenderOK(job.render)'
        /\ job'.before # None => RenderOK(job.before)' /\ Whole(job.before)'
    BY <1>1 DEF JobOK, RenderOK, Whole
  <1>4. JobOK'
    BY <1>1, <1>2, <1>3 DEF JobOK, Writing
  <1>5. outcome' # "done"
    BY <1>1 DEF JobOK
  <1> QED BY <1>2, <1>4, <1>5 DEF Inv, Delivered, NoLeftovers

\* Every temporary file is on the list, or the one being written.
TempsKnown ==
    \A p \in Published : Exists(app, Temp(p)) =>
        Temp(p) \in job.stale \/ (job.at \in {"fill", "rename"} /\ p = job.file)

\* The rest of WritesOK is about files that come and go: one that is no longer
\* to be written is there, one that is no longer to be removed is not.
LEMMA WritesKept ==
    ASSUME JobOK, WritesOK, seen' = seen, harm \subseteq harm',
           job'.render = job.render, job'.before = job.before,
           job'.todo \subseteq job.todo, job'.stale \subseteq job.stale,
           \A p \in job.todo \ job'.todo :
               IsFile(app, p)' /\ (Live(p)' \in seen[p] \/ Shortened(p)'),
           \A p \in Published \cap (job.stale \ job'.stale) : Live(p)' = None,
           \A p \in Published \ ((job.todo \ job'.todo) \cup (job.stale \ job'.stale)) :
               Live(p)' = Live(p) /\ (IsFile(app, p)' <=> IsFile(app, p)),
           TempsKnown'
    PROVE  WritesOK'
  <1>1. DOMAIN job.render \subseteq Published
    BY PathsApart DEF JobOK, RenderOK
  <1>2. job'.before # None /\ Whole(job.render)' /\ job'.todo \subseteq DOMAIN job'.render
    BY DEF WritesOK, Whole
  <1>3. ASSUME NEW p \in Published \ (job'.todo \cup job'.stale)
        PROVE  Live(p)' \in seen'[p] \/ Shortened(p)'
    <2>1. CASE p \in job.todo
      BY <1>3, <2>1
    <2>2. CASE p \in job.stale
      BY <1>3, <2>2 DEF WritesOK
    <2>3. CASE p \notin job.todo \cup job.stale
      <3>1. Live(p)' = Live(p)
        BY <1>3, <2>3
      <3>2. Live(p) \in seen[p] \/ Shortened(p)
        BY <1>3, <2>3 DEF WritesOK
      <3> QED BY <3>1, <3>2 DEF Shortened
    <2> QED BY <2>1, <2>2, <2>3
  <1>4. ASSUME NEW p \in DOMAIN job'.render \ job'.todo
        PROVE  IsFile(app, p)'
    <2>1. p \in Published /\ p \notin job.stale
      BY <1>1, <1>4 DEF WritesOK
    <2> QED BY <1>4, <2>1 DEF WritesOK
  <1>5. ASSUME NEW p \in Published \cap job'.stale
        PROVE  p \notin DOMAIN job'.render /\ None \in seen'[p] /\ IsFile(app, p)'
    <2>1. p \notin job.todo
      BY <1>5 DEF WritesOK
    <2> QED BY <1>5, <2>1 DEF WritesOK
  <1> QED BY <1>2, <1>3, <1>4, <1>5 DEF WritesOK, TempsKnown

LEMMA MakeParentsInv ==
    ASSUME Inv, NEW p \in Published, MakeParents(p)
    PROVE  Inv'
  <1>1. JobOK /\ WritesOK /\ AppOK /\ job # None /\ job.at = "write" /\ p \in job.todo
    BY DEF MakeParents, First, Inv, JobOK, Writing
  <1>2. CASE p \notin DOMAIN job.before \/ \E a \in Above(p) : IsFile(app, a)
    BY <1>2, FailInv DEF MakeParents, End
  <1>3. CASE ~(p \notin DOMAIN job.before \/ \E a \in Above(p) : IsFile(app, a))
    <2>1. /\ app' = [a \in AppPaths |-> IF a \in Above(p) THEN Directory ELSE app[a]]
          /\ job' = [job EXCEPT !.at = "create", !.file = p]
          /\ UNCHANGED <<source, seen, outcome, harm>>
      BY <1>3 DEF MakeParents
    <2>2. /\ DOMAIN job' = Fields /\ job'.at = "create" /\ job'.file = p
          /\ job'.kind = job.kind /\ job'.todo = job.todo /\ job'.stale = job.stale
          /\ job'.render = job.render /\ job'.before = job.before
      BY <1>1, <2>1 DEF JobOK, Fields
    <2>3. \A q \in Published : Temp(q) \notin Above(p) /\ app'[Temp(q)] = app[Temp(q)]
      BY <2>1, PathsApart
    <2>4. \A q \in Published : /\ Live(q)' = Live(q) /\ (IsFile(app, q) <=> IsFile(app, q)')
                               /\ IsFile(app, q) => q \notin Above(p)
      BY <1>3, <2>1, PathsApart, ContentsAssumption DEF Live, IsFile
    <2>5. AppOK'
      <3>1. ASSUME NEW q \in PagePaths, NEW a \in Above(q), app'[q] # None
            PROVE  app'[a] = Directory
        <4>1. CASE q \in Above(p)
          <5>1. a \in Above(p)
            BY <4>1, AboveAbove, PathsApart
          <5> QED BY <2>1, <5>1, PathsApart
        <4>2. CASE q \notin Above(p)
          BY <1>1, <2>1, <3>1, <4>2, PathsApart DEF AppOK, Exists, IsDir
        <4> QED BY <4>1, <4>2
      <3> QED BY <1>1, <2>1, <2>3, <3>1 DEF AppOK, Exists, IsDir
    <2>6. WritesOK'
      <3>1. TempsKnown'
        BY <1>1, <2>2, <2>3 DEF WritesOK, TempsKnown, Exists
      <3> QED BY <1>1, <2>1, <2>2, <2>4, <3>1, WritesKept
    <2>7. FileOK'
      BY <1>1, <1>3, <2>1, <2>2, PathsApart DEF FileOK, IsDir
    <2> QED BY <1>1, <2>1, <2>2, <2>5, <2>6, <2>7, WritingKeeps DEF Writing
  <1> QED BY <1>2, <1>3

LEMMA UnlinkTempInv == Inv /\ UnlinkTemp => Inv'
  <1> SUFFICES ASSUME Inv, UnlinkTemp PROVE Inv'
    OBVIOUS
  <1> DEFINE temp == Temp(job.file)
  <1>1. /\ JobOK /\ WritesOK /\ FileOK /\ AppOK /\ job # None /\ job.at = "create"
        /\ job.file \in Published /\ app' = [app EXCEPT ![temp] = None]
        /\ UNCHANGED <<source, job, seen, outcome, harm>>
    BY PathsApart DEF UnlinkTemp, Inv, JobOK, WritesOK, FileOK, RenderOK, Writing
  <1>2. /\ \A q \in Published : app'[q] = app[q] /\ app'[Temp(q)] \in {app[Temp(q)], None}
        /\ DOMAIN app' = AppPaths
    BY <1>1, PathsApart DEF AppOK
  <1>3. AppOK'
    BY <1>1, <1>2, PathsApart, ContentsAssumption DEF AppOK, Exists, IsDir
  <1>4. WritesOK'
    <2>1. TempsKnown'
      BY <1>1, <1>2 DEF WritesOK, TempsKnown, Exists
    <2>2. \A q \in Published : Live(q)' = Live(q) /\ (IsFile(app, q)' <=> IsFile(app, q))
      BY <1>2 DEF Live, IsFile
    <2> QED BY <1>1, <2>1, <2>2, WritesKept
  <1>5. FileOK'
    BY <1>1, <1>2, PathsApart DEF FileOK, IsDir
  <1> QED BY <1>1, <1>3, <1>4, <1>5, WritingKeeps DEF JobOK, Writing

LEMMA CreateTempInv == Inv /\ CreateTemp => Inv'
  <1> SUFFICES ASSUME Inv, CreateTemp PROVE Inv'
    OBVIOUS
  <1> DEFINE temp == Temp(job.file)
  <1>1. /\ JobOK /\ WritesOK /\ FileOK /\ AppOK /\ job # None /\ job.at = "create"
        /\ job.file \in Published
        /\ app' = [app EXCEPT ![temp] = Short] /\ job' = [job EXCEPT !.at = "fill"]
        /\ UNCHANGED <<source, seen, outcome, harm>>
    BY PathsApart DEF CreateTemp, Goto, Inv, JobOK, WritesOK, FileOK, RenderOK, Writing
  <1>2. /\ DOMAIN job' = Fields /\ job'.at = "fill" /\ job'.file = job.file
        /\ job'.kind = job.kind /\ job'.todo = job.todo /\ job'.stale = job.stale
        /\ job'.render = job.render /\ job'.before = job.before
    BY <1>1 DEF JobOK, Fields
  <1>3. /\ \A q \in Published : app'[q] = app[q] /\ app'[Temp(q)] # Directory
        /\ \A q \in Published : q # job.file => app'[Temp(q)] = app[Temp(q)]
        /\ app'[temp] = Short /\ DOMAIN app' = AppPaths
    <2>1. app' = [a \in AppPaths |-> IF a = temp THEN Short ELSE app[a]]
      BY <1>1 DEF AppOK
    <2>2. \A q \in Published : Temp(q) = temp <=> q = job.file
      BY PathsApart
    <2>3. temp \in AppPaths /\ temp \notin Published
      BY <1>1, PathsApart
    <2>4. Short # Directory /\ \A q \in Published : app[Temp(q)] # Directory
      BY <1>1, ContentsAssumption DEF AppOK, IsDir
    <2> HIDE DEF temp
    <2> QED BY <2>1, <2>2, <2>3, <2>4, PathsApart
  <1>4. AppOK'
    BY <1>1, <1>3, PathsApart DEF AppOK, Exists, IsDir
  <1>5. WritesOK'
    <2>1. TempsKnown'
      BY <1>1, <1>2, <1>3 DEF WritesOK, TempsKnown, Exists
    <2>2. \A q \in Published : Live(q)' = Live(q) /\ (IsFile(app, q)' <=> IsFile(app, q))
      BY <1>1, <1>2, <1>3 DEF Live, IsFile
    <2> QED BY <1>1, <1>2, <1>3, <2>1, <2>2, WritesKept
  <1>6. FileOK'
    BY <1>1, <1>2, <1>3, PathsApart DEF FileOK, IsDir
  <1> QED BY <1>1, <1>2, <1>4, <1>5, <1>6, WritingKeeps DEF Writing

LEMMA FillTempInv == Inv /\ FillTemp => Inv'
  <1> SUFFICES ASSUME Inv, FillTemp PROVE Inv'
    OBVIOUS
  <1> DEFINE temp == Temp(job.file)
             content == job.before[job.file]
  <1>1. /\ JobOK /\ WritesOK /\ FileOK /\ AppOK /\ job # None /\ job.at = "fill"
        /\ job.file \in Published /\ job' = [job EXCEPT !.at = "rename"]
        /\ UNCHANGED <<source, seen, outcome>>
    BY PathsApart DEF FillTemp, Goto, Inv, JobOK, WritesOK, FileOK, RenderOK, Writing
  <1>2. /\ DOMAIN job' = Fields /\ job'.at = "rename" /\ job'.file = job.file
        /\ job'.kind = job.kind /\ job'.todo = job.todo /\ job'.stale = job.stale
        /\ job'.render = job.render /\ job'.before = job.before
    BY <1>1 DEF JobOK, Fields
  <1>3. Content(content) /\ app[temp] = Short
    BY <1>1 DEF FileOK, WritesOK, JobOK, RenderOK
  <1>4. /\ \/ app' = [app EXCEPT ![temp] = content]
           \/ app' = app /\ "full disk" \in harm'
        /\ harm \subseteq harm'
    BY DEF FillTemp
  <1>5. /\ \A q \in Published : app'[q] = app[q] /\ app'[Temp(q)] # Directory
        /\ \A q \in Published : q # job.file => app'[Temp(q)] = app[Temp(q)]
        /\ app'[temp] = content \/ (app'[temp] = Short /\ "full disk" \in harm')
        /\ DOMAIN app' = AppPaths
    <2>1. \/ app' = [a \in AppPaths |-> IF a = temp THEN content ELSE app[a]]
          \/ app' = app /\ "full disk" \in harm'
      BY <1>1, <1>4 DEF AppOK
    <2>2. \A q \in Published : Temp(q) = temp <=> q = job.file
      BY PathsApart
    <2>3. temp \in AppPaths /\ temp \notin Published
      BY <1>1, PathsApart
    <2>4. content # Directory /\ \A q \in Published : app[Temp(q)] # Directory
      BY <1>1, <1>3 DEF AppOK, IsDir, Content
    <2>5. DOMAIN app = AppPaths /\ app[temp] = Short
      BY <1>1, <1>3 DEF AppOK
    <2>6. \A q \in Published : q \in AppPaths /\ Temp(q) \in AppPaths /\ q # temp
      BY <2>3, PathsApart
    <2> HIDE DEF temp, content
    <2>7. CASE app' = [a \in AppPaths |-> IF a = temp THEN content ELSE app[a]]
      BY <2>2, <2>3, <2>4, <2>6, <2>7
    <2>8. CASE app' = app /\ "full disk" \in harm'
      BY <2>4, <2>5, <2>8
    <2> QED BY <2>1, <2>7, <2>8
  <1>6. AppOK'
    BY <1>1, <1>5, PathsApart DEF AppOK, Exists, IsDir
  <1>7. WritesOK'
    <2>1. TempsKnown'
      BY <1>1, <1>2, <1>4, <1>5 DEF WritesOK, TempsKnown, Exists
    <2>2. \A q \in Published : Live(q)' = Live(q) /\ (IsFile(app, q)' <=> IsFile(app, q))
      BY <1>1, <1>2, <1>4, <1>5 DEF Live, IsFile
    <2> QED BY <1>1, <1>2, <1>4, <1>5, <2>1, <2>2, WritesKept
  <1>8. FileOK'
    BY <1>1, <1>2, <1>5, PathsApart DEF FileOK, IsDir
  <1> QED BY <1>1, <1>2, <1>6, <1>7, <1>8, WritingKeeps DEF Writing

\* What a temporary file is moved in as: of the author's, or cut short.
LEMMA RenameShape ==
    ASSUME Inv, Rename, app[job.file] # Directory
    PROVE  /\ JobOK /\ WritesOK /\ FileOK /\ AppOK /\ job # None /\ job.at = "rename"
           /\ job.file \in Published /\ DOMAIN app' = AppPaths
           /\ app'[job.file] = app[Temp(job.file)] /\ Content(app'[job.file])
           /\ app'[job.file] \in seen[job.file] \/ (app'[job.file] = Short /\ "full disk" \in harm)
           /\ app'[Temp(job.file)] = None
           /\ \A q \in AppPaths \ {job.file, Temp(job.file)} : app'[q] = app[q]
           /\ job' = [job EXCEPT !.at = "write", !.todo = @ \ {job.file}, !.file = None]
           /\ UNCHANGED <<source, seen, outcome, harm>>
  <1>1. /\ JobOK /\ WritesOK /\ FileOK /\ AppOK /\ job # None /\ job.at = "rename"
        /\ job.file \in Published
    BY PathsApart DEF Rename, Inv, JobOK, WritesOK, FileOK, RenderOK, Writing
  <1>2. Content(job.before[job.file]) /\ job.before[job.file] \in seen[job.file]
    BY <1>1 DEF FileOK, WritesOK, JobOK, RenderOK
  <1>3. /\ app' = [app EXCEPT ![job.file] = app[Temp(job.file)], ![Temp(job.file)] = None]
        /\ job' = [job EXCEPT !.at = "write", !.todo = @ \ {job.file}, !.file = None]
        /\ UNCHANGED <<source, seen, outcome, harm>>
    BY DEF Rename
  <1>4. /\ \A q \in AppPaths : app'[q] = IF q = Temp(job.file) THEN None
                                      ELSE IF q = job.file THEN app[Temp(job.file)]
                                      ELSE app[q]
        /\ DOMAIN app' = AppPaths
    BY <1>1, <1>3, PathsApart DEF AppOK
  <1>5. \/ app[Temp(job.file)] = job.before[job.file]
        \/ app[Temp(job.file)] = Short /\ "full disk" \in harm
    BY <1>1 DEF FileOK
  <1>6. Content(app[Temp(job.file)])
    BY <1>2, <1>5, ContentsAssumption DEF Content
  <1>7. /\ job.file \in AppPaths /\ Temp(job.file) \in AppPaths
        /\ job.file # Temp(job.file)
    BY <1>1, PathsApart
  <1>8. /\ app'[job.file] = app[Temp(job.file)] /\ app'[Temp(job.file)] = None
        /\ \A q \in AppPaths \ {job.file, Temp(job.file)} : app'[q] = app[q]
    BY <1>4, <1>7
  <1>9. Content(app'[job.file])
    BY <1>6, <1>8
  <1>10. app'[job.file] \in seen[job.file] \/ (app'[job.file] = Short /\ "full disk" \in harm)
    BY <1>2, <1>5, <1>8
  <1> QED BY <1>1, <1>3, <1>4, <1>8, <1>9, <1>10

LEMMA RenameInv == Inv /\ Rename => Inv'
  <1> SUFFICES ASSUME Inv, Rename PROVE Inv'
    OBVIOUS
  <1>1. CASE app[job.file] = Directory
    BY <1>1, FailInv DEF Rename, End
  <1>2. CASE app[job.file] # Directory
    <2>0. PICK p \in Published : p = job.file
      BY <1>2, RenameShape
    <2>1. /\ DOMAIN job' = Fields /\ job'.at = "write" /\ job'.todo = job.todo \ {p}
          /\ job'.kind = job.kind /\ job'.stale = job.stale
          /\ job'.render = job.render /\ job'.before = job.before
      BY <1>2, <2>0, RenameShape DEF JobOK, Fields
    <2>2. \A q \in Published \ {p} : app'[q] = app[q] /\ app'[Temp(q)] = app[Temp(q)]
      <3>1. \A q \in AppPaths \ {p, Temp(p)} : app'[q] = app[q]
        BY <1>2, <2>0, RenameShape
      <3>2. ASSUME NEW q \in Published \ {p}
            PROVE  q \in AppPaths \ {p, Temp(p)} /\ Temp(q) \in AppPaths \ {p, Temp(p)}
        BY PathsApart
      <3> QED BY <3>1, <3>2
    <2>3. AppOK'
      <3>1. ASSUME NEW q \in PagePaths, NEW a \in Above(q), app'[q] # None
            PROVE  app'[a] = Directory
        <4>1. CASE q = p
          BY <1>2, <2>0, <2>2, <4>1, RenameShape, PathsApart DEF FileOK, IsDir
        <4>2. CASE q # p
          <5>1. app[a] = Directory
            BY <1>2, <2>0, <2>2, <3>1, <4>2, RenameShape, PathsApart DEF AppOK, Exists, IsDir
          <5> QED BY <1>2, <2>0, <2>2, <5>1, PathsApart
        <4> QED BY <4>1, <4>2
      <3> QED BY <1>2, <2>0, <2>2, <3>1, RenameShape, ContentsAssumption DEF AppOK, Exists, IsDir
    <2>4. Live(p)' \in seen'[p] \/ Shortened(p)'
      BY <1>2, <2>0, RenameShape DEF Live, IsFile, Shortened, Content
    <2>5. WritesOK'
      <3>1. TempsKnown'
        BY <1>2, <2>0, <2>1, <2>2, RenameShape DEF WritesOK, TempsKnown, Exists
      <3>2. \A q \in Published \ {p} : Live(q)' = Live(q) /\ (IsFile(app, q)' <=> IsFile(app, q))
        BY <2>2 DEF Live, IsFile
      <3>3. IsFile(app, p)' /\ p \in job.todo
        BY <1>2, <2>0, RenameShape DEF IsFile, Content, FileOK
      <3> QED BY <1>2, <2>0, <2>1, <2>4, <3>1, <3>2, <3>3, RenameShape, WritesKept
    <2> QED BY <1>2, <2>0, <2>1, <2>3, <2>5, RenameShape, WritingKeeps DEF Writing
  <1> QED BY <1>1, <1>2

LEMMA RemoveStaleInv ==
    ASSUME Inv, NEW p \in AppPaths, RemoveStale(p)
    PROVE  Inv'
  <1>1. /\ JobOK /\ WritesOK /\ AppOK /\ job # None /\ job.at = "write" /\ p \in job.stale
        /\ app' = [app EXCEPT ![p] = None] /\ job' = [job EXCEPT !.stale = @ \ {p}]
        /\ UNCHANGED <<source, seen, outcome, harm>>
    BY DEF RemoveStale, Inv, JobOK, Writing
  <1>2. /\ DOMAIN job' = Fields /\ job'.at = "write" /\ job'.stale = job.stale \ {p}
        /\ job'.kind = job.kind /\ job'.todo = job.todo
        /\ job'.render = job.render /\ job'.before = job.before
    BY <1>1 DEF JobOK, Fields
  <1>3. /\ \A q \in AppPaths \ {p} : app'[q] = app[q]
        /\ app'[p] = None /\ DOMAIN app' = AppPaths
    BY <1>1 DEF AppOK
  <1>4. p \in Published => app[p] # Directory /\ p \notin DOMAIN job.render /\ None \in seen[p]
    BY <1>1 DEF WritesOK, IsFile
  <1>5. AppOK'
    <2>1. ASSUME NEW q \in PagePaths, NEW a \in Above(q), app'[q] # None
          PROVE  app'[a] = Directory
      <3>1. app[a] = Directory
        BY <1>1, <1>3, <2>1, PathsApart DEF AppOK, Exists, IsDir
      <3> QED BY <1>3, <1>4, <3>1, PathsApart
    <2> QED BY <1>1, <1>3, <2>1, PathsApart, ContentsAssumption DEF AppOK, Exists, IsDir
  <1>6. WritesOK'
    <2>1. TempsKnown'
      BY <1>1, <1>2, <1>3, PathsApart DEF WritesOK, TempsKnown, Exists
    <2>2. p \in Published => Live(p)' = None
      BY <1>3 DEF Live, IsFile
    <2>3. \A q \in Published \ {p} : Live(q)' = Live(q) /\ (IsFile(app, q)' <=> IsFile(app, q))
      BY <1>3, PathsApart DEF Live, IsFile
    <2> QED BY <1>1, <1>2, <2>1, <2>2, <2>3, WritesKept
  <1> QED BY <1>1, <1>2, <1>5, <1>6, WritingKeeps DEF Writing

LEMMA FinishInv == Inv /\ Finish => Inv'
  <1> SUFFICES ASSUME Inv, Finish PROVE Inv'
    OBVIOUS
  <1>1. /\ WritesOK /\ AppOK /\ SeenOK /\ job.at = "write" /\ job.todo = {} /\ job.stale = {}
        /\ job' = None /\ outcome' = "done" /\ UNCHANGED <<source, app, seen, harm>>
    BY DEF Finish, End, Inv, JobOK, Writing
  <1>2. Delivered' /\ NoLeftovers'
    BY <1>1 DEF WritesOK, Delivered, NoLeftovers, Live, Shortened, IsFile, Exists
  <1> QED BY <1>1, <1>2 DEF Inv, AppOK, SeenOK, Exists, IsDir

LEMMA NextInv == Inv /\ [Next]_vars => Inv'
  <1> SUFFICES ASSUME Inv, [Next]_vars PROVE Inv'
    OBVIOUS
  <1>1. CASE Step
    BY <1>1, ListInv, ReadFileInv, RenderAgainInv, PlanInv, MakeParentsInv, UnlinkTempInv,
       CreateTempInv, FillTempInv, RenameInv, RemoveStaleInv, FinishInv DEF Step
  <1>2. CASE Fault
    BY <1>2, FailInv DEF Fault, End
  <1>3. CASE UNCHANGED vars
    <2>1. JobOK => JobOK'
      BY <1>3 DEF vars, JobOK, Witnessed, RenderOK, Whole, ReadOK, WritesOK, FileOK, Wanted,
                  Read, Live, Shortened, IsFile, IsDir, IsLink, Exists
    <2> QED BY <1>3, <2>1 DEF vars, Inv, AppOK, SeenOK, Exists, IsDir, Delivered, NoLeftovers,
                              Live, Shortened, IsFile
  <1> QED BY <1>1, <1>2, <1>3, EditInv, BeginInv, RemoveUnitInv DEF Next

-----------------------------------------------------------------------------
(* The theorems.                                                           *)

\* What the proof goes by holds in every reachable state.
THEOREM InvHolds == Spec => []Inv
  BY InitInv, NextInv, PTL DEF Spec

\* Whatever is edited meanwhile and whatever went wrong before, a reported apply
\* has published what the author had (Publishing.Delivered).
THEOREM AlwaysDelivered == Spec => []Delivered
  <1>1. Inv => Delivered
    BY DEF Inv
  <1> QED BY <1>1, InvHolds, PTL

\* And it leaves no temporary file of any earlier write (Publishing.NoLeftovers).
THEOREM NothingLeft == Spec => []NoLeftovers
  <1>1. Inv => NoLeftovers
    BY DEF Inv
  <1> QED BY <1>1, InvHolds, PTL

\* Steps that leave every published path as it is.
LEMMA QuietSteps ==
    ASSUME Inv, Step \/ Fault \/ Begin \/ (\E tree \in Trees : Edit(tree)) \/ UNCHANGED vars
    PROVE  \/ \A p \in Published : app'[p] = app[p]
           \/ \E p \in Published : MakeParents(p)
           \/ Rename
           \/ \E p \in AppPaths : RemoveStale(p)
  <1>1. ASSUME NEW p \in Published, NEW x, app' = [app EXCEPT ![Temp(p)] = x]
        PROVE  \A q \in Published : app'[q] = app[q]
    BY <1>1, PathsApart DEF Inv, AppOK
  <1>2. ASSUME UnlinkTemp \/ CreateTemp \/ FillTemp
        PROVE  \A q \in Published : app'[q] = app[q]
    <2>1. job.file \in Published
      BY <1>2, PathsApart DEF UnlinkTemp, CreateTemp, FillTemp, Inv, JobOK, Writing, WritesOK,
                             FileOK, RenderOK
    <2> QED BY <1>1, <1>2, <2>1 DEF UnlinkTemp, CreateTemp, FillTemp
  <1> QED BY <1>2 DEF Step, List, ReadFile, RenderAgain, Plan, Finish, Fault, Begin, Edit, vars

\* No step of any command shows a page in part (Publishing.WholePages).
THEOREM AlwaysWhole == Spec => WholePages
  <1>1. ASSUME Inv, [Next]_vars
        PROVE  [\A p \in Published : app'[p] # app[p] =>
                  Live(p)' \in seen[p] \/ Shortened(p)' \/ outcome' = "removed"]_vars
    <2> SUFFICES ASSUME NEW p \in Published, app'[p] # app[p], outcome' # "removed"
                 PROVE  Live(p)' \in seen[p] \/ Shortened(p)'
      OBVIOUS
    <2>1. ASSUME NEW q \in Published, MakeParents(q)
          PROVE  Live(p)' \in seen[p]
      <3>1. /\ p \in Above(q) /\ app'[p] = Directory /\ q \in DOMAIN job.before
            /\ job # None /\ job.before # None
        BY <1>1, <2>1, PathsApart DEF MakeParents, Inv, JobOK, WritesOK, Writing
      <3>2. RenderOK(job.before)
        BY <1>1, <3>1 DEF Inv, JobOK
      <3> QED BY <3>1, <3>2 DEF RenderOK, Live, IsFile
    <2>2. CASE Rename
      <3>1. app[job.file] # Directory
        BY <2>2 DEF Rename
      <3>2. p = job.file
        BY <1>1, <2>2, <3>1, RenameShape, PathsApart
      <3> QED BY <1>1, <2>2, <3>1, <3>2, RenameShape DEF Live, IsFile, Content, Shortened
    <2>3. ASSUME NEW q \in AppPaths, RemoveStale(q)
          PROVE  Live(p)' \in seen[p]
      <3>1. p = q /\ app'[p] = None /\ WritesOK /\ q \in job.stale
        BY <1>1, <2>3, PathsApart DEF RemoveStale, Inv, AppOK, JobOK, Writing
      <3> QED BY <3>1 DEF WritesOK, Live, IsFile
    <2> QED BY <1>1, <2>1, <2>2, <2>3, QuietSteps DEF Next, RemoveUnit
  <1> QED BY <1>1, InvHolds, PTL DEF Spec, WholePages

\* When nothing was edited, what was seen is what is there.
LEMMA UneditedSeen ==
    ASSUME Inv, job # None, Unedited
    PROVE  \A p \in Published : \A x \in seen[p] : x = Wanted(source, p)
  <1> SUFFICES ASSUME NEW p \in Published, NEW x \in seen[p] PROVE x = Wanted(source, p)
    OBVIOUS
  <1>1. Wanted(source, p) \in seen[p] /\ IsFiniteSet(seen[p]) /\ Cardinality(seen[p]) = 1
    BY DEF Inv, JobOK, Witnessed, SeenOK, Unedited
  <1>2. PICK y : seen[p] = {y}
    BY <1>1, FS_Singleton
  <1> QED BY <1>1, <1>2

\* What is on a list of writes is the author's.
LEMMA ListedIsWanted ==
    ASSUME Inv, job # None, Unedited, job.at \in Writing, NEW p \in job.todo
    PROVE  p \in Published /\ Wanted(source, p) # None /\ p \in DOMAIN job.before
  <1>1. /\ WritesOK /\ RenderOK(job.render) /\ Whole(job.before)
    BY DEF Inv, JobOK, WritesOK
  <1>2. p \in Published /\ job.render[p] \in seen[p] /\ job.render[p] # None
    BY <1>1, PathsApart DEF WritesOK, RenderOK, Content
  <1> QED BY <1>1, <1>2, UneditedSeen DEF Whole

\* Without faults and edits, nothing but a conflict of a file with a directory
\* makes an accepted apply fail (Publishing.FailsForCause).
THEOREM FailuresHaveCause == Spec => FailsForCause
  <1>1. ASSUME Inv, [Next]_vars
        PROVE  [(job # None /\ outcome' = "failed" /\ harm' = {} /\ Unedited) => Conflicting]_vars
    <2> SUFFICES ASSUME job # None, outcome' = "failed", harm' = {}, Unedited
                 PROVE  Conflicting
      OBVIOUS
    <2>1. ASSUME NEW p \in Published, ReadFile(p)
          PROVE  FALSE
      <3>1. /\ Read(source, Origin(job.kind, p)) = None /\ p \in job.todo
            /\ JobOK /\ ReadOK /\ source \in Trees \cup Initial
        BY <1>1, <2>1 DEF ReadFile, First, Inv, JobOK
      <3>2. Wanted(source, p) # None
        <4>1. PICK x \in seen[p] : x # None
          BY <3>1 DEF ReadOK
        <4> QED BY <1>1, <4>1, UneditedSeen
      <3>3. CASE job.kind = "python"
        BY <3>1, <3>2, <3>3, TreesAssumption DEF ReadOK, Wanted, Read, Origin
      <3>4. CASE job.kind = "static"
        BY <3>1, <3>2, <3>4, PathsAssumption DEF ReadOK, Wanted, Read, Origin
      <3> QED BY <3>1, <3>3, <3>4 DEF JobOK
    <2>2. ASSUME NEW p \in Published, MakeParents(p)
          PROVE  Conflicting
      <3>1. /\ p \in job.todo /\ job.at \in Writing
            /\ p \notin DOMAIN job.before \/ \E a \in Above(p) : IsFile(app, a)
        BY <1>1, <2>2 DEF MakeParents, First, Inv, JobOK, Writing
      <3> QED BY <1>1, <3>1, ListedIsWanted DEF Conflicting, Conflict
    <2>3. CASE Rename
      <3>1. app[job.file] = Directory /\ job.file \in job.todo /\ job.at \in Writing
        BY <1>1, <2>3 DEF Rename, Inv, JobOK, FileOK, Writing
      <3> QED BY <1>1, <3>1, ListedIsWanted DEF Conflicting, Conflict
    <2>4. outcome = "none"
      BY <1>1 DEF Inv, JobOK
    <2> QED BY <1>1, <2>1, <2>2, <2>3, <2>4
            DEF Next, Step, Edit, Begin, List, RenderAgain, Plan, End, UnlinkTemp, CreateTemp, Goto,
                FillTemp, RemoveStale, Finish, Fault, RemoveUnit, vars
  <1> QED BY <1>1, InvHolds, PTL DEF Spec, FailsForCause

-----------------------------------------------------------------------------
(* Sums.  The induction theorems are out of the provers' reach: a statement *)
(* about every finite set is proved by a smallest counterexample.          *)

\* The element a sum begins with, and the sums over the parts of a finite set.
Chosen(s) == CHOOSE x \in s : TRUE
Sums(f, U, g) ==
    /\ g \in [SUBSET U -> Nat]
    /\ \A s \in SUBSET U : g[s] = IF s = {} THEN 0 ELSE f[Chosen(s)] + g[s \ {Chosen(s)}]

LEMMA ChosenIn ==
    ASSUME NEW s, s # {}
    PROVE  Chosen(s) \in s
  BY DEF Chosen

\* Of a set of numbers one is the least.
LEMMA Least ==
    ASSUME NEW T \in SUBSET Nat, T # {}
    PROVE  \E x \in T : \A y \in T : x <= y
  <1> DEFINE F == {0 .. x : x \in T}
             R == StrictSubsetOrdering(Nat)
  <1>1. F \subseteq FiniteSubsetsOf(Nat)
    <2>1. \A x \in T : IsFiniteSet(0 .. x) /\ 0 .. x \in SUBSET Nat
      BY FS_Interval
    <2> QED BY <2>1 DEF FiniteSubsetsOf
  <1>2. PICK I \in F : \A J \in F : <<J, I>> \notin R
    <2>1. IsWellFoundedOn(R, FiniteSubsetsOf(Nat)) /\ F # {}
      BY FS_StrictSubsetOrderingWellFounded
    <2> HIDE DEF F, R
    <2> QED BY <1>1, <2>1, WFMin
  <1>3. PICK x \in T : I = 0 .. x
    BY <1>2
  <1>4. ASSUME NEW y \in T, y < x PROVE FALSE
    <2>1. 0 .. y \subseteq 0 .. x /\ x \in 0 .. x /\ x \notin 0 .. y
      BY <1>4
    <2>2. <<0 .. y, I>> \in R
      BY <1>3, <2>1 DEF StrictSubsetOrdering
    <2> QED BY <1>2, <2>2
  <1> QED BY <1>4

\* What holds of a finite set when it holds of all smaller ones, in the form of a
\* counterexample: there is a smallest one.
LEMMA Smallest ==
    ASSUME NEW U, IsFiniteSet(U), NEW F \in SUBSET SUBSET U, F # {}
    PROVE  \E s \in F : \A t \in F : Cardinality(t) >= Cardinality(s)
  <1> DEFINE T == {Cardinality(s) : s \in F}
  <1>1. \A s \in F : Cardinality(s) \in Nat
    BY FS_Subset, FS_CardinalityType
  <1>2. T \in SUBSET Nat /\ T # {}
    BY <1>1
  <1>3. PICK x \in T : \A y \in T : x <= y
    <2> HIDE DEF T
    <2> QED BY <1>2, Least
  <1> QED BY <1>1, <1>3

\* One element less.
LEMMA OneLess ==
    ASSUME NEW U, IsFiniteSet(U), NEW s \in SUBSET U, NEW x \in s
    PROVE  /\ Cardinality(s \ {x}) = Cardinality(s) - 1
           /\ Cardinality(s \ {x}) \in Nat /\ Cardinality(s) \in Nat
           /\ s \ {x} \in SUBSET U
  BY FS_Subset, FS_CardinalityType, FS_RemoveElement

\* Every assignment of numbers to a finite set has its sums.
LEMMA SumsExist ==
    ASSUME NEW U, IsFiniteSet(U), NEW f, \A x \in U : f[x] \in Nat
    PROVE  \E g : Sums(f, U, g)
  <1> DEFINE Upto(k, g) ==
        \A s \in SUBSET U : Cardinality(s) <= k =>
            g[s] = IF s = {} THEN 0 ELSE f[Chosen(s)] + g[s \ {Chosen(s)}]
             T == {k \in Nat : ~\E g \in [SUBSET U -> Nat] : Upto(k, g)}
  <1>1. \A s \in SUBSET U : Cardinality(s) \in Nat /\ (Cardinality(s) = 0 <=> s = {})
    BY FS_Subset, FS_CardinalityType, FS_EmptySet
  <1>2. T = {}
    <2> SUFFICES ASSUME T # {} PROVE FALSE
      OBVIOUS
    <2>1. PICK k \in T : \A j \in T : k <= j
      <3>1. T \in SUBSET Nat
        OBVIOUS
      <3> HIDE DEF T
      <3> QED BY <3>1, Least
    <2>2. CASE k = 0
      <3> DEFINE g == [s \in SUBSET U |-> 0]
      <3>1. \A s \in SUBSET U : Cardinality(s) <= 0 => s = {}
        BY <1>1
      <3>2. g \in [SUBSET U -> Nat] /\ Upto(0, g)
        BY <3>1
      <3> HIDE DEF g
      <3> QED BY <2>2, <3>2
    <2>3. CASE k # 0
      <3>1. PICK g \in [SUBSET U -> Nat] : Upto(k - 1, g)
        <4>1. k \in Nat
          OBVIOUS
        <4>2. k - 1 \in Nat /\ ~(k <= k - 1)
          BY <2>3, <4>1
        <4>3. k - 1 \notin T
          <5> HIDE DEF T
          <5> QED BY <2>1, <4>2
        <4> QED BY <4>2, <4>3
      <3> DEFINE h == [s \in SUBSET U |->
                          IF Cardinality(s) = k THEN f[Chosen(s)] + g[s \ {Chosen(s)}] ELSE g[s]]
      <3>2. \A s \in SUBSET U : s # {} =>
               /\ Chosen(s) \in s /\ f[Chosen(s)] \in Nat /\ s \ {Chosen(s)} \in SUBSET U
               /\ Cardinality(s \ {Chosen(s)}) = Cardinality(s) - 1
        BY ChosenIn, OneLess
      <3>3. \A s \in SUBSET U : Cardinality(s) = k => s # {}
        BY <1>1, <2>3
      <3>4. h \in [SUBSET U -> Nat]
        BY <3>2, <3>3
      <3>5. ASSUME NEW s \in SUBSET U, Cardinality(s) <= k
            PROVE  h[s] = IF s = {} THEN 0 ELSE f[Chosen(s)] + h[s \ {Chosen(s)}]
        <4>1. CASE s = {}
          <5>1. Cardinality(s) # k /\ Cardinality(s) <= k - 1
            BY <1>1, <2>3, <4>1
          <5> QED BY <3>1, <4>1, <5>1
        <4>2. CASE s # {}
          <5>1. h[s \ {Chosen(s)}] = g[s \ {Chosen(s)}]
            BY <1>1, <3>2, <3>5, <4>2
          <5>2. CASE Cardinality(s) = k
            BY <4>2, <5>1, <5>2
          <5>3. CASE Cardinality(s) # k
            <6>1. Cardinality(s) <= k - 1
              BY <1>1, <3>5, <5>3
            <6> QED BY <3>1, <4>2, <5>1, <5>3, <6>1
          <5> QED BY <5>2, <5>3
        <4> QED BY <4>1, <4>2
      <3> HIDE DEF h
      <3>6. Upto(k, h)
        BY <3>5
      <3> QED BY <3>4, <3>6
    <2> QED BY <2>2, <2>3
  <1>3. Cardinality(U) \in Nat
    BY FS_CardinalityType
  <1>4. PICK g \in [SUBSET U -> Nat] : Upto(Cardinality(U), g)
    BY <1>2, <1>3
  <1>5. \A s \in SUBSET U : Cardinality(s) <= Cardinality(U)
    BY FS_Subset
  <1> QED BY <1>4, <1>5 DEF Sums

\* A sum over a part of the set is one of those.
LEMMA SumsAre ==
    ASSUME NEW U, IsFiniteSet(U), NEW f, NEW g, Sums(f, U, g),
           NEW part, DOMAIN part \subseteq U, \A x \in DOMAIN part : part[x] = f[x]
    PROVE  SumFunction(part) = g[DOMAIN part]
  <1> DEFINE S == DOMAIN part
             Is(iter) == iter = [s \in SUBSET S |->
                            IF s = {} THEN 0 ELSE part[Chosen(s)] + iter[s \ {Chosen(s)}]]
  <1>1. PICK iter : iter = (CHOOSE it : Is(it))
    OBVIOUS
  <1>2. SumFunction(part) = iter[S]
    BY <1>1, Zenon DEF SumFunction, SumFunctionOnSet, FoldFunctionOnSet, MapThenFoldSet, Chosen
  <1>3. Is([s \in SUBSET S |-> g[s]])
    <2>1. ASSUME NEW s \in SUBSET S, s # {}
          PROVE  part[Chosen(s)] = f[Chosen(s)] /\ s \ {Chosen(s)} \in SUBSET S
      BY <2>1, ChosenIn
    <2>2. \A s \in SUBSET S : s \in SUBSET U
      OBVIOUS
    <2> QED BY <2>1, <2>2 DEF Sums
  <1>4. Is(iter)
    <2> HIDE DEF Is
    <2> QED BY <1>1, <1>3
  <1>5. \A s \in SUBSET S : iter[s] = g[s]
    <2> DEFINE F == {s \in SUBSET S : iter[s] # g[s]}
    <2> SUFFICES ASSUME F # {} PROVE FALSE
      OBVIOUS
    <2>1. PICK s \in F : \A t \in F : Cardinality(t) >= Cardinality(s)
      <3>1. IsFiniteSet(S) /\ F \in SUBSET SUBSET S
        BY FS_Subset
      <3> HIDE DEF F
      <3> QED BY <3>1, Smallest
    <2>2. iter[s] = IF s = {} THEN 0 ELSE part[Chosen(s)] + iter[s \ {Chosen(s)}]
      <3>1. s \in SUBSET S
        BY <2>1
      <3> QED BY <1>4, <3>1
    <2>3. g[s] = IF s = {} THEN 0 ELSE f[Chosen(s)] + g[s \ {Chosen(s)}]
      BY DEF Sums
    <2>4. CASE s # {}
      <3>1. Chosen(s) \in s /\ part[Chosen(s)] = f[Chosen(s)]
        BY <2>4, ChosenIn
      <3>2. s \ {Chosen(s)} \notin F
        <4>1. /\ Cardinality(s \ {Chosen(s)}) = Cardinality(s) - 1
              /\ Cardinality(s) \in Nat
          BY <3>1, OneLess
        <4> QED BY <2>1, <4>1
      <3>3. iter[s \ {Chosen(s)}] = g[s \ {Chosen(s)}]
        BY <3>2
      <3> QED BY <2>2, <2>3, <2>4, <3>1, <3>3
    <2> QED BY <2>2, <2>3, <2>4
  <1> QED BY <1>2, <1>5

\* Any element will do to begin with.
LEMMA SumsWithout ==
    ASSUME NEW U, IsFiniteSet(U), NEW f, \A x \in U : f[x] \in Nat, NEW g, Sums(f, U, g),
           NEW s \in SUBSET U, NEW x \in s
    PROVE  g[s] = f[x] + g[s \ {x}]
  <1> DEFINE F == {t \in SUBSET U : \E y \in t : g[t] # f[y] + g[t \ {y}]}
  <1> SUFFICES ASSUME F # {} PROVE FALSE
    OBVIOUS
  <1>1. PICK t \in F : \A r \in F : Cardinality(r) >= Cardinality(t)
    <2>1. F \in SUBSET SUBSET U
      OBVIOUS
    <2> HIDE DEF F
    <2> QED BY <2>1, Smallest
  <1>2. PICK y \in t : g[t] # f[y] + g[t \ {y}]
    BY <1>1
  <1>3. PICK z \in t : z = Chosen(t)
    BY <1>2, ChosenIn
  <1>4. g[t] = f[z] + g[t \ {z}]
    BY <1>1, <1>2, <1>3 DEF Sums
  <1>5. y # z
    BY <1>2, <1>4
  <1>6. t \ {y} \notin F /\ t \ {z} \notin F
    <2>1. ASSUME NEW x1 \in t PROVE ~(Cardinality(t \ {x1}) >= Cardinality(t))
      BY <1>1, OneLess
    <2> HIDE DEF F
    <2> QED BY <1>1, <1>2, <1>3, <2>1
  <1>7. g[t \ {z}] = f[y] + g[(t \ {z}) \ {y}] /\ g[t \ {y}] = f[z] + g[(t \ {y}) \ {z}]
    <2>1. t \ {y} \in SUBSET U /\ t \ {z} \in SUBSET U /\ y \in t \ {z} /\ z \in t \ {y}
      BY <1>5
    <2> QED BY <1>6, <2>1
  <1>8. (t \ {z}) \ {y} = (t \ {y}) \ {z} /\ (t \ {z}) \ {y} \in SUBSET U
    OBVIOUS
  <1>9. PICK a \in Nat, b \in Nat, rest \in Nat :
            a = f[y] /\ b = f[z] /\ rest = g[(t \ {z}) \ {y}]
    BY <1>8 DEF Sums
  <1>10. g[t] = b + (a + rest) /\ g[t \ {y}] = b + rest
    BY <1>4, <1>7, <1>8, <1>9
  <1>11. g[t] = a + g[t \ {y}]
    BY <1>10
  <1> QED BY <1>2, <1>9, <1>11

\* A part adds up to no more than the whole.
LEMMA FewerSum ==
    ASSUME NEW whole, IsFiniteSet(DOMAIN whole), \A x \in DOMAIN whole : whole[x] \in Nat,
           NEW part, DOMAIN part \subseteq DOMAIN whole,
           \A x \in DOMAIN part : part[x] = whole[x]
    PROVE  /\ SumFunction(part) \in Nat /\ SumFunction(whole) \in Nat
           /\ SumFunction(part) <= SumFunction(whole)
  <1> DEFINE U == DOMAIN whole
             S == DOMAIN part
  <1>1. PICK g : Sums(whole, U, g)
    BY SumsExist
  <1>2. SumFunction(part) = g[S] /\ SumFunction(whole) = g[U]
    BY <1>1, SumsAre
  <1> DEFINE F == {t \in SUBSET U : S \subseteq t /\ ~(g[S] <= g[t])}
  <1>3. ASSUME F # {} PROVE FALSE
    <2>1. PICK t \in F : \A r \in F : Cardinality(r) >= Cardinality(t)
      <3>1. F \in SUBSET SUBSET U
        OBVIOUS
      <3> HIDE DEF F
      <3> QED BY <1>3, <3>1, Smallest
    <2>2. g[S] \in Nat /\ \A r \in SUBSET U : g[r] \in Nat
      BY <1>1 DEF Sums
    <2>3. PICK x \in t \ S : TRUE
      <3>1. S \subseteq t /\ ~(g[S] <= g[t])
        OBVIOUS
      <3>2. S # t
        BY <2>2, <3>1
      <3> QED BY <3>1, <3>2
    <2>4. t \ {x} \in SUBSET U /\ t \ {x} \notin F /\ S \subseteq t \ {x}
      BY <2>1, <2>3, OneLess
    <2>5. g[S] <= g[t \ {x}]
      BY <2>4
    <2>6. g[t] = whole[x] + g[t \ {x}] /\ whole[x] \in Nat
      BY <1>1, <2>1, <2>3, SumsWithout
    <2>7. g[S] <= g[t]
      BY <2>2, <2>4, <2>5, <2>6
    <2> QED BY <2>1, <2>7
  <1>4. g[S] \in Nat /\ g[U] \in Nat
    BY <1>1 DEF Sums
  <1> QED BY <1>2, <1>3, <1>4

\* Nothing adds up to nothing.
LEMMA EmptySum ==
    ASSUME NEW part, DOMAIN part = {}
    PROVE  SumFunction(part) = 0
  <1>1. PICK g : Sums(part, {}, g)
    BY FS_EmptySet, SumsExist
  <1>2. SumFunction(part) = g[{}]
    BY <1>1, FS_EmptySet, SumsAre
  <1>3. {} \in SUBSET {}
    OBVIOUS
  <1> QED BY <1>1, <1>2, <1>3 DEF Sums

-----------------------------------------------------------------------------
(* What detect vouches for, and the types.                                 *)

\* Of a tree detect accepts nothing outside it would be published, and no more
\* than the limit.
LEMMA DetectedIsFit ==
    ASSUME NEW tree \in Trees \cup Initial, Detect(tree) # None,
           \A p \in Published : Live(p) \in {Wanted(tree, p), Short}
    PROVE  /\ \A p \in Published : Live(p) # Outside
           /\ SumFunction([p \in {q \in PagePaths : Live(q) \notin {None, Short}} |->
                              Size[Live(p)]]) <= MaxPayload
  <1> DEFINE shown == {q \in PagePaths : Live(q) \notin {None, Short}}
             part == [p \in shown |-> Size[Live(p)]]
  <1>1. CASE IsDir(tree, Root) /\ DetectStatic(tree)
    <2> DEFINE files == {q \in PagePaths : IsFile(tree, q)}
               whole == [p \in files |-> Size[tree[p]]]
    <2>1. \A p \in PagePaths : p # <<Entry>> /\ ~IsLink(tree, p)
      BY <1>1, PathsAssumption DEF DetectStatic
    <2>2. \A p \in PagePaths : Wanted(tree, p) = IF IsDir(tree, p) THEN None ELSE tree[p]
      BY <1>1, <2>1 DEF Wanted, Read
    <2>3. Wanted(tree, <<Entry>>) = None
      BY <1>1 DEF Wanted
    <2>4. \A p \in files : tree[p] # Outside /\ Size[tree[p]] \in Nat
      BY <2>1, TreesAssumption
    <2>5. \A p \in PagePaths : Wanted(tree, p) # None => p \in files /\ Wanted(tree, p) = tree[p]
      BY <2>2 DEF IsFile, IsDir
    <2>6. ASSUME NEW p \in Published PROVE Live(p) # Outside
      <3>1. Wanted(tree, p) # Outside
        <4>1. p = <<Entry>> \/ p \in PagePaths
          BY PathsApart
        <4>2. None # Outside
          BY ContentsAssumption
        <4> QED BY <2>3, <2>4, <2>5, <4>1, <4>2
      <3> QED BY <3>1, ContentsAssumption
    <2>7. shown \subseteq files /\ \A p \in shown : Live(p) = tree[p]
      <3>1. \A p \in shown : Live(p) = Wanted(tree, p) /\ Wanted(tree, p) # None
        BY PathsApart
      <3> QED BY <2>5, <3>1
    <2>8. IsFiniteSet(files)
      BY PathsAssumption, FS_Subset
    <2>9. /\ SumFunction(part) \in Nat /\ SumFunction(whole) \in Nat
          /\ SumFunction(part) <= SumFunction(whole)
      <3>1. DOMAIN part = shown /\ DOMAIN whole = files
        OBVIOUS
      <3>2. (\A p \in files : whole[p] \in Nat) /\ \A p \in shown : part[p] = whole[p]
        BY <2>4, <2>7
      <3> HIDE DEF part, whole, shown, files
      <3> QED BY <2>7, <2>8, <3>1, <3>2, FewerSum
    <2>10. SumFunction(whole) <= MaxPayload
      BY <1>1 DEF DetectStatic
    <2>11. SumFunction(part) <= MaxPayload
      <3> HIDE DEF part, whole
      <3> QED BY <2>9, <2>10, LimitAssumption
    <2> QED BY <2>6, <2>11
  <1>2. CASE IsFile(tree, Root)
    <2>1. \A p \in PagePaths : p # <<Entry>> /\ Wanted(tree, p) = None
      BY <1>2, PathsAssumption DEF Wanted, IsFile, IsDir
    <2>2. Wanted(tree, <<Entry>>) # Outside
      BY <1>2, TreesAssumption DEF Wanted, IsFile, IsDir
    <2>3. ASSUME NEW p \in Published PROVE Live(p) # Outside
      BY <2>1, <2>2, PathsApart, ContentsAssumption
    <2>4. DOMAIN part = {}
      BY <2>1, PathsApart
    <2>5. SumFunction(part) = 0
      <3> HIDE DEF part
      <3> QED BY <2>4, EmptySum
    <2>6. SumFunction(part) <= MaxPayload
      <3> HIDE DEF part
      <3> QED BY <2>5, LimitAssumption
    <2> QED BY <2>3, <2>6
  <1> QED BY <1>1, <1>2 DEF Detect

\* A tree that detect accepted is among what was seen.
VettedInv ==
    (job # None \/ outcome = "done") =>
        \E tree \in Trees \cup Initial :
            Detect(tree) # None /\ \A p \in Published : Wanted(tree, p) \in seen[p]

LEMMA NextVetted == Inv /\ VettedInv /\ [Next]_vars => VettedInv'
  <1> SUFFICES ASSUME Inv, VettedInv, [Next]_vars PROVE VettedInv'
    OBVIOUS
  <1>1. CASE Begin
    <2>1. seen' = [p \in Published |-> {Wanted(source, p)}] /\ source \in Trees \cup Initial
      BY <1>1 DEF Begin, Inv
    <2>2. job' # None \/ outcome' = "done" => Detect(source) # None
      BY <1>1 DEF Begin
    <2>3. \A p \in Published : Wanted(source, p) \in seen'[p]
      BY <2>1
    <2>4. \A tree : Detect(tree)' = Detect(tree) /\ \A p : Wanted(tree, p)' = Wanted(tree, p)
      BY Zenon
    <2> QED BY <2>1, <2>2, <2>3 DEF VettedInv
  <1>2. CASE ~Begin
    <2>1. (job' # None \/ outcome' = "done") => (job # None \/ outcome = "done")
      BY <1>2 DEF Next, Edit, Step, Fault, RemoveUnit, List, ReadFile, RenderAgain, Plan,
                  MakeParents, UnlinkTemp, CreateTemp, FillTemp, Rename, RemoveStale, Finish,
                  End, Goto, vars
    <2>2. \A p \in Published : seen[p] \subseteq seen'[p]
      BY <1>2 DEF Next, Edit, Step, Fault, RemoveUnit, List, ReadFile, RenderAgain, Plan,
                  MakeParents, UnlinkTemp, CreateTemp, FillTemp, Rename, RemoveStale, Finish, vars
    <2> QED BY <2>1, <2>2 DEF VettedInv
  <1> QED BY <1>1, <1>2

\* Unless something was edited, detect's verdict is on what is published
\* (Publishing.Vetted): one content was seen of every page, the vetted one.
THEOREM AlwaysVetted == Spec => []Vetted
  <1>1. Init => VettedInv
    BY DEF Init, VettedInv
  <1>2. Inv /\ VettedInv => Vetted
    <2> SUFFICES ASSUME Inv, VettedInv, outcome = "done", Unedited
                 PROVE  /\ \A p \in Published : Live(p) # Outside
                        /\ SumFunction([p \in {q \in PagePaths : Live(q) \notin {None, Short}} |->
                                           Size[Live(p)]]) <= MaxPayload
      BY DEF Vetted
    <2>1. PICK tree \in Trees \cup Initial :
             Detect(tree) # None /\ \A p \in Published : Wanted(tree, p) \in seen[p]
      BY DEF VettedInv
    <2>2. ASSUME NEW p \in Published
          PROVE  Live(p) \in {Wanted(tree, p), Short}
      <3>1. Live(p) \in seen[p] \/ Live(p) = Short
        BY DEF Inv, Delivered, Shortened
      <3>2. PICK x : seen[p] = {x}
        BY FS_Singleton DEF Inv, SeenOK, Unedited
      <3> QED BY <2>1, <3>1, <3>2
    <2> QED BY <2>1, <2>2, DetectedIsFit
  <1> QED BY <1>1, <1>2, InvHolds, NextVetted, PTL DEF Spec

\* What TypeOK says beyond Inv.
Typed ==
    /\ complete \in BOOLEAN
    /\ outcome \in {"none", "refused", "failed", "done", "removed"}
    /\ harm \subseteq {"fault", "full disk"}
    /\ job # None => (job.at \in {"create", "fill", "rename"} <=> job.file # None)

\* And of the temporary files: they are in directories.
TempsPlaced ==
    \A p \in PagePaths : \A a \in Above(p) : Exists(app, Temp(p)) => IsDir(app, a)

LEMMA NextTyped == Inv /\ Typed /\ [Next]_vars => Typed'
  <1> SUFFICES ASSUME Inv, Typed, [Next]_vars PROVE Typed'
    OBVIOUS
  <1>1. job # None => DOMAIN job = Fields /\ (job.at \in {"create", "fill", "rename"} =>
                                                 job.file # None)
    BY DEF Inv, JobOK, Typed
  <1>2. ASSUME NEW p \in Published, MakeParents(p)
        PROVE  p # None
    BY PathsAssumption
  <1>3. CASE Step
    <2>1. ASSUME List \/ RenderAgain \/ Plan \/ (\E p \in Published : ReadFile(p)) PROVE Typed'
      BY <1>1, <2>1 DEF List, RenderAgain, Plan, ReadFile, Typed, End, Fields
    <2>2. ASSUME UnlinkTemp \/ CreateTemp \/ FillTemp \/ Finish PROVE Typed'
      BY <1>1, <2>2 DEF UnlinkTemp, CreateTemp, FillTemp, Finish, Typed, End, Goto, Fields
    <2>3. ASSUME NEW p \in Published, MakeParents(p) PROVE Typed'
      BY <1>1, <1>2, <2>3 DEF MakeParents, Typed, End, Fields
    <2>4. ASSUME Rename PROVE Typed'
      BY <1>1, <2>4 DEF Rename, Typed, End, Fields
    <2>5. ASSUME NEW p \in AppPaths, RemoveStale(p) PROVE Typed'
      BY <1>1, <2>5 DEF RemoveStale, Typed, Fields
    <2> QED BY <1>3, <2>1, <2>2, <2>3, <2>4, <2>5 DEF Step
  <1>4. CASE Begin
    <2>1. job' # None => job'.at = "list" /\ job'.file = None
      BY <1>4 DEF Begin
    <2>2. complete' = complete /\ harm' = {} /\ outcome' \in {"none", "refused"}
      BY <1>4 DEF Begin
    <2> QED BY <2>1, <2>2 DEF Typed
  <1>5. CASE Fault \/ RemoveUnit \/ (\E tree \in Trees : Edit(tree)) \/ UNCHANGED vars
    BY <1>5 DEF Fault, RemoveUnit, Edit, End, vars, Typed
  <1> QED BY <1>3, <1>4, <1>5 DEF Next

LEMMA NextPlaced == Inv /\ TempsPlaced /\ [Next]_vars => TempsPlaced'
  <1> SUFFICES ASSUME Inv, TempsPlaced, [Next]_vars,
                      NEW p \in PagePaths, NEW a \in Above(p), app'[Temp(p)] # None
               PROVE  app'[a] = Directory
    BY DEF TempsPlaced, Exists, IsDir
  <1>1. /\ p \in Published /\ a \in Published /\ a # Temp(p) /\ Temp(p) \in AppPaths
        /\ a \in AppPaths /\ \A q \in Published : Temp(q) # a
    BY PathsApart
  <1>2. app[Temp(p)] # None => app[a] = Directory
    BY DEF TempsPlaced, Exists, IsDir
  <1>3. ASSUME app' = app PROVE app'[a] = Directory
    BY <1>2, <1>3
  <1>4. ASSUME NEW q \in Published, MakeParents(q) PROVE app'[a] = Directory
    BY <1>1, <1>2, <1>4, PathsApart DEF MakeParents
  <1>5. job # None /\ job.at \in Writing \ {"write"} => job.file \in Published /\ FileOK
    BY PathsApart DEF Inv, JobOK, Writing, WritesOK, FileOK, RenderOK
  <1>6. CASE UnlinkTemp \/ CreateTemp \/ FillTemp
    <2>1. job # None /\ job.at \in Writing \ {"write"} /\ job.file \in Published /\ FileOK
      BY <1>5, <1>6 DEF UnlinkTemp, CreateTemp, FillTemp, Writing
    <2>2. app'[a] = app[a]
      BY <1>1, <1>6, <2>1 DEF UnlinkTemp, CreateTemp, FillTemp, Inv, AppOK
    <2>3. CASE p = job.file
      BY <2>1, <2>2, <2>3 DEF FileOK, IsDir
    <2>4. CASE p # job.file
      <3>1. Temp(p) # Temp(job.file)
        BY <2>4, PathsApart
      <3>2. app'[Temp(p)] = app[Temp(p)]
        BY <1>1, <1>6, <3>1 DEF UnlinkTemp, CreateTemp, FillTemp, Inv, AppOK
      <3> QED BY <1>2, <2>2, <3>2
    <2> QED BY <2>3, <2>4
  <1>7. CASE Rename
    <2>1. CASE app[job.file] = Directory
      BY <1>3, <1>7, <2>1 DEF Rename
    <2>2. CASE app[job.file] # Directory
      <3>1. /\ job.file \in Published /\ app' = [app EXCEPT ![job.file] = app[Temp(job.file)],
                                                             ![Temp(job.file)] = None]
        BY <1>5, <1>7, <2>2 DEF Rename, Writing
      <3>2. app[Temp(p)] # None
        BY <1>1, <3>1, PathsApart DEF Inv, AppOK
      <3>3. a # job.file /\ a # Temp(job.file)
        BY <1>1, <1>2, <2>2, <3>1, <3>2
      <3> QED BY <1>1, <1>2, <3>1, <3>2, <3>3 DEF Inv, AppOK
    <2> QED BY <2>1, <2>2
  <1>8. ASSUME NEW q \in AppPaths, RemoveStale(q) PROVE app'[a] = Directory
    <2>1. /\ app' = [app EXCEPT ![q] = None] /\ DOMAIN app = AppPaths
          /\ q \in Published => app[q] # Directory
      BY <1>8 DEF RemoveStale, Inv, JobOK, AppOK, WritesOK, Writing, IsFile
    <2>2. app[Temp(p)] # None
      BY <1>1, <2>1
    <2> QED BY <1>1, <1>2, <2>1, <2>2
  <1>9. CASE RemoveUnit
    BY <1>1, <1>9 DEF RemoveUnit
  <1>10. CASE Fault \/ Begin \/ (\E tree \in Trees : Edit(tree)) \/ UNCHANGED vars
    BY <1>3, <1>10 DEF Fault, Begin, Edit, vars
  <1>11. CASE List \/ RenderAgain \/ Plan \/ Finish \/ (\E q \in Published : ReadFile(q))
    BY <1>3, <1>11 DEF List, RenderAgain, Plan, Finish, ReadFile
  <1> QED BY <1>4, <1>6, <1>7, <1>8, <1>9, <1>10, <1>11 DEF Next, Step

\* The beginning of a page's path is above the page.
LEMMA BeginningAbove ==
    ASSUME NEW p \in PagePaths, NEW n \in 1..(Len(p) - 1)
    PROVE  SubSeq(p, 1, n) \in Above(p)
  <1>1. p \in Seq(STRING) /\ Len(p) \in Nat /\ n \in Nat /\ n < Len(p) /\ 1 <= n
    BY PathsAssumption, LenProperties
  <1> DEFINE a == SubSeq(p, 1, n)
  <1>2. a \in PagePaths /\ a \in Seq(STRING)
    BY PathsAssumption
  <1>3. Len(a) = n
    BY <1>1, SubSeqProperties
  <1>4. SubSeq(a, 1, Len(a)) = SubSeq(p, 1, Len(a))
    BY <1>2, <1>3, SubSeqFull
  <1>5. a # p /\ Len(a) <= Len(p)
    BY <1>1, <1>3
  <1> QED BY <1>2, <1>4, <1>5 DEF Above, IsStrictPrefix, IsPrefix

\* At every moment of every command the unit's directory is a tree, in which a
\* temporary file stands only where its page can (Publishing.TypeOK).
THEOREM AlwaysTyped == Spec => []TypeOK
  <1>1. Init => Typed /\ TempsPlaced
    BY PathsApart DEF Init, Typed, TempsPlaced, Exists
  <1>2. ASSUME Inv, Typed, TempsPlaced PROVE TypeOK
    <2>1. ASSUME NEW p \in PagePaths, NEW n \in 1..(Len(p) - 1),
                 Exists(app, p) \/ Exists(app, Temp(p))
          PROVE  IsDir(app, SubSeq(p, 1, n))
      <3>1. SubSeq(p, 1, n) \in Above(p)
        BY BeginningAbove
      <3> QED BY <1>2, <2>1, <3>1 DEF Inv, AppOK, TempsPlaced
    <2>2. ASSUME job # None
          PROVE  /\ job.at \in {"list", "read", "write", "create", "fill", "rename"}
                 /\ job.kind \in {"python", "static"}
                 /\ job.at \in {"create", "fill", "rename"} <=> job.file # None
                 /\ job.at \in {"fill", "rename"} => Exists(app, Temp(job.file))
      <3>1. job.at \in {"fill", "rename"} => Exists(app, Temp(job.file))
        BY <1>2, <2>2, ContentsAssumption
           DEF Inv, JobOK, WritesOK, FileOK, RenderOK, Writing, Exists, Content
      <3> QED BY <1>2, <2>2, <3>1 DEF Inv, JobOK, Typed, Writing
    <2> QED BY <1>2, <2>1, <2>2 DEF TypeOK, Inv, AppOK, Typed
  <1> QED BY <1>1, <1>2, InvHolds, NextTyped, NextPlaced, PTL DEF Spec

-----------------------------------------------------------------------------
(* What reads_port finds.                                                  *)

\* What an expression is, found out in so many steps: a chain of attributes that is
\* something of os's has at most three.
Step0(b, e) == IF e.kind = "name" THEN b[e.id] ELSE "other"
Step1(b, e) == IF e.kind = "name" THEN b[e.id]
               ELSE IF e.kind = "attribute" THEN Member(Step0(b, e.of), e.attr) ELSE "other"
Step2(b, e) == IF e.kind = "name" THEN b[e.id]
               ELSE IF e.kind = "attribute" THEN Member(Step1(b, e.of), e.attr) ELSE "other"
Step3(b, e) == IF e.kind = "name" THEN b[e.id]
               ELSE IF e.kind = "attribute" THEN Member(Step2(b, e.of), e.attr) ELSE "other"

\* What is of the module, the mapping or nothing.
LEMMA Members ==
    /\ \A o, a : Member(o, a) \in {"os", "environ", "reader", "taker", "other"}
    /\ \A a : Member("os", a) \in {"environ", "reader", "other"}
    /\ \A a : Member("environ", a) \in {"reader", "taker", "other"}
    /\ \A o \in {"reader", "taker", "other"} : \A a : Member(o, a) = "other"
  BY DEF Member

\* More steps find out nothing else.
LEMMA StepsStop ==
    ASSUME NEW b, NEW e
    PROVE  /\ Step0(b, e) # "other" => Step1(b, e) = Step0(b, e)
           /\ Step0(b, e) = "other" => Step1(b, e) \in {"os", "environ", "reader", "taker", "other"}
           /\ Step1(b, e) # "other" => Step2(b, e) = Step1(b, e)
           /\ Step1(b, e) = "other" => Step2(b, e) \in {"environ", "reader", "taker", "other"}
           /\ Step2(b, e) # "other" => Step3(b, e) = Step2(b, e)
           /\ Step2(b, e) = "other" => Step3(b, e) \in {"reader", "taker", "other"}
  <1>1. /\ \A x : Step0(b, x) # "other" => Step1(b, x) = Step0(b, x)
        /\ \A x : Step0(b, x) = "other" => Step1(b, x) \in {"os", "environ", "reader", "taker", "other"}
    BY Members DEF Step0, Step1
  <1>2. /\ \A x : Step1(b, x) # "other" => Step2(b, x) = Step1(b, x)
        /\ \A x : Step1(b, x) = "other" => Step2(b, x) \in {"environ", "reader", "taker", "other"}
    <2> SUFFICES ASSUME NEW x
                 PROVE  /\ Step1(b, x) # "other" => Step2(b, x) = Step1(b, x)
                        /\ Step1(b, x) = "other" =>
                              Step2(b, x) \in {"environ", "reader", "taker", "other"}
      OBVIOUS
    <2>1. CASE x.kind = "attribute"
      <3>1. /\ Step1(b, x) = Member(Step0(b, x.of), x.attr)
            /\ Step2(b, x) = Member(Step1(b, x.of), x.attr)
        BY <2>1 DEF Step1, Step2
      <3>2. CASE Step0(b, x.of) # "other"
        BY <1>1, <3>1, <3>2
      <3>3. CASE Step0(b, x.of) = "other"
        BY <1>1, <3>1, <3>3, Members
      <3> QED BY <3>2, <3>3
    <2>2. CASE x.kind # "attribute"
      BY <2>2 DEF Step1, Step2
    <2> QED BY <2>1, <2>2
  <1>3. CASE e.kind = "attribute"
    <2>1. /\ Step2(b, e) = Member(Step1(b, e.of), e.attr)
          /\ Step3(b, e) = Member(Step2(b, e.of), e.attr)
      BY <1>3 DEF Step2, Step3
    <2>2. CASE Step1(b, e.of) # "other"
      BY <1>1, <1>2, <2>1, <2>2
    <2>3. CASE Step1(b, e.of) = "other"
      BY <1>1, <1>2, <2>1, <2>3, Members
    <2> QED BY <1>1, <1>2, <2>2, <2>3
  <1>4. CASE e.kind # "attribute"
    BY <1>1, <1>2, <1>4 DEF Step2, Step3
  <1> QED BY <1>3, <1>4

\* So the recursion has a solution, and it defines Value.
LEMMA ValueIs ==
    ASSUME NEW b \in Bindings, NEW e \in Expressions
    PROVE  Value(b, e) = IF e.kind = "name" THEN b[e.id]
                         ELSE IF e.kind = "attribute" THEN Member(Value(b, e.of), e.attr)
                         ELSE "other"
  <1> DEFINE Is(d) == d = [x \in Bindings \X Expressions |->
                         IF x[2].kind = "name" THEN x[1][x[2].id]
                         ELSE IF x[2].kind = "attribute"
                              THEN Member(d[<<x[1], x[2].of>>], x[2].attr)
                         ELSE "other"]
             w == [x \in Bindings \X Expressions |-> Step3(x[1], x[2])]
  <1>1. Is(w)
    <2> SUFFICES ASSUME NEW x \in Bindings \X Expressions
                 PROVE  Step3(x[1], x[2]) =
                            IF x[2].kind = "name" THEN x[1][x[2].id]
                            ELSE IF x[2].kind = "attribute"
                                 THEN Member(w[<<x[1], x[2].of>>], x[2].attr)
                            ELSE "other"
      OBVIOUS
    <2>x. PICK c \in Bindings, y \in Expressions : c = x[1] /\ y = x[2]
      OBVIOUS
    <2>1. CASE y.kind = "attribute"
      <3>1. w[<<c, y.of>>] = Step3(c, y.of)
        <4>1. <<c, y.of>> \in Bindings \X Expressions
          BY <2>1, ScriptsAssumption
        <4> QED BY <4>1
      <3>2. Member(Step3(c, y.of), y.attr) = Member(Step2(c, y.of), y.attr)
        <4>1. CASE Step2(c, y.of) # "other"
          BY <4>1, StepsStop
        <4>2. CASE Step2(c, y.of) = "other"
          BY <4>2, StepsStop, Members
        <4> QED BY <4>1, <4>2
      <3> HIDE DEF w
      <3> QED BY <2>x, <2>1, <3>1, <3>2 DEF Step3
    <2>2. CASE y.kind # "attribute"
      BY <2>x, <2>2 DEF Step3
    <2> QED BY <2>1, <2>2
  <1>2. Is(Values)
    <2>1. Values = CHOOSE d : Is(d)
      BY DEF Values
    <2> HIDE DEF Is, w
    <2> QED BY <1>1, <2>1
  <1>3. <<b, e>> \in Bindings \X Expressions
    OBVIOUS
  <1>4. Values[<<b, e>>] = IF e.kind = "name" THEN b[e.id]
                           ELSE IF e.kind = "attribute" THEN Member(Values[<<b, e.of>>], e.attr)
                           ELSE "other"
    BY <1>2, <1>3
  <1> QED BY <1>4 DEF Value

\* What the checks of the code take for the module, the mapping and the functions is
\* that, unless something else goes by the name of os; and nothing else is, unless it
\* goes by another name.
LEMMA NamesTell ==
    ASSUME NEW script \in Scripts, NEW e \in script.walk
    PROVE  /\ ~Impostor(script) =>
                 /\ IsOs(e) => Value(script.names, e) = "os"
                 /\ IsEnviron(e) => Value(script.names, e) = "environ"
           /\ ~Alias(script) =>
                 /\ Value(script.names, e) = "os" => IsOs(e)
                 /\ Value(script.names, e) = "environ" => IsEnviron(e)
  <1> DEFINE b == script.names
  <1>1. /\ b \in Bindings /\ script.walk \subseteq Expressions
        /\ \A x \in script.walk : x.kind = "attribute" => x.of \in script.walk
    BY ScriptsAssumption
  <1> HIDE DEF b
  <1>2. \A x \in script.walk :
            Value(b, x) = IF x.kind = "name" THEN b[x.id]
                          ELSE IF x.kind = "attribute" THEN Member(Value(b, x.of), x.attr)
                          ELSE "other"
    BY <1>1, ValueIs
  <1>3. ASSUME ~Impostor(script), NEW x \in script.walk, IsOs(x) PROVE Value(b, x) = "os"
    BY <1>2, <1>3 DEF Impostor, IsOs, Bound, b
  <1>4. ASSUME ~Impostor(script), IsEnviron(e) PROVE Value(b, e) = "environ"
    <2>1. CASE e.kind = "name"
      BY <1>2, <1>4, <2>1 DEF Impostor, IsEnviron, Bound, b
    <2>2. CASE e.kind = "attribute"
      <3>1. Value(b, e.of) = "os"
        BY <1>1, <1>3, <1>4, <2>2 DEF IsEnviron
      <3> QED BY <1>2, <1>4, <2>2, <3>1 DEF IsEnviron, Member
    <2> QED BY <1>4, <2>1, <2>2 DEF IsEnviron
  <1>5. ASSUME ~Alias(script), NEW x \in script.walk, Value(b, x) = "os" PROVE IsOs(x)
    <2>1. CASE x.kind = "name"
      BY <1>2, <1>5, <2>1 DEF Alias, IsOs, Bound, b
    <2>2. CASE x.kind = "attribute"
      BY <1>2, <1>5, <2>2 DEF Member, IsOs
    <2> QED BY <1>2, <1>5, <2>1, <2>2
  <1>6. ASSUME ~Alias(script), Value(b, e) = "environ" PROVE IsEnviron(e)
    <2>1. CASE e.kind = "name"
      BY <1>2, <1>6, <2>1 DEF Alias, IsEnviron, Bound, b
    <2>2. CASE e.kind = "attribute"
      <3>1. Value(b, e.of) = "os" /\ e.attr \in {"environ", "environb"}
        BY <1>2, <1>6, <2>2 DEF Member
      <3> QED BY <1>1, <1>5, <1>6, <2>2, <3>1 DEF IsEnviron
    <2> QED BY <1>2, <1>6, <2>1, <2>2
  <1> QED BY <1>3, <1>4, <1>5, <1>6 DEF b

\* And so do the calls.
LEMMA FunctionsTell ==
    ASSUME NEW script \in Scripts, NEW f \in script.walk
    PROVE  LET reading == \/ f.kind = "attribute" /\ f.attr \in {"getenv", "getenvb"} /\ IsOs(f.of)
                          \/ f.kind = "attribute" /\ f.attr = "get" /\ IsEnviron(f.of)
                          \/ f.kind = "name" /\ f.id \in {"getenv", "getenvb"}
           IN  /\ ~Impostor(script) /\ reading => Value(script.names, f) = "reader"
               /\ ~Alias(script) /\ Value(script.names, f) = "reader" => reading
  <1>b. PICK b : b = script.names
    OBVIOUS
  <1>1. b \in Bindings /\ f \in Expressions /\ (f.kind = "attribute" => f.of \in script.walk)
    BY <1>b, ScriptsAssumption
  <1>2. Value(b, f) = IF f.kind = "name" THEN b[f.id]
                      ELSE IF f.kind = "attribute" THEN Member(Value(b, f.of), f.attr)
                      ELSE "other"
    BY <1>1, ValueIs
  <1>3. CASE f.kind = "name"
    BY <1>b, <1>2, <1>3 DEF Impostor, Alias, Bound
  <1>4. CASE f.kind = "attribute"
    <2>1. /\ ~Impostor(script) =>
                /\ IsOs(f.of) => Value(b, f.of) = "os"
                /\ IsEnviron(f.of) => Value(b, f.of) = "environ"
          /\ ~Alias(script) =>
                /\ Value(b, f.of) = "os" => IsOs(f.of)
                /\ Value(b, f.of) = "environ" => IsEnviron(f.of)
      BY <1>b, <1>1, <1>4, NamesTell
    <2>2. /\ Member("os", f.attr) = "reader" <=> f.attr \in {"getenv", "getenvb"}
          /\ Member("environ", f.attr) = "reader" <=> f.attr = "get"
          /\ \A o : Member(o, f.attr) = "reader" => o \in {"os", "environ"}
      BY DEF Member
    <2>3. Value(b, f) = Member(Value(b, f.of), f.attr)
      BY <1>2, <1>4
    <2>4. Value(b, f) = "reader" =>
             \/ Value(b, f.of) = "os" /\ f.attr \in {"getenv", "getenvb"}
             \/ Value(b, f.of) = "environ" /\ f.attr = "get"
      BY <2>2, <2>3
    <2>5. /\ Value(b, f.of) = "os" /\ f.attr \in {"getenv", "getenvb"} => Value(b, f) = "reader"
          /\ Value(b, f.of) = "environ" /\ f.attr = "get" => Value(b, f) = "reader"
      BY <2>2, <2>3
    <2> QED BY <1>b, <1>4, <2>1, <2>4, <2>5
  <1> QED BY <1>b, <1>2, <1>3, <1>4

\* The key of a call is what reads_port takes it for.
LEMMA GivesIt ==
    ASSUME NEW script \in Scripts, NEW e \in script.walk, e.kind = "call"
    PROVE  ReadsPortArgument(e) <=> GivesPort(e)
  <1>1. e.args \in Seq(STRING) /\ e.keyword \in {None} \cup [arg : STRING, value : STRING]
    BY ScriptsAssumption
  <1>2. CASE e.args = <<>>
    <2>1. CASE e.keyword = None
      <3>1. None # [arg |-> "key", value |-> "PORT"]
        BY ScriptsAssumption
      <3> QED BY <1>2, <2>1, <3>1 DEF ReadsPortArgument, GivesPort
    <2>2. CASE e.keyword # None
      <3>1. PICK k \in [arg : STRING, value : STRING] : k = e.keyword
        BY <1>1, <2>2
      <3>2. k = [arg |-> "key", value |-> "PORT"] <=> k.arg = "key" /\ k.value = "PORT"
        OBVIOUS
      <3> QED BY <1>2, <2>2, <3>1, <3>2 DEF ReadsPortArgument, GivesPort
    <2> QED BY <2>1, <2>2
  <1>3. CASE e.args # <<>>
    BY <1>1, <1>3, HeadTailProperties DEF ReadsPortArgument, GivesPort
  <1> QED BY <1>2, <1>3

\* What reads_port finds, it finds rightly but for the cases named in AcceptsServers.
LEMMA ReadsPortTells ==
    ASSUME NEW script \in Scripts
    PROVE  /\ ReadsPlainly(script) /\ ~Alias(script) => ReadsPort(script)
           /\ ReadsPort(script) => Reads(script) \/ Changes(script) \/ Impostor(script)
  <1>1. ASSUME ReadsPlainly(script), ~Alias(script) PROVE ReadsPort(script)
    <2>1. PICK e \in script.walk :
              PortItem(script, e, {"load"}) \/ PortCall(script, e, {"reader"})
      BY <1>1 DEF ReadsPlainly
    <2>2. CASE PortItem(script, e, {"load"})
      <3>1. e.base \in script.walk /\ Value(script.names, e.base) = "environ"
        BY <2>2, ScriptsAssumption DEF PortItem
      <3>2. IsEnviron(e.base)
        BY <1>1, <3>1, NamesTell
      <3> QED BY <2>2, <3>2 DEF PortItem, ReadsPort
    <2>3. CASE PortCall(script, e, {"reader"})
      <3>1. e.kind = "call" /\ e.func \in script.walk /\ Value(script.names, e.func) = "reader"
        BY <2>3, ScriptsAssumption DEF PortCall
      <3>2. IsPortCall(e)
        BY <1>1, <2>3, <3>1, FunctionsTell, GivesIt DEF PortCall, IsPortCall
      <3> QED BY <3>1, <3>2 DEF ReadsPort
    <2> QED BY <2>1, <2>2, <2>3
  <1>2. ASSUME ReadsPort(script), ~Impostor(script) PROVE Reads(script) \/ Changes(script)
    <2>1. PICK e \in script.walk :
              \/ e.kind = "subscript" /\ IsEnviron(e.base) /\ e.key = "PORT"
              \/ e.kind = "call" /\ IsPortCall(e)
      BY <1>2 DEF ReadsPort
    <2>2. CASE e.kind = "subscript" /\ IsEnviron(e.base) /\ e.key = "PORT"
      <3>1. e.base \in script.walk /\ e.ctx \in {"load", "store", "del"}
        BY <2>2, ScriptsAssumption
      <3>2. Value(script.names, e.base) = "environ"
        BY <1>2, <2>2, <3>1, NamesTell
      <3> QED BY <2>2, <3>1, <3>2 DEF PortItem, Reads, Changes
    <2>3. CASE e.kind = "call" /\ IsPortCall(e)
      <3>1. e.func \in script.walk
        BY <2>3, ScriptsAssumption
      <3>2. Value(script.names, e.func) = "reader" /\ GivesPort(e)
        BY <1>2, <2>3, <3>1, FunctionsTell, GivesIt DEF IsPortCall
      <3> QED BY <2>3, <3>2 DEF PortCall, Reads
    <2> QED BY <2>1, <2>2, <2>3
  <1> QED BY <1>1, <1>2

\* Whatever expressions a script is made of, however deep, and whatever its names are
\* bound to (Accepting.AcceptsServers).
THEOREM AlwaysAcceptsServers == Spec => []AcceptsServers
  <1>1. Inv => AcceptsServers
    <2> SUFFICES ASSUME source \in Trees \cup Initial, NEW script \in Scripts
                 PROVE  Accepted(script) <=> script.valid /\ ReadsPort(script)
      BY ReadsPortTells DEF Inv, AcceptsServers
    <2> DEFINE tree == [source EXCEPT ![Root] = script]
    <2>1. tree[Root] = script /\ script \notin {None, Directory} /\ script.valid \in BOOLEAN
      BY TreesAssumption, ScriptsAssumption
    <2>2. ~IsDir(tree, Root) /\ IsFile(tree, Root)
      BY <2>1 DEF IsDir, IsFile
    <2> HIDE DEF tree
    <2>3. DetectPython(tree) <=> script.valid /\ ReadsPort(script)
      BY <2>1, Zenon DEF DetectPython
    <2>4. None # "python"
      BY ScriptsAssumption
    <2>5. Detect(tree) = IF script.valid /\ ReadsPort(script) THEN "python" ELSE None
      BY <2>2, <2>3, Zenon DEF Detect
    <2> QED BY <2>4, <2>5 DEF Accepted, tree
  <1> QED BY <1>1, InvHolds, PTL
=============================================================================
