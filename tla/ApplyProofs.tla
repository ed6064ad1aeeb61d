---------------------------- MODULE ApplyProofs -----------------------------
(***************************************************************************)
(* Proofs about apply and rm, for any units, targets, failures and bounds. *)
(* Accounted is not inductive: that rm may drop the entry depends on what  *)
(* it still had to remove.  Inv adds what is on the list of the command in *)
(* progress (JobCovered) and the few types the steps rely on.              *)
(***************************************************************************)
EXTENDS Promises, TLAPS

JobFields == {"op", "unit", "target", "secret", "fresh", "todo"}

Typed ==
    /\ users \in [Ids -> {"none", "smallapp", "foreign"}]
    /\ DOMAIN file = Files
    /\ DOMAIN proc = Ids
    /\ registry \in [Names -> {None} \cup Entries]
    /\ job # None => /\ DOMAIN job = JobFields
                     /\ job.unit \in Names
                     /\ job.op = "apply" => job.target \in Targets

Inv == Typed /\ Accounted /\ JobCovered

\* What is free stays free, except what may be n's.
OnlyGrows(n) ==
    /\ \A m \in Names \ {n} : UnitFree(m) => UnitFree(m)'
    /\ \A id \in Ids \ IdsOf(n) : IdFree(id) => IdFree(id)'

\* A step that makes things for a registered unit alone orphans nothing.
LEMMA GrowthKeepsAccounted ==
    ASSUME Accounted, NEW n \in Names, OnlyGrows(n), Registered(n), registry' = registry
    PROVE  Accounted'
  <1>1. \A m \in Names : (Registered(m) \/ UnitFree(m))'
    BY DEF Accounted, OnlyGrows, Registered
  <1>2. \A id \in Ids : (Registrants(id) # {} \/ IdFree(id))'
    <2> SUFFICES ASSUME NEW id \in Ids
                 PROVE  Registrants(id)' # {} \/ IdFree(id)'
        OBVIOUS
    <2>1. Registrants(id)' = Registrants(id)
        BY DEF Registrants, Registered
    <2>2. CASE id \in IdsOf(n)
        BY <2>1, <2>2 DEF Registrants
    <2>3. CASE id \notin IdsOf(n)
        BY <2>1, <2>3 DEF OnlyGrows, Accounted
    <2> QED BY <2>2, <2>3
  <1> QED BY <1>1, <1>2 DEF Accounted

\* A step after which all that was free is still free orphans nothing.
LEMMA NoGrowthKeepsAccounted ==
    ASSUME Accounted, registry' = registry,
           \A m \in Names : UnitFree(m) => UnitFree(m)',
           \A id \in Ids : IdFree(id) => IdFree(id)'
    PROVE  Accounted'
  <1>1. \A id \in Ids : Registrants(id)' = Registrants(id)
    BY DEF Registrants, Registered
  <1> QED BY <1>1 DEF Accounted, Registered

-----------------------------------------------------------------------------
(* What a plan may contain.                                                *)

\* The files of a payload directory are pages of its unit.
LEMMA PayloadFiles == \A n \in Names : \A f \in FilesIn(App(n)) : \E p \in Pages : f = Page(n, p)
  BY DEF FilesIn, Files, DirOf, App, State, Sites, Etc, Host, Vhost, Env, Service, Page,
         Cache, Marker, Data

\* What a unit renders to is its vhost, its env file, its services and its pages.
LEMMA RenderedShape ==
    ASSUME NEW n \in Names, NEW t \in Targets
    PROVE  RenderedFiles(n, t) \subseteq {Vhost(n), Env(n)} \cup {Service(id) : id \in IdsOf(n)}
                                          \cup {Page(n, p) : p \in Pages}
  BY TargetsAssumption DEF RenderedFiles, PagesOf, IdsOf

\* The actions a plan is put together from, whatever their place in it.
LEMMA ActionShapes ==
    ASSUME NEW n \in Names, NEW at
    PROVE  /\ \A id \in IdsOf(n) : ApplyActionOf(n, Action(at, "user", <<"user", id>>))
           /\ \A verb \in {"mkdir", "chmod", "chgrp", "chown"} :
                \A d \in {App(n)} \cup {State(id) : id \in IdsOf(n)} :
                    ApplyActionOf(n, Action(at, verb, d))
           /\ \A f \in {Vhost(n), Env(n)} \cup {Service(id) : id \in IdsOf(n)}
                        \cup {Page(n, p) : p \in Pages} :
                    ApplyActionOf(n, Action(at, "write", f))
           /\ \A verb \in {"rm", "rm temp"} :
                \A p \in Pages : ApplyActionOf(n, Action(at, verb, Page(n, p)))
           /\ \A verb \in {"unmark", "mark"} : ApplyActionOf(n, Action(at, verb, Marker(n)))
           /\ ApplyActionOf(n, Action(at, "sync", Cache(n)))
           /\ \A verb \in {"join", "leave"} : ApplyActionOf(n, Action(at, verb, <<"group", n>>))
           /\ \A id \in IdsOf(n) : ApplyActionOf(n, Action(at, "start", <<"service", id>>))
           /\ \A verb \in {"restart caddy", "daemon-reload", "reload caddy", "commit",
                             "flush", "print"} :
                \A on : ApplyActionOf(n, Action(at, verb, on))
  <1> USE DEF ApplyActionOf, Action
  <1>1. \A id \in IdsOf(n) : ApplyActionOf(n, Action(at, "user", <<"user", id>>))
    OBVIOUS
  <1>2. \A verb \in {"mkdir", "chmod", "chgrp", "chown"} :
            \A d \in {App(n)} \cup {State(id) : id \in IdsOf(n)} :
                ApplyActionOf(n, Action(at, verb, d))
    OBVIOUS
  <1>3. \A f \in {Vhost(n), Env(n)} \cup {Service(id) : id \in IdsOf(n)}
                 \cup {Page(n, p) : p \in Pages} : ApplyActionOf(n, Action(at, "write", f))
    OBVIOUS
  <1>4. \A verb \in {"rm", "rm temp"} : \A p \in Pages : ApplyActionOf(n, Action(at, verb, Page(n, p)))
    OBVIOUS
  <1>5. \A verb \in {"unmark", "mark"} : ApplyActionOf(n, Action(at, verb, Marker(n)))
    OBVIOUS
  <1>6. ApplyActionOf(n, Action(at, "sync", Cache(n)))
    OBVIOUS
  <1>7. \A verb \in {"join", "leave"} : ApplyActionOf(n, Action(at, verb, <<"group", n>>))
    OBVIOUS
  <1>8. \A id \in IdsOf(n) : ApplyActionOf(n, Action(at, "start", <<"service", id>>))
    OBVIOUS
  <1>9. \A verb \in {"restart caddy", "daemon-reload", "reload caddy", "commit",
                      "flush", "print"} : \A on : ApplyActionOf(n, Action(at, verb, on))
    OBVIOUS
  <1> HIDE DEF ApplyActionOf, Action
  <1> QED BY <1>1, <1>2, <1>3, <1>4, <1>5, <1>6, <1>7, <1>8, <1>9

\* A plan only ever touches what is the unit's own.
LEMMA BuildShape ==
    ASSUME NEW n \in Names, NEW t \in Targets, NEW secret
    PROVE  \A a \in Build(n, t, secret) \cup Ending(n) : ApplyActionOf(n, a)
  <1>0. n \in IdsOf(n) /\ Gw[n] \in IdsOf(n)
    BY DEF IdsOf
  <1>1. \A a \in UserActions(n) : ApplyActionOf(n, a)
    BY <1>0, ActionShapes DEF UserActions, When
  <1>2. \A a \in DirectoryActions(n) : ApplyActionOf(n, a)
    <2>1. ASSUME NEW at, NEW d \in {App(n)} \cup {State(id) : id \in IdsOf(n)}
          PROVE  \A a \in MkdirActions(at, d) : ApplyActionOf(n, a)
        BY ActionShapes DEF MkdirActions, When
    <2>2. {App(n), State(n), State(Gw[n])} \subseteq {App(n)} \cup {State(id) : id \in IdsOf(n)}
        BY <1>0
    <2> QED BY <2>1, <2>2 DEF DirectoryActions
  <1>3. \A a \in WriteActions(n, t, secret) : ApplyActionOf(n, a)
    BY RenderedShape, ActionShapes DEF WriteActions, ToWrite
  <1>4. \A a \in StaleActions(n, t) : ApplyActionOf(n, a)
    <2>1. \A f \in Stale(n, t) \cup TempsIn(App(n)) : \E p \in Pages : f = Page(n, p)
        BY PayloadFiles DEF Stale, TempsIn
    <2>2. \A verb \in {"rm", "rm temp"} : \A p \in Pages : ApplyActionOf(n, Action(14, verb, Page(n, p)))
        BY ActionShapes
    <2> QED BY <2>1, <2>2 DEF StaleActions
  <1>5. \A a \in DependencyActions(n, t, secret) : ApplyActionOf(n, a)
    BY ActionShapes DEF DependencyActions, When
  <1>6. \A a \in ChgrpActions(n) \cup ChownActions(n) : ApplyActionOf(n, a)
    <2>1. \A at : \A verb \in {"chgrp", "chown"} :
            /\ ApplyActionOf(n, Action(at, verb, App(n)))
            /\ ApplyActionOf(n, Action(at, verb, State(n)))
            /\ ApplyActionOf(n, Action(at, verb, State(Gw[n])))
        BY <1>0, ActionShapes
    <2> QED BY <2>1 DEF ChgrpActions, ChownActions, When
  <1>7. \A a \in GroupActions(n, t) : ApplyActionOf(n, a)
    BY ActionShapes DEF GroupActions, When
  <1>8. \A a \in ServiceActions(n) \cup Ending(n) : ApplyActionOf(n, a)
    BY <1>0, ActionShapes DEF ServiceActions, Ending
  <1> QED BY <1>1, <1>2, <1>3, <1>4, <1>5, <1>6, <1>7, <1>8 DEF Build, Changes, When

-----------------------------------------------------------------------------
(* The command in progress.                                                *)

JobTyped == job # None => /\ DOMAIN job = JobFields
                          /\ job.unit \in Names
                          /\ job.op = "apply" => job.target \in Targets

\* A step that is done leaves the list of its command, and the command as it was.
LEMMA DoneJob ==
    ASSUME JobTyped, job # None, NEW s, Done(s)
    PROVE  /\ JobTyped'
           /\ job'.op = job.op /\ job'.unit = job.unit
           /\ job'.todo = job.todo \ {s}
  BY DEF JobTyped, Done, JobFields

\* A step of an apply whose effects are all the unit's keeps the invariant.
LEMMA ApplyStepKeepsInv ==
    ASSUME Inv, job # None, job.op = "apply", Registered(job.unit),
           \A r \in job.todo : ApplyActionOf(job.unit, r),
           NEW s, Done(s), OnlyGrows(job.unit), registry' = registry,
           users' \in [Ids -> {"none", "smallapp", "foreign"}],
           DOMAIN file' = Files, DOMAIN proc' = Ids
    PROVE  Inv'
  <1>1. JobTyped BY DEF Inv, Typed, JobTyped
  <1>2. /\ JobTyped' /\ job'.op = job.op /\ job'.unit = job.unit
        /\ job'.todo = job.todo \ {s}
    BY <1>1, DoneJob
  <1>3. Typed'
    BY <1>2 DEF Inv, Typed, JobTyped
  <1>4. Accounted'
    BY GrowthKeepsAccounted, <1>1 DEF Inv, JobTyped
  <1>5. JobCovered'
    <2>1. \A r \in job'.todo : ApplyActionOf(job'.unit, r)
        BY <1>2
    <2>2. registry'[job'.unit] # None
        BY <1>2 DEF Registered
    <2>3. \A n \in Names : registry'[n] # None => registry'[n].createdUser
        BY DEF Inv, JobCovered, Registered
    <2> QED BY <1>2, <2>1, <2>2, <2>3 DEF JobCovered, Registered
  <1> QED BY <1>3, <1>4, <1>5 DEF Inv

-----------------------------------------------------------------------------
(* What the methods of System can bring into being.                        *)

OwnDirs(n) == {App(n)} \cup {State(id) : id \in IdsOf(n)}
OwnFiles(n) == {Vhost(n), Env(n), Marker(n), Cache(n)} \cup {Service(id) : id \in IdsOf(n)}
               \cup {Page(n, p) : p \in Pages}

\* Making a directory of n's, or a shared one, makes no directory of another unit.
LEMMA DirsGrowOwn ==
    ASSUME NEW n \in Names, NEW d \in OwnDirs(n) \cup Shared, dirs' = dirs \cup {d, Parent(d)}
    PROVE  /\ \A m \in Names \ {n} : App(m) \in dirs' => App(m) \in dirs
           /\ \A id \in Ids \ IdsOf(n) : State(id) \in dirs' => State(id) \in dirs
  BY DEF Parent, OwnDirs, Shared, App, State, Host, Opt, Lib, Etc, Sites

LEMMA MkdirGrows ==
    ASSUME NEW n \in Names, NEW d \in OwnDirs(n) \cup Shared, MkdirP(d)
    PROVE  /\ \A m \in Names \ {n} : App(m) \in dirs' => App(m) \in dirs
           /\ \A id \in Ids \ IdsOf(n) : State(id) \in dirs' => State(id) \in dirs
  BY DirsGrowOwn DEF MkdirP

\* The files of a unit are in its own directories or in the shared ones.
LEMMA FileDirs ==
    ASSUME NEW n \in Names, NEW f \in OwnFiles(n)
    PROVE  DirOf(f) \in OwnDirs(n) \cup Shared
  <1> USE DEF OwnFiles, OwnDirs, Shared, DirOf, IdsOf
  <1>1. CASE f = Vhost(n) BY <1>1 DEF Vhost
  <1>2. CASE f = Env(n) BY <1>2 DEF Env
  <1>3. CASE f = Marker(n) BY <1>3 DEF Marker
  <1>4. CASE f = Cache(n) BY <1>4 DEF Cache
  <1>5. CASE f \in {Service(id) : id \in IdsOf(n)} BY <1>5 DEF Service
  <1>6. CASE f \in {Page(n, p) : p \in Pages} BY <1>6 DEF Page
  <1> QED BY <1>1, <1>2, <1>3, <1>4, <1>5, <1>6

\* The files of a unit are no other unit's.
LEMMA OwnFilesDistinct ==
    ASSUME NEW n \in Names, NEW f \in OwnFiles(n)
    PROVE  /\ \A m \in Names \ {n} : f # Vhost(m) /\ f # Env(m)
           /\ \A id \in Ids \ IdsOf(n) : f # Service(id)
  BY DEF OwnFiles, Vhost, Env, Marker, Cache, Service, Page

\* The vhost, env file and services of a unit are among the files of the host.
LEMMA FilesAreFiles ==
    /\ \A n \in Names : Vhost(n) \in Files /\ Env(n) \in Files
    /\ \A id \in Ids : Service(id) \in Files
  BY DEF Files

\* Writing one of n's files makes nothing that is another unit's.
LEMMA WriteGrows ==
    ASSUME NEW n \in Names, NEW f \in OwnFiles(n), NEW content, Write(f, content),
           DOMAIN file = Files, UNCHANGED <<users, proc, served>>
    PROVE  OnlyGrows(n) /\ DOMAIN file' = Files
  <1>1. /\ \A m \in Names \ {n} : App(m) \in dirs' => App(m) \in dirs
        /\ \A id \in Ids \ IdsOf(n) : State(id) \in dirs' => State(id) \in dirs
    BY FileDirs, MkdirGrows DEF Write
  <1>2. /\ \A m \in Names \ {n} : file'[Vhost(m)] = file[Vhost(m)] /\ file'[Env(m)] = file[Env(m)]
        /\ \A id \in Ids \ IdsOf(n) : file'[Service(id)] = file[Service(id)]
    BY OwnFilesDistinct, FilesAreFiles DEF Write
  <1> QED BY <1>1, <1>2 DEF OnlyGrows, UnitFree, IdFree, Exists, Write
-----------------------------------------------------------------------------
(* The steps of an apply.                                                  *)

Applying == /\ job # None /\ job.op = "apply" /\ Registered(job.unit)
            /\ \A r \in job.todo : ApplyActionOf(job.unit, r)

ApplyStep(s) ==
    \/ UserStep(s) \/ MkdirStep(s) \/ ChmodStep(s) \/ WriteStep(s) \/ StaleStep(s)
    \/ SweepStep(s) \/ UnmarkStep(s) \/ SyncStep(s) \/ MarkStep(s) \/ GiveStep(s)
    \/ JoinStep(s) \/ LeaveStep(s) \/ RestartCaddyStep(s)
    \/ DaemonReloadStep(s) \/ StartStep(s) \/ ReloadCaddyStep(s) \/ FlushStep(s)

\* What a step of an apply names, by its verb.
LEMMA StepShape ==
    ASSUME NEW n, NEW s, ApplyActionOf(n, s)
    PROVE  /\ s.verb = "user" => s.on \in {<<"user", id>> : id \in IdsOf(n)}
           /\ s.verb \in {"mkdir", "chmod", "chgrp", "chown"} => s.on \in OwnDirs(n)
           /\ s.verb \in {"write", "rm", "unmark", "mark", "sync"} => s.on \in OwnFiles(n)
           /\ s.verb = "start" => s.on \in {<<"service", id>> : id \in IdsOf(n)}
  BY DEF ApplyActionOf, OwnDirs, OwnFiles

\* Removing a file makes nothing.
LEMMA RemoveShrinks ==
    ASSUME NEW f, Remove(f), DOMAIN file = Files, UNCHANGED <<users, proc, served>>
    PROVE  /\ \A m \in Names : UnitFree(m) => UnitFree(m)'
           /\ \A id \in Ids : IdFree(id) => IdFree(id)'
           /\ DOMAIN file' = Files
  BY FilesAreFiles DEF Remove, UnitFree, IdFree, Exists

\* Every step of an apply that changes the host keeps the invariant.
LEMMA ApplyStepInv ==
    ASSUME Inv, Applying, NEW s \in job.todo, ApplyStep(s)
    PROVE  Inv'
  <1> DEFINE n == job.unit
             UsersTyped == users \in [Ids -> {"none", "smallapp", "foreign"}]
  <1>0. /\ n \in Names /\ n \in Ids /\ Gw[n] \in Ids /\ IdsOf(n) \subseteq Ids
        /\ DOMAIN file = Files /\ DOMAIN proc = Ids /\ UsersTyped
        /\ ApplyActionOf(n, s)
    BY NamesAssumption DEF Inv, Typed, Applying, IdsOf
  <1>1. SUFFICES /\ Done(s) /\ OnlyGrows(n) /\ registry' = registry
                 /\ UsersTyped' /\ DOMAIN file' = Files /\ DOMAIN proc' = Ids
    BY ApplyStepKeepsInv DEF Applying
  <1>2. CASE UserStep(s)
    <2>1. PICK id \in IdsOf(n) : s.on = <<"user", id>>
        BY <1>0, <1>2, StepShape DEF UserStep, Doing
    <2>2. users' = [users EXCEPT ![id] = "smallapp"]
        BY <1>2, <2>1 DEF UserStep, CreateUser
    <2>3. UsersTyped' /\ \A i \in Ids \ {id} : users'[i] = users[i]
        BY <1>0, <2>2
    <2> QED BY <1>0, <1>2, <2>1, <2>3
            DEF UserStep, OnlyGrows, UnitFree, IdFree, Exists, tree
  <1>3. CASE MkdirStep(s)
    <2>1. s.on \in OwnDirs(n)
        BY <1>0, <1>3, StepShape DEF MkdirStep, Doing
    <2>2. /\ \A m \in Names \ {n} : App(m) \in dirs' => App(m) \in dirs
          /\ \A id \in Ids \ IdsOf(n) : State(id) \in dirs' => State(id) \in dirs
        BY <1>0, <1>3, <2>1, MkdirGrows DEF MkdirStep, Mkdir
    <2> QED BY <1>0, <1>3, <2>2
            DEF MkdirStep, Mkdir, OnlyGrows, UnitFree, IdFree, Exists, accounts, daemons
  <1>4. CASE ChmodStep(s)
    BY <1>0, <1>4 DEF ChmodStep, Chmod, OnlyGrows, UnitFree, IdFree, Exists, accounts, daemons
  <1>5. CASE WriteStep(s)
    <2>1. s.on \in OwnFiles(n)
        BY <1>0, <1>5, StepShape DEF WriteStep, Doing
    <2> QED BY <1>0, <1>5, <2>1, WriteGrows DEF WriteStep, accounts, daemons
  <1>6. CASE StaleStep(s)
    BY <1>0, <1>6, RemoveShrinks DEF StaleStep, OnlyGrows, accounts, daemons
  <1>7. CASE UnmarkStep(s)
    BY <1>0, <1>7, RemoveShrinks DEF UnmarkStep, OnlyGrows, accounts, daemons
  <1>8. CASE SyncStep(s)
    <2>1. s.on \in OwnFiles(n)
        BY <1>0, <1>8, StepShape DEF SyncStep, Doing
    <2> QED BY <1>0, <1>8, <2>1, WriteGrows DEF SyncStep, accounts, daemons
  <1>9. CASE MarkStep(s)
    <2>1. s.on \in OwnFiles(n)
        BY <1>0, <1>9, StepShape DEF MarkStep, Doing
    <2> QED BY <1>0, <1>9, <2>1, WriteGrows DEF MarkStep, accounts, daemons
  <1>10. CASE GiveStep(s)
    BY <1>0, <1>10 DEF GiveStep, GiveTree, OnlyGrows, UnitFree, IdFree, Exists, accounts, daemons
  <1>11. CASE JoinStep(s)
    BY <1>0, <1>11 DEF JoinStep, AddGroupMember, OnlyGrows, UnitFree, IdFree, Exists, tree, daemons
  <1>12. CASE LeaveStep(s)
    BY <1>0, <1>12
       DEF LeaveStep, RemoveGroupMember, OnlyGrows, UnitFree, IdFree, Exists, tree, daemons
  <1>13. CASE RestartCaddyStep(s)
    BY <1>0, <1>13
       DEF RestartCaddyStep, CaddyRestart, Vhosts, OnlyGrows, UnitFree, IdFree, Exists, accounts, tree
  <1>14. CASE DaemonReloadStep(s)
    BY <1>0, <1>14
       DEF DaemonReloadStep, DaemonReload, OnlyGrows, UnitFree, IdFree, Exists, accounts, tree
  <1>15. CASE StartStep(s)
    <2>1. PICK id \in IdsOf(n) : s.on = <<"service", id>>
        BY <1>0, <1>15, StepShape DEF StartStep, Doing
    <2>2. Start(id)
        BY <1>15, <2>1 DEF StartStep
    <2>3. \A m : App(m) \in dirs' => App(m) \in dirs
        BY <2>2 DEF Start, App, State
    <2>4. /\ \A i \in Ids \ IdsOf(n) : proc'[i] = proc[i] /\ (State(i) \in dirs' => State(i) \in dirs)
          /\ DOMAIN proc' = Ids
        BY <1>0, <2>2 DEF Start, State
    <2> QED BY <1>0, <1>15, <2>2, <2>3, <2>4
            DEF StartStep, Start, OnlyGrows, UnitFree, IdFree, Exists, accounts
  <1>16. CASE ReloadCaddyStep(s)
    BY <1>0, <1>16
       DEF ReloadCaddyStep, CaddyReload, Vhosts, OnlyGrows, UnitFree, IdFree, Exists, accounts, tree
  <1>17. CASE FlushStep(s)
    BY <1>0, <1>17
       DEF FlushStep, OnlyGrows, UnitFree, IdFree, Exists, accounts, tree, daemons
  <1>18. CASE SweepStep(s)
    BY <1>0, <1>18
       DEF SweepStep, RemoveTemp, OnlyGrows, UnitFree, IdFree, Exists, accounts, daemons
  <1> QED BY <1>2, <1>3, <1>4, <1>5, <1>6, <1>7, <1>8, <1>9, <1>10, <1>11, <1>12, <1>13,
             <1>14, <1>15, <1>16, <1>17, <1>18 DEF ApplyStep
-----------------------------------------------------------------------------
(* The steps of rm.                                                        *)

Removing == /\ job # None /\ job.op = "rm"
            /\ job.todo \subseteq RemovalScript(job.unit)
            /\ RemovalPending(job.unit, job.todo)
            /\ Registered(job.unit) \/ \A r \in job.todo : r.verb # "drop"

\* The steps of a removal.
LEMMA ScriptCases ==
    ASSUME NEW n, NEW s \in RemovalScript(n)
    PROVE  \/ \E at \in {1, 2}, id \in IdsOf(n) : s = Action(at, "disable", <<"service", id>>)
           \/ \E at \in {3, 4, 5}, d \in OwnDirs(n) : s = Action(at, "rm tree", d)
           \/ \E at \in {6, 7, 8, 9}, f \in OwnFiles(n) : s = Action(at, "rm", f)
           \/ \E at \in {10, 11}, id \in IdsOf(n) : s = Action(at, "userdel", <<"user", id>>)
           \/ \E on : s = Action(12, "daemon-reload", on)
           \/ \E on : s = Action(13, "reload caddy", on)
           \/ s = Action(14, "drop", <<"unit", n>>)
           \/ \E on : s = Action(15, "prune", on)
  <1>1. CASE s \in {Action(1, "disable", <<"service", n>>), Action(2, "disable", <<"service", Gw[n]>>)}
    BY <1>1 DEF IdsOf
  <1>2. CASE s \in {Action(3, "rm tree", App(n)), Action(4, "rm tree", State(n)),
                    Action(5, "rm tree", State(Gw[n]))}
    <2>1. {App(n), State(n), State(Gw[n])} \subseteq OwnDirs(n)
        BY DEF OwnDirs, IdsOf
    <2> QED BY <1>2, <2>1
  <1>3. CASE s \in {Action(6, "rm", Env(n)), Action(7, "rm", Service(n)),
                    Action(8, "rm", Service(Gw[n])), Action(9, "rm", Vhost(n))}
    <2>1. {Env(n), Service(n), Service(Gw[n]), Vhost(n)} \subseteq OwnFiles(n)
        BY DEF OwnFiles, IdsOf
    <2> QED BY <1>3, <2>1
  <1>4. CASE s \in UserdelActions(n)
    BY <1>4 DEF UserdelActions, IdsOf
  <1>5. CASE s \in {Action(12, "daemon-reload", <<"systemd">>), Action(13, "reload caddy", <<"caddy">>),
                    Action(14, "drop", <<"unit", n>>), Action(15, "prune", <<"lib">>)}
    BY <1>5
  <1> QED BY <1>1, <1>2, <1>3, <1>4, <1>5 DEF RemovalScript

\* The fields of an action.
LEMMA ActionFields ==
    ASSUME NEW at, NEW verb, NEW on, NEW s, s = Action(at, verb, on)
    PROVE  s.at = at /\ s.verb = verb /\ s.on = on
  BY DEF Action

\* What a removal step names, and its place among the others.
LEMMA ScriptFields ==
    ASSUME NEW n, NEW s \in RemovalScript(n)
    PROVE  \/ s.verb = "disable" /\ s.at \in {1, 2} /\ s.on \in {<<"service", id>> : id \in IdsOf(n)}
           \/ s.verb = "rm tree" /\ s.at \in {3, 4, 5} /\ s.on \in OwnDirs(n)
           \/ s.verb = "rm" /\ s.at \in {6, 7, 8, 9} /\ s.on \in OwnFiles(n)
           \/ s.verb = "userdel" /\ s.at \in {10, 11} /\ s.on \in {<<"user", id>> : id \in IdsOf(n)}
           \/ s.verb = "daemon-reload" /\ s.at = 12
           \/ s.verb = "reload caddy" /\ s.at = 13
           \/ s.verb = "drop" /\ s.at = 14 /\ s = Action(14, "drop", <<"unit", n>>)
           \/ s.verb = "prune" /\ s.at = 15
  <1>1. CASE \E at \in {1, 2}, id \in IdsOf(n) : s = Action(at, "disable", <<"service", id>>)
    <2>1. PICK at \in {1, 2}, id \in IdsOf(n) : s = Action(at, "disable", <<"service", id>>)
        BY <1>1
    <2>2. s.at = at /\ s.verb = "disable" /\ s.on = <<"service", id>>
        BY <2>1 DEF Action
    <2> QED BY <2>2
  <1>2. CASE \E at \in {3, 4, 5}, d \in OwnDirs(n) : s = Action(at, "rm tree", d)
    <2>1. PICK at \in {3, 4, 5}, d \in OwnDirs(n) : s = Action(at, "rm tree", d)
        BY <1>2
    <2>2. s.at = at /\ s.verb = "rm tree" /\ s.on = d
        BY <2>1 DEF Action
    <2> QED BY <2>2
  <1>3. CASE \E at \in {6, 7, 8, 9}, f \in OwnFiles(n) : s = Action(at, "rm", f)
    <2>1. PICK at \in {6, 7, 8, 9}, f \in OwnFiles(n) : s = Action(at, "rm", f)
        BY <1>3
    <2>2. s.at = at /\ s.verb = "rm" /\ s.on = f
        BY <2>1 DEF Action
    <2> QED BY <2>2
  <1>4. CASE \E at \in {10, 11}, id \in IdsOf(n) : s = Action(at, "userdel", <<"user", id>>)
    <2>1. PICK at \in {10, 11}, id \in IdsOf(n) : s = Action(at, "userdel", <<"user", id>>)
        BY <1>4
    <2>2. s.at = at /\ s.verb = "userdel" /\ s.on = <<"user", id>>
        BY <2>1 DEF Action
    <2> QED BY <2>2
  <1>5. CASE \E on : s = Action(12, "daemon-reload", on)
    <2>1. PICK on : s = Action(12, "daemon-reload", on)
        BY <1>5
    <2>2. s.at = 12 /\ s.verb = "daemon-reload"
        BY <2>1 DEF Action
    <2> QED BY <2>2
  <1>6. CASE \E on : s = Action(13, "reload caddy", on)
    <2>1. PICK on : s = Action(13, "reload caddy", on)
        BY <1>6
    <2>2. s.at = 13 /\ s.verb = "reload caddy"
        BY <2>1 DEF Action
    <2> QED BY <2>2
  <1>7. CASE s = Action(14, "drop", <<"unit", n>>)
    <2>1. s.at = 14 /\ s.verb = "drop"
        BY <1>7 DEF Action
    <2> QED BY <1>7, <2>1
  <1>8. CASE \E on : s = Action(15, "prune", on)
    <2>1. PICK on : s = Action(15, "prune", on)
        BY <1>8
    <2>2. s.at = 15 /\ s.verb = "prune"
        BY <2>1 DEF Action
    <2> QED BY <2>2
  <1> QED BY <1>1, <1>2, <1>3, <1>4, <1>5, <1>6, <1>7, <1>8, ScriptCases

\* A step of rm that makes nothing, and takes away what it stood for.
LEMMA RemovalStepKeepsInv ==
    ASSUME Inv, Removing, NEW s \in job.todo, Done(s), registry' = registry,
           \A m \in Names : UnitFree(m) => UnitFree(m)',
           \A id \in Ids : IdFree(id) => IdFree(id)',
           RemovalPending(job.unit, job.todo \ {s})',
           users' \in [Ids -> {"none", "smallapp", "foreign"}],
           DOMAIN file' = Files, DOMAIN proc' = Ids
    PROVE  Inv'
  <1>1. JobTyped BY DEF Inv, Typed, JobTyped
  <1>2. /\ JobTyped' /\ job'.op = job.op /\ job'.unit = job.unit
        /\ job'.todo = job.todo \ {s}
    BY <1>1, DoneJob DEF Removing
  <1>3. Typed'
    BY <1>2 DEF Inv, Typed, JobTyped
  <1>4. Accounted'
    BY NoGrowthKeepsAccounted DEF Inv
  <1>5. JobCovered'
    <2>1. /\ job'.todo \subseteq RemovalScript(job'.unit)
          /\ registry'[job'.unit] # None \/ \A r \in job'.todo : r.verb # "drop"
        BY <1>2 DEF Removing, Registered
    <2>2. RemovalPending(job.unit, job.todo)'
        BY <1>2
    <2>3. \A m \in Names : registry'[m] # None => registry'[m].createdUser
        BY DEF Inv, JobCovered, Registered
    <2> QED BY <1>2, <2>1, <2>2, <2>3 DEF JobCovered, Registered, Removing, RemovalScript, UserdelActions
  <1> QED BY <1>3, <1>4, <1>5 DEF Inv

\* n's things that are there after step s, and were not what s removes.
Remains(n, s) ==
    /\ \A id \in IdsOf(n) :
        /\ proc'[id] # None => proc[id] # None /\ ~(s.verb = "disable" /\ s.on = <<"service", id>>)
        /\ State(id) \in dirs' => State(id) \in dirs /\ ~(s.verb = "rm tree" /\ s.on = State(id))
        /\ Exists(Service(id))' => Exists(Service(id)) /\ ~(s.verb = "rm" /\ s.on = Service(id))
        /\ users'[id] = "smallapp" =>
             users[id] = "smallapp" /\ ~(s.verb = "userdel" /\ s.on = <<"user", id>>)
    /\ App(n) \in dirs' => App(n) \in dirs /\ ~(s.verb = "rm tree" /\ s.on = App(n))
    /\ Exists(Env(n))' => Exists(Env(n)) /\ ~(s.verb = "rm" /\ s.on = Env(n))
    /\ Exists(Vhost(n))' => Exists(Vhost(n)) /\ ~(s.verb = "rm" /\ s.on = Vhost(n))
    /\ served'[n] # None => served[n] # None /\ s.verb # "reload caddy"

\* A step that removes what it stands for may leave the list of the removal.
LEMMA PendingAfter ==
    ASSUME NEW n, NEW todo, NEW s, RemovalPending(n, todo), Remains(n, s)
    PROVE  RemovalPending(n, todo \ {s})'
  <1>1. ASSUME NEW id \in IdsOf(n), proc'[id] # None
        PROVE  \E r \in todo \ {s} : r.verb = "disable" /\ r.on = <<"service", id>>
    <2>1. proc[id] # None /\ ~(s.verb = "disable" /\ s.on = <<"service", id>>)
        BY <1>1 DEF Remains
    <2>2. PICK r \in todo : r.verb = "disable" /\ r.on = <<"service", id>>
        BY <2>1 DEF RemovalPending
    <2> QED BY <2>1, <2>2
  <1>2. ASSUME NEW id \in IdsOf(n), State(id) \in dirs'
        PROVE  \E r \in todo \ {s} : r.verb = "rm tree" /\ r.on = State(id)
    <2>1. State(id) \in dirs /\ ~(s.verb = "rm tree" /\ s.on = State(id))
        BY <1>2 DEF Remains
    <2>2. PICK r \in todo : r.verb = "rm tree" /\ r.on = State(id)
        BY <2>1 DEF RemovalPending
    <2> QED BY <2>1, <2>2
  <1>3. ASSUME NEW id \in IdsOf(n), Exists(Service(id))'
        PROVE  \E r \in todo \ {s} : r.verb = "rm" /\ r.on = Service(id)
    <2>1. Exists(Service(id)) /\ ~(s.verb = "rm" /\ s.on = Service(id))
        BY <1>3 DEF Remains
    <2>2. PICK r \in todo : r.verb = "rm" /\ r.on = Service(id)
        BY <2>1 DEF RemovalPending
    <2> QED BY <2>1, <2>2
  <1>4. ASSUME NEW id \in IdsOf(n), users'[id] = "smallapp"
        PROVE  \E r \in todo \ {s} : r.verb = "userdel" /\ r.on = <<"user", id>>
    <2>1. users[id] = "smallapp" /\ ~(s.verb = "userdel" /\ s.on = <<"user", id>>)
        BY <1>4 DEF Remains
    <2>2. PICK r \in todo : r.verb = "userdel" /\ r.on = <<"user", id>>
        BY <2>1 DEF RemovalPending
    <2> QED BY <2>1, <2>2
  <1>5. ASSUME App(n) \in dirs'
        PROVE  \E r \in todo \ {s} : r.verb = "rm tree" /\ r.on = App(n)
    <2>1. App(n) \in dirs /\ ~(s.verb = "rm tree" /\ s.on = App(n))
        BY <1>5 DEF Remains
    <2>2. PICK r \in todo : r.verb = "rm tree" /\ r.on = App(n)
        BY <2>1 DEF RemovalPending
    <2> QED BY <2>1, <2>2
  <1>6. ASSUME Exists(Env(n))'
        PROVE  \E r \in todo \ {s} : r.verb = "rm" /\ r.on = Env(n)
    <2>1. Exists(Env(n)) /\ ~(s.verb = "rm" /\ s.on = Env(n))
        BY <1>6 DEF Remains
    <2>2. PICK r \in todo : r.verb = "rm" /\ r.on = Env(n)
        BY <2>1 DEF RemovalPending
    <2> QED BY <2>1, <2>2
  <1>7. ASSUME Exists(Vhost(n))'
        PROVE  \E r \in todo \ {s} : r.verb = "rm" /\ r.on = Vhost(n)
    <2>1. Exists(Vhost(n)) /\ ~(s.verb = "rm" /\ s.on = Vhost(n))
        BY <1>7 DEF Remains
    <2>2. PICK r \in todo : r.verb = "rm" /\ r.on = Vhost(n)
        BY <2>1 DEF RemovalPending
    <2> QED BY <2>1, <2>2
  <1>8. ASSUME served'[n] # None
        PROVE  \E r \in todo \ {s} : r.verb = "reload caddy"
    <2>1. served[n] # None /\ ~(s.verb = "reload caddy")
        BY <1>8 DEF Remains
    <2>2. PICK r \in todo : r.verb = "reload caddy"
        BY <2>1 DEF RemovalPending
    <2> QED BY <2>1, <2>2
  <1> QED BY <1>1, <1>2, <1>3, <1>4, <1>5, <1>6, <1>7, <1>8 DEF RemovalPending

\* The places of removals come before those of the reloads and the drop.
LEMMA Places ==
    ASSUME NEW i \in {1, 2, 3, 4, 5, 6, 7, 8, 9, 10, 11}, NEW j \in {12, 13, 14, 15}
    PROVE  ~(j <= i)
  OBVIOUS

\* The first step left on the list is not one after a removal still to come.
LEMMA RemovedBefore ==
    ASSUME Removing, NEW s \in job.todo, First(s), s.at \in {12, 13, 14, 15}
    PROVE  \A r \in job.todo : r.verb \notin {"disable", "rm tree", "rm", "userdel"}
  <1> SUFFICES ASSUME NEW r \in job.todo, r.verb \in {"disable", "rm tree", "rm", "userdel"}
               PROVE  FALSE
      OBVIOUS
  <1>1. r.at \in {1, 2, 3, 4, 5, 6, 7, 8, 9, 10, 11}
    BY ScriptFields DEF Removing
  <1>2. s.at <= r.at
    BY DEF First
  <1> QED BY <1>1, <1>2, Places

RmStep(s) ==
    \/ DisableStep(s) \/ RemoveTreeStep(s) \/ StaleStep(s) \/ UserdelStep(s)
    \/ DaemonReloadStep(s) \/ ReloadCaddyStep(s)

\* Every step of rm that changes the host keeps the invariant.
LEMMA RmStepInv ==
    ASSUME Inv, Removing, NEW s \in job.todo, RmStep(s)
    PROVE  Inv'
  <1> DEFINE UsersTyped == users \in [Ids -> {"none", "smallapp", "foreign"}]
             Shrinks == /\ \A m \in Names : UnitFree(m) => UnitFree(m)'
                        /\ \A id \in Ids : IdFree(id) => IdFree(id)'
  <1>0. PICK n : n = job.unit
    OBVIOUS
  <1>1. /\ n \in Names /\ n \in Ids /\ Gw[n] \in Ids /\ IdsOf(n) \subseteq Ids
        /\ DOMAIN file = Files /\ DOMAIN proc = Ids /\ UsersTyped
        /\ s \in RemovalScript(n) /\ RemovalPending(n, job.todo)
    BY <1>0, NamesAssumption DEF Inv, Typed, Removing, IdsOf
  <1>2. SUFFICES /\ Done(s) /\ registry' = registry /\ Shrinks /\ Remains(n, s)
                 /\ UsersTyped' /\ DOMAIN file' = Files /\ DOMAIN proc' = Ids
    <2>1. JobTyped BY DEF Inv, Typed, JobTyped
    <2>2. job'.unit = n /\ job'.todo = job.todo \ {s}
        BY <1>0, <1>2, <2>1, DoneJob DEF Removing
    <2>3. RemovalPending(n, job.todo \ {s})'
        <3>1. PICK todo : todo = job.todo
            OBVIOUS
        <3>2. RemovalPending(n, todo \ {s})'
            BY <1>1, <1>2, <3>1, PendingAfter
        <3>3. job'.todo \ {s} = todo \ {s}
            BY <2>2, <3>1
        <3> QED BY <3>2, <3>3
    <2>4. RemovalPending(job.unit, job.todo \ {s})'
        BY <2>2, <2>3
    <2> QED BY <1>2, <2>4, RemovalStepKeepsInv
  <1>3. CASE DisableStep(s)
    <2>1. PICK id \in IdsOf(n) : s.on = <<"service", id>>
        BY <1>1, <1>3, ScriptFields DEF DisableStep, Doing
    <2>2. proc' = [proc EXCEPT ![id] = None]
        BY <1>3, <2>1 DEF DisableStep, Disable
    <2>3. /\ DOMAIN proc' = Ids
          /\ \A i \in Ids : proc'[i] # None => proc[i] # None /\ i # id
        BY <1>1, <2>2
    <2> QED BY <1>1, <1>3, <2>1, <2>3
            DEF DisableStep, Doing, Disable, Remains, UnitFree, IdFree, Exists, accounts, tree
  <1>4. CASE RemoveTreeStep(s)
    <2>1. /\ DOMAIN file' = Files /\ dirs' = dirs \ {s.on}
          /\ \A f \in Files : file'[f] # None => file[f] # None
        BY <1>1, <1>4 DEF RemoveTreeStep, RemoveTree
    <2> QED BY <1>1, <1>4, <2>1, FilesAreFiles
            DEF RemoveTreeStep, Doing, Remains, UnitFree, IdFree, Exists, accounts, daemons
  <1>5. CASE StaleStep(s)
    <2>1. /\ DOMAIN file' = Files
          /\ \A f \in Files : file'[f] # None => file[f] # None /\ f # s.on
        BY <1>1, <1>5 DEF StaleStep, Remove
    <2> QED BY <1>1, <1>5, <2>1, FilesAreFiles
            DEF StaleStep, Doing, Remove, Remains, UnitFree, IdFree, Exists, accounts, daemons
  <1>6. CASE UserdelStep(s)
    <2>1. PICK id \in IdsOf(n) : s.on = <<"user", id>>
        BY <1>1, <1>6, ScriptFields DEF UserdelStep, Doing
    <2>2. users' = [users EXCEPT ![id] = "none"]
        BY <1>6, <2>1 DEF UserdelStep, DeleteUser
    <2>3. /\ UsersTyped'
          /\ \A i \in Ids : users'[i] = "smallapp" => users[i] = "smallapp" /\ i # id
        BY <1>1, <2>2
    <2> QED BY <1>1, <1>6, <2>1, <2>3
            DEF UserdelStep, Doing, Remains, UnitFree, IdFree, Exists, tree
  <1>7. CASE DaemonReloadStep(s)
    BY <1>1, <1>7
       DEF DaemonReloadStep, DaemonReload, Doing, Remains, UnitFree, IdFree, Exists, accounts, tree
  <1>8. CASE ReloadCaddyStep(s)
    <2>1. s.at = 13
        BY <1>1, <1>8, ScriptFields DEF ReloadCaddyStep, Doing
    <2>2. ~Exists(Vhost(n))
        BY <1>1, <1>8, <2>1, RemovedBefore DEF ReloadCaddyStep, Doing, RemovalPending
    <2>3. /\ \A m \in Names : ~Exists(Vhost(m)) => served'[m] = None
          /\ served'[n] = None
        BY <1>1, <1>8, <2>2 DEF ReloadCaddyStep, CaddyReload, Vhosts, Exists
    <2> QED BY <1>1, <1>8, <2>3
            DEF ReloadCaddyStep, CaddyReload, Doing, Remains, UnitFree, IdFree, Exists, accounts, tree
  <1> QED BY <1>3, <1>4, <1>5, <1>6, <1>7, <1>8 DEF RmStep

\* Dropping the entry, last, orphans nothing: all it led to is gone.
LEMMA DropStepInv ==
    ASSUME Inv, Removing, NEW s \in job.todo, DropStep(s)
    PROVE  Inv'
  <1>0. PICK n : n = job.unit
    OBVIOUS
  <1>1. /\ n \in Names /\ IdsOf(n) \subseteq Ids
        /\ job.todo \subseteq RemovalScript(n) /\ RemovalPending(n, job.todo)
    BY <1>0, NamesAssumption DEF Inv, Typed, Removing, IdsOf
  <1>2. JobTyped
    BY DEF Inv, Typed, JobTyped
  <1>3. /\ JobTyped' /\ job'.op = "rm" /\ job'.unit = n /\ job'.todo = job.todo \ {s}
    BY <1>0, <1>2, DoneJob DEF DropStep, Removing
  <1>4. s = Action(14, "drop", <<"unit", n>>) /\ s.at = 14 /\ First(s)
    BY <1>1, ScriptFields DEF DropStep, Doing
  <1>5. \A r \in job.todo : r.verb \notin {"disable", "rm tree", "rm", "userdel", "reload caddy"}
    <2>1. \A r \in job.todo : r.verb \notin {"disable", "rm tree", "rm", "userdel"}
        BY <1>4, RemovedBefore
    <2>2. ASSUME NEW r \in job.todo, r.verb = "reload caddy"
          PROVE  FALSE
        <3>1. r.at = 13
            BY <1>1, <2>2, ScriptFields
        <3>2. s.at <= r.at
            BY <1>4 DEF First
        <3> QED BY <1>4, <3>1, <3>2
    <2> QED BY <2>1, <2>2
  <1>6. UnitFree(n) /\ \A id \in IdsOf(n) : IdFree(id)
    BY <1>1, <1>5 DEF RemovalPending, UnitFree, IdFree
  <1>7. UNCHANGED <<users, dirs, file, proc, served>>
    BY DEF DropStep, host, accounts, tree, daemons
  <1>8. /\ \A m \in Names : UnitFree(m)' <=> UnitFree(m)
        /\ \A id \in Ids : IdFree(id)' <=> IdFree(id)
    BY <1>7 DEF UnitFree, IdFree, Exists
  <1>9. /\ registry' \in [Names -> {None} \cup Entries]
        /\ \A m \in Names \ {n} : registry'[m] = registry[m]
        /\ registry'[n] = None
    BY <1>0, <1>1 DEF DropStep, Inv, Typed
  <1>10. Accounted'
    <2>1. \A m \in Names : (Registered(m) \/ UnitFree(m))'
        BY <1>6, <1>8, <1>9 DEF Inv, Accounted, Registered
    <2>2. ASSUME NEW id \in Ids
          PROVE  Registrants(id)' # {} \/ IdFree(id)'
        <3>1. CASE id \in IdsOf(n)
            BY <1>6, <1>8, <3>1
        <3>2. CASE id \notin IdsOf(n)
            <4>1. Registrants(id)' = Registrants(id)
                BY <1>9, <3>2 DEF Registrants, Registered
            <4> QED BY <1>8, <4>1 DEF Inv, Accounted
        <3> QED BY <3>1, <3>2
    <2> QED BY <2>1, <2>2 DEF Accounted
  <1>11. JobCovered'
    <2>1. \A m \in Names : registry'[m] # None => registry'[m].createdUser
        BY <1>9 DEF Inv, JobCovered, Registered
    <2>2. \A r \in job'.todo : r.verb # "drop"
        BY <1>1, <1>3, <1>4, ScriptFields
    <2>3. PICK todo : todo = job.todo \ {s}
        OBVIOUS
    <2>4. RemovalPending(n, todo)'
        BY <1>1, <1>6, <1>8 DEF RemovalPending, UnitFree, IdFree
    <2>5. RemovalPending(job.unit, job.todo)'
        BY <1>3, <2>3, <2>4
    <2>6. job'.todo \subseteq RemovalScript(job'.unit)
        BY <1>1, <1>3
    <2> QED BY <1>3, <2>5, <2>6, <2>1, <2>2, <2>3, <2>4
            DEF JobCovered, Registered, RemovalScript, UserdelActions
  <1>12. Typed'
    BY <1>3, <1>7, <1>9 DEF Inv, Typed, JobTyped
  <1> QED BY <1>10, <1>11, <1>12 DEF Inv

-----------------------------------------------------------------------------
(* The end of a command, its beginning, and what happens around it.        *)

\* A step that ends the command, makes nothing and leaves the registry alone.
LEMMA EndKeepsInv ==
    ASSUME Inv, job' = None, registry' = registry,
           \A m \in Names : UnitFree(m) => UnitFree(m)',
           \A id \in Ids : IdFree(id) => IdFree(id)',
           users' \in [Ids -> {"none", "smallapp", "foreign"}],
           DOMAIN file' = Files, DOMAIN proc' = Ids
    PROVE  Inv'
  <1>1. Accounted'
    BY NoGrowthKeepsAccounted DEF Inv
  <1>2. JobCovered'
    BY DEF Inv, JobCovered, Registered
  <1> QED BY <1>1, <1>2 DEF Inv, Typed

\* A command that ends on the spot, or only gives directories back.
LEMMA LastStepInv ==
    ASSUME Inv, NEW s,
           \/ Refuse(s) \/ NoChanges(s) \/ PrintStep(s) \/ NotFound(s) \/ PruneStep(s)
           \/ Rejected(s)
    PROVE  Inv'
  <1>1. CASE Refuse(s) \/ NoChanges(s) \/ PrintStep(s) \/ Rejected(s)
    <2>1. job' = None /\ UNCHANGED <<users, dirs, file, proc, served, registry>>
        BY <1>1 DEF Refuse, NoChanges, PrintStep, Rejected, Exit, accounts, tree, daemons
    <2> QED BY <2>1, EndKeepsInv DEF UnitFree, IdFree, Exists, Inv, Typed
  <1>2. CASE NotFound(s) \/ PruneStep(s)
    <2>1. job' = None /\ UNCHANGED <<users, file, proc, served, registry>> /\ dirs' \subseteq dirs
        BY <1>2 DEF NotFound, PruneStep, PruneCreated, accounts, daemons
    <2> QED BY <2>1, EndKeepsInv DEF UnitFree, IdFree, Exists, Inv, Typed
  <1> QED BY <1>1, <1>2

\* /var/lib/smallapp, which the lock makes, is no unit's.
LEMMA LibGrows ==
    ASSUME MkdirP(Lib)
    PROVE  /\ \A m \in Names : App(m) \in dirs' => App(m) \in dirs
           /\ \A id \in Ids : State(id) \in dirs' => State(id) \in dirs
  BY DEF MkdirP, Parent, App, State, Host, Lib

\* A command begins with the reading of the registry, and nothing of a unit.
LEMMA BeginInv ==
    ASSUME Inv, NEW n \in Names, BeginRm(n) \/ \E t \in Targets : BeginApply(n, t)
    PROVE  Inv'
  <1>1. /\ MkdirP(Lib)
        /\ UNCHANGED <<users, file, proc, served, registry>>
    BY DEF BeginRm, BeginApply, Start_, accounts, daemons
  <1>2. /\ \A m \in Names : UnitFree(m) => UnitFree(m)'
        /\ \A id \in Ids : IdFree(id) => IdFree(id)'
    BY <1>1, LibGrows DEF UnitFree, IdFree, Exists
  <1>3. Accounted'
    BY <1>1, <1>2, NoGrowthKeepsAccounted DEF Inv
  <1>4. /\ DOMAIN job' = JobFields /\ job'.unit = n
        /\ \/ /\ job'.op = "apply" /\ job'.target \in Targets
              /\ job'.todo = {Action(0, "plan", <<"unit", n>>)}
           \/ /\ job'.op = "rm"
              /\ job'.todo = {Action(0, "load", <<"unit", n>>)}
    <2>1. CASE BeginRm(n)
        BY <2>1 DEF BeginRm, Start_, JobFields
    <2>2. CASE \E t \in Targets : BeginApply(n, t)
        BY <2>2 DEF BeginApply, Start_, JobFields
    <2> QED BY <2>1, <2>2
  <1>5. Typed'
    BY <1>1, <1>4 DEF Inv, Typed
  <1>6. JobCovered'
    <2>1. Action(0, "plan", <<"unit", n>>).verb = "plan" /\ Action(0, "load", <<"unit", n>>).verb = "load"
        BY DEF Action
    <2>2. /\ job'.op = "apply" => \A s \in job'.todo : s.verb = "plan"
          /\ job'.op = "rm" => \A s \in job'.todo : s.verb = "load"
        BY <1>4, <2>1
    <2>3. \A m \in Names : registry'[m] # None => registry'[m].createdUser
        BY <1>1 DEF Inv, JobCovered, Registered
    <2> QED BY <1>4, <2>2, <2>3 DEF JobCovered, Registered
  <1> QED BY <1>3, <1>5, <1>6 DEF Inv

\* An account an administrator adds, and a file an app writes, are no unit's.
LEMMA OutsideInv ==
    ASSUME Inv, \/ \E id \in AdminIds : AdminAddsUser(id)
                \/ \E n \in AdminNames : AdminChmods(n)
                \/ \E n \in Writers : AppWrites(n)
    PROVE  Inv'
  <1>1. CASE \E id \in AdminIds : AdminAddsUser(id)
    <2>1. PICK id \in AdminIds : AdminAddsUser(id)
        BY <1>1
    <2>2. /\ UNCHANGED <<dirs, file, proc, served, registry, job>>
          /\ users' = [users EXCEPT ![id] = "foreign"]
        BY <2>1 DEF AdminAddsUser, tree
    <2>3. /\ users' \in [Ids -> {"none", "smallapp", "foreign"}]
          /\ \A i \in Ids : users'[i] = "smallapp" => users[i] = "smallapp"
        BY <2>2 DEF Inv, Typed
    <2>4. job = None
        BY <2>1 DEF AdminAddsUser
    <2> QED BY <2>2, <2>3, <2>4, EndKeepsInv DEF UnitFree, IdFree, Exists, Inv, Typed
  <1>2. CASE \E n \in Writers : AppWrites(n)
    <2>1. PICK n \in Writers : AppWrites(n)
        BY <1>2
    <2>2. /\ UNCHANGED <<users, dirs, proc, served, registry, job>>
          /\ file' = [file EXCEPT ![Data(n)] = Present]
        BY <2>1 DEF AppWrites, accounts, daemons
    <2>3. /\ DOMAIN file' = Files
          /\ \A m \in Names : file'[Vhost(m)] = file[Vhost(m)] /\ file'[Env(m)] = file[Env(m)]
          /\ \A id \in Ids : file'[Service(id)] = file[Service(id)]
        BY <2>2, FilesAreFiles DEF Inv, Typed, Data, Vhost, Env, Service
    <2>4. /\ \A m \in Names : UnitFree(m)' <=> UnitFree(m)
          /\ \A id \in Ids : IdFree(id)' <=> IdFree(id)
        BY <2>2, <2>3 DEF UnitFree, IdFree, Exists
    <2>5. Typed'
        BY <2>2, <2>3 DEF Inv, Typed
    <2>6. Accounted'
        BY <2>2, <2>4, NoGrowthKeepsAccounted DEF Inv
    <2>7. JobCovered'
        <3>1. /\ \A m \in Names : registry'[m] # None => registry'[m].createdUser
              /\ Registered(job.unit)' <=> Registered(job.unit)
            BY <2>2 DEF Inv, JobCovered, Registered
        <3>2. job # None /\ RemovalPending(job.unit, job.todo) => RemovalPending(job.unit, job.todo)'
            <4> SUFFICES ASSUME job # None, RemovalPending(job.unit, job.todo)
                         PROVE  RemovalPending(job.unit, job.todo)'
                OBVIOUS
            <4>1. job.unit \in Names /\ IdsOf(job.unit) \subseteq Ids
                BY NamesAssumption DEF Inv, Typed, IdsOf
            <4>2. PICK u, todo : u = job.unit /\ todo = job.todo
                OBVIOUS
            <4>3. /\ u \in Names /\ \A id \in IdsOf(u) : Exists(Service(id))' <=> Exists(Service(id))
                  /\ Exists(Vhost(u))' <=> Exists(Vhost(u))
                  /\ Exists(Env(u))' <=> Exists(Env(u))
                BY <2>3, <4>1, <4>2 DEF Exists
            <4>4. RemovalPending(u, todo)'
                BY <2>2, <4>2, <4>3 DEF RemovalPending
            <4> QED BY <2>2, <4>2, <4>4
        <3> QED BY <2>2, <3>1, <3>2 DEF Inv, JobCovered, Registered
    <2> QED BY <2>5, <2>6, <2>7 DEF Inv
  <1>3. CASE \E n \in AdminNames : AdminChmods(n)
    <2>1. job' = None /\ UNCHANGED <<users, dirs, file, proc, served, registry>>
        BY <1>3 DEF AdminChmods, accounts, daemons
    <2> QED BY <2>1, EndKeepsInv DEF UnitFree, IdFree, Exists, Inv, Typed
  <1> QED BY <1>1, <1>2, <1>3

-----------------------------------------------------------------------------
(* The reading of the registry, and the entry.                             *)

\* The entry an apply puts covers all that its plan will make.
LEMMA PutIncompleteInv ==
    ASSUME Inv, NEW s, PutIncomplete(s), job.op = "apply"
    PROVE  Inv'
  <1> DEFINE n == job.unit
             made == (Registered(n) /\ registry[n].createdUser) \/ UserActions(n) # {}
  <1>0. job # None /\ n \in Names /\ n \in IdsOf(n) /\ job.target \in Targets
    BY DEF PutIncomplete, Doing, First, Inv, Typed, IdsOf
  <1>1. UNCHANGED <<users, dirs, file, proc, served>>
    BY DEF PutIncomplete, host, accounts, tree, daemons
  <1>2. made = TRUE
    <2>1. CASE Registered(n)
        BY <1>0, <2>1 DEF Inv, JobCovered
    <2>2. CASE ~Registered(n)
        <3>1. users[n] = "none"
            BY <1>0, <2>2 DEF PutIncomplete, Refuses
        <3> QED BY <3>1 DEF UserActions, When
    <2> QED BY <2>1, <2>2
  <1>3. registry' = [registry EXCEPT ![n] = [createdUser |-> TRUE, complete |-> FALSE]]
    BY <1>2 DEF PutIncomplete
  <1>4. PICK secret : job' = [job EXCEPT !.secret = secret, !.fresh = ~Reused(n),
                                         !.todo = Build(n, job.target, secret) \cup Ending(n)]
    BY DEF PutIncomplete
  <1>5. /\ DOMAIN job' = JobFields /\ job'.unit = n /\ job'.op = "apply" /\ job'.target \in Targets
        /\ job'.todo = Build(n, job.target, secret) \cup Ending(n)
    BY <1>0, <1>4 DEF Inv, Typed, JobFields
  <1>6. /\ registry' \in [Names -> {None} \cup Entries]
        /\ registry'[n] # None /\ registry'[n].createdUser
        /\ \A m \in Names \ {n} : registry'[m] = registry[m]
    BY <1>0, <1>3, NoneAssumption DEF Inv, Typed, Entries
  <1>7. Accounted'
    <2>1. /\ \A m \in Names : Registered(m) => Registered(m)'
          /\ \A m \in Names : UnitFree(m)' <=> UnitFree(m)
          /\ \A id \in Ids : IdFree(id)' <=> IdFree(id)
        BY <1>1, <1>6 DEF Registered, UnitFree, IdFree, Exists
    <2>2. \A id \in Ids : Registrants(id) \subseteq Registrants(id)'
        BY <2>1 DEF Registrants
    <2> QED BY <2>1, <2>2 DEF Inv, Accounted
  <1>8. JobCovered'
    <2>1. \A r \in job'.todo : ApplyActionOf(n, r)
        BY <1>0, <1>5, BuildShape
    <2>2. \A m \in Names : registry'[m] # None => registry'[m].createdUser
        BY <1>6 DEF Inv, JobCovered, Registered
    <2> QED BY <1>5, <1>6, <2>1, <2>2 DEF JobCovered, Registered
  <1>9. Typed'
    BY <1>0, <1>1, <1>5, <1>6 DEF Inv, Typed
  <1> QED BY <1>7, <1>8, <1>9 DEF Inv

\* "No entry" is not an entry of the registry.
LEMMA NoEntry == None \notin Entries
  <1> SUFFICES ASSUME NEW entry \in Entries
               PROVE  entry # None
      OBVIOUS
  <1>1. PICK made \in BOOLEAN, done \in BOOLEAN : entry = [createdUser |-> made, complete |-> done]
    <2>1. /\ entry.createdUser \in BOOLEAN /\ entry.complete \in BOOLEAN
          /\ entry = [createdUser |-> entry.createdUser, complete |-> entry.complete]
        BY DEF Entries
    <2> QED BY <2>1
  <1> QED BY <1>1, NoneAssumption

\* The entry stays when it is marked complete.
LEMMA CommitInv ==
    ASSUME Inv, Applying, NEW s \in job.todo, CommitStep(s)
    PROVE  Inv'
  <1> DEFINE n == job.unit
  <1>0. n \in Names /\ registry[n] \in Entries /\ registry[n].createdUser
    BY DEF Inv, Typed, Applying, Registered, JobCovered
  <1>1. UNCHANGED <<users, dirs, file, proc, served>>
    BY DEF CommitStep, host, accounts, tree, daemons
  <1>2. /\ JobTyped' /\ job'.op = "apply" /\ job'.unit = n /\ job'.todo = job.todo \ {s}
    BY DoneJob DEF CommitStep, Inv, Typed, JobTyped, Applying
  <1>3. /\ registry' \in [Names -> {None} \cup Entries]
        /\ registry'[n] # None /\ registry'[n].createdUser
        /\ \A m \in Names \ {n} : registry'[m] = registry[m]
    <2>1. PICK entry \in Entries : entry = registry[n] /\ entry.createdUser = TRUE
        BY <1>0, Zenon DEF Entries
    <2>2. PICK done : done = [entry EXCEPT !.complete = TRUE]
        OBVIOUS
    <2>3. done \in Entries /\ done.createdUser = TRUE
        BY <2>1, <2>2 DEF Entries
    <2>4. registry' = [registry EXCEPT ![n] = done]
        BY <2>1, <2>2 DEF CommitStep
    <2>5. done # None
        BY <2>3, NoEntry
    <2> QED BY <1>0, <2>3, <2>4, <2>5 DEF Inv, Typed
  <1>4. Accounted'
    <2>1. /\ \A m \in Names : Registered(m) => Registered(m)'
          /\ \A m \in Names : UnitFree(m)' <=> UnitFree(m)
          /\ \A id \in Ids : IdFree(id)' <=> IdFree(id)
        BY <1>1, <1>3 DEF Registered, UnitFree, IdFree, Exists
    <2>2. \A id \in Ids : Registrants(id) \subseteq Registrants(id)'
        BY <2>1 DEF Registrants
    <2> QED BY <2>1, <2>2 DEF Inv, Accounted
  <1>5. JobCovered'
    <2>1. \A r \in job'.todo : ApplyActionOf(n, r)
        BY <1>2 DEF Applying
    <2>2. \A m \in Names : registry'[m] # None => registry'[m].createdUser
        BY <1>3 DEF Inv, JobCovered, Registered
    <2> QED BY <1>2, <1>3, <2>1, <2>2 DEF JobCovered, Registered
  <1>6. Typed'
    BY <1>1, <1>2, <1>3 DEF Inv, Typed, JobTyped
  <1> QED BY <1>4, <1>5, <1>6 DEF Inv

\* rm of a registered unit sets out to remove whatever there is of it.
LEMMA LoadUnitInv ==
    ASSUME Inv, NEW s, LoadUnit(s), job.op = "rm"
    PROVE  Inv'
  <1>0. PICK n : n = job.unit
    OBVIOUS
  <1>1. job # None /\ n \in Names /\ Registered(n) /\ registry[n].createdUser
    BY <1>0 DEF LoadUnit, Doing, First, Inv, Typed, JobCovered
  <1>2. UNCHANGED <<users, dirs, file, proc, served, registry>>
    BY DEF LoadUnit, host, accounts, tree, daemons
  <1>3. RemovalActions(n) = RemovalScript(n)
    BY <1>1 DEF RemovalActions, When
  <1>4. /\ DOMAIN job' = JobFields /\ job'.unit = n /\ job'.op = "rm"
        /\ job'.todo = RemovalScript(n)
    BY <1>0, <1>1, <1>3 DEF LoadUnit, Inv, Typed, JobFields
  <1>5. RemovalPending(n, RemovalScript(n))
    <2>1. \A id \in IdsOf(n) : \E r \in RemovalScript(n) : r.verb = "disable" /\ r.on = <<"service", id>>
        <3>1. {Action(1, "disable", <<"service", n>>), Action(2, "disable", <<"service", Gw[n]>>)}
                  \subseteq RemovalScript(n)
            BY DEF RemovalScript
        <3> QED BY <3>1, ActionFields DEF IdsOf
    <2>2. /\ \E r \in RemovalScript(n) : r.verb = "rm tree" /\ r.on = App(n)
          /\ \A id \in IdsOf(n) : \E r \in RemovalScript(n) : r.verb = "rm tree" /\ r.on = State(id)
        <3>1. Action(3, "rm tree", App(n)) \in RemovalScript(n)
            BY DEF RemovalScript
        <3>2. {Action(4, "rm tree", State(n)), Action(5, "rm tree", State(Gw[n]))}
                  \subseteq RemovalScript(n)
            BY DEF RemovalScript
        <3>3. \E r \in RemovalScript(n) : r.verb = "rm tree" /\ r.on = App(n)
            BY <3>1 DEF Action
        <3>4. \E r \in RemovalScript(n) : r.verb = "rm tree" /\ r.on = State(n)
            BY <3>2 DEF Action
        <3>5. \E r \in RemovalScript(n) : r.verb = "rm tree" /\ r.on = State(Gw[n])
            BY <3>2 DEF Action
        <3> QED BY <3>3, <3>4, <3>5 DEF IdsOf
    <2>3. \A id \in IdsOf(n) : \E r \in RemovalScript(n) : r.verb = "rm" /\ r.on = Service(id)
        <3>1. {Action(7, "rm", Service(n)), Action(8, "rm", Service(Gw[n]))} \subseteq RemovalScript(n)
            BY DEF RemovalScript
        <3> QED BY <3>1, ActionFields DEF IdsOf
    <2>4. \A f \in {Env(n), Vhost(n)} : \E r \in RemovalScript(n) : r.verb = "rm" /\ r.on = f
        <3>1. {Action(6, "rm", Env(n)), Action(9, "rm", Vhost(n))} \subseteq RemovalScript(n)
            BY DEF RemovalScript
        <3> QED BY <3>1, ActionFields
    <2>5. \A id \in IdsOf(n) : \E r \in RemovalScript(n) : r.verb = "userdel" /\ r.on = <<"user", id>>
        <3>1. {Action(10, "userdel", <<"user", n>>), Action(11, "userdel", <<"user", Gw[n]>>)}
                  \subseteq RemovalScript(n)
            BY DEF RemovalScript, UserdelActions
        <3> QED BY <3>1, ActionFields DEF IdsOf
    <2>6. \E r \in RemovalScript(n) : r.verb = "reload caddy"
        <3>1. Action(13, "reload caddy", <<"caddy">>) \in RemovalScript(n)
            BY DEF RemovalScript
        <3> QED BY <3>1 DEF Action
    <2> QED BY <2>1, <2>2, <2>3, <2>4, <2>5, <2>6 DEF RemovalPending
  <1>6. RemovalPending(n, RemovalScript(n))'
    BY <1>2, <1>5 DEF RemovalPending, Exists, RemovalScript, UserdelActions, IdsOf
  <1>7. Accounted'
    BY <1>2, NoGrowthKeepsAccounted DEF Inv, UnitFree, IdFree, Exists
  <1>8. JobCovered'
    <2>1. \A m \in Names : registry'[m] # None => registry'[m].createdUser
        BY <1>2 DEF Inv, JobCovered, Registered
    <2>2. registry'[n] # None
        BY <1>1, <1>2 DEF Registered
    <2> QED BY <1>4, <1>6, <2>1, <2>2 DEF JobCovered, Registered, RemovalScript, UserdelActions
  <1>9. Typed'
    BY <1>1, <1>2, <1>4 DEF Inv, Typed
  <1> QED BY <1>7, <1>8, <1>9 DEF Inv

-----------------------------------------------------------------------------
(* Every step.                                                             *)

ApplyVerbs == {"user", "mkdir", "chmod", "write", "rm", "rm temp", "unmark", "sync", "mark", "chgrp",
               "chown", "join", "leave", "restart caddy", "daemon-reload", "start", "reload caddy",
               "commit", "flush", "print"}
RmVerbs == {"disable", "rm tree", "rm", "userdel", "daemon-reload", "reload caddy", "drop", "prune"}

\* What is on the list of a command tells how far the command is.
LEMMA Phases ==
    ASSUME Inv, job # None, NEW s \in job.todo
    PROVE  \/ job.op = "apply" /\ s.verb = "plan"
           \/ job.op = "rm" /\ s.verb = "load"
           \/ Applying /\ s.verb \in ApplyVerbs
           \/ Removing /\ s.verb \in RmVerbs
  <1>1. CASE job.op = "apply" /\ \A r \in job.todo : r.verb = "plan"
    BY <1>1
  <1>2. CASE job.op = "rm" /\ \A r \in job.todo : r.verb = "load"
    BY <1>2
  <1>3. CASE Applying
    <2>1. s.verb \in ApplyVerbs
        BY <1>3 DEF Applying, ApplyActionOf, ApplyVerbs
    <2> QED BY <1>3, <2>1
  <1>4. CASE Removing
    <2>1. s \in RemovalScript(job.unit)
        BY <1>4 DEF Removing
    <2>2. s.verb \in RmVerbs
        BY <2>1, ScriptFields DEF RmVerbs
    <2> QED BY <1>4, <2>2
  <1> QED BY <1>1, <1>2, <1>3, <1>4 DEF Inv, JobCovered, Applying, Removing

\* A failure makes at most the directory of a file of the unit that is applied.
LEMMA FaultInv ==
    ASSUME Inv, job # None, NEW s \in job.todo, Fault(s)
    PROVE  Inv'
  <1>1. job' = None /\ UNCHANGED <<users, file, proc, served, registry>>
    BY DEF Fault, Exit, accounts, daemons
  <1>2. CASE UNCHANGED dirs
    BY <1>1, <1>2, EndKeepsInv DEF UnitFree, IdFree, Exists, Inv, Typed
  <1>3. CASE s.verb \in {"write", "mark"} /\ CutOff(s.on)
    <2>1. Applying /\ job.unit \in Names
        BY <1>3, Phases DEF RmVerbs, Inv, Typed
    <2>2. s.on \in OwnFiles(job.unit)
        BY <1>3, <2>1, StepShape DEF Applying
    <2>3. DirOf(s.on) \in OwnDirs(job.unit) \cup Shared
        BY <2>1, <2>2, FileDirs
    <2>4. OnlyGrows(job.unit)
        BY <1>1, <1>3, <2>1, <2>3, DirsGrowOwn DEF CutOff, OnlyGrows, UnitFree, IdFree, Exists
    <2>5. Accounted'
        BY <1>1, <2>1, <2>4, GrowthKeepsAccounted DEF Inv, Applying
    <2>6. JobCovered'
        BY <1>1 DEF Inv, JobCovered, Registered
    <2> QED BY <1>1, <2>5, <2>6 DEF Inv, Typed
  <1> QED BY <1>2, <1>3 DEF Fault

\* A step of the command in progress keeps the invariant.
LEMMA CommandInv ==
    ASSUME Inv, job # None, NEW s \in job.todo, ApplyNext(s) \/ RmNext(s) \/ Rejected(s)
    PROVE  Inv'
  <1>0. \/ Refuse(s) \/ NoChanges(s) \/ PrintStep(s) \/ NotFound(s) \/ PruneStep(s) \/ Rejected(s)
        \/ PutIncomplete(s) \/ LoadUnit(s)
        \/ ApplyStep(s) \/ CommitStep(s) \/ RmStep(s) \/ DropStep(s)
    BY DEF ApplyNext, RmNext, ApplyStep, RmStep
  <1>1. CASE Refuse(s) \/ NoChanges(s) \/ PrintStep(s) \/ NotFound(s) \/ PruneStep(s) \/ Rejected(s)
    BY <1>1, LastStepInv
  <1>2. CASE PutIncomplete(s)
    <2>1. job.op = "apply"
        BY <1>2, Phases DEF PutIncomplete, Doing, ApplyVerbs, RmVerbs
    <2> QED BY <1>2, <2>1, PutIncompleteInv
  <1>3. CASE LoadUnit(s)
    <2>1. job.op = "rm"
        BY <1>3, Phases DEF LoadUnit, Doing, ApplyVerbs, RmVerbs
    <2> QED BY <1>3, <2>1, LoadUnitInv
  <1>4. CASE ApplyStep(s) /\ ~RmStep(s)
    <2>1. s.verb \in ApplyVerbs \ RmVerbs \/ Applying
        <3>1. s.verb \in ApplyVerbs
            BY <1>4 DEF ApplyStep, UserStep, MkdirStep, ChmodStep, WriteStep, StaleStep, UnmarkStep,
               SyncStep, MarkStep, GiveStep, JoinStep, LeaveStep, RestartCaddyStep, DaemonReloadStep,
               StartStep, ReloadCaddyStep, FlushStep, SweepStep, Doing, ApplyVerbs
        <3>2. s.verb \in RmVerbs => StaleStep(s) \/ DaemonReloadStep(s) \/ ReloadCaddyStep(s)
            BY <1>4 DEF ApplyStep, UserStep, MkdirStep, ChmodStep, WriteStep, UnmarkStep,
               SyncStep, MarkStep, GiveStep, JoinStep, LeaveStep, RestartCaddyStep,
               StartStep, FlushStep, SweepStep, Doing, RmVerbs
        <3> QED BY <1>4, <3>1, <3>2 DEF RmStep
    <2>2. Applying
        BY <2>1, Phases DEF ApplyVerbs
    <2> QED BY <1>4, <2>2, ApplyStepInv
  <1>5. CASE RmStep(s)
    <2>1. s.verb \in RmVerbs
        BY <1>5 DEF RmStep, DisableStep, RemoveTreeStep, StaleStep, UserdelStep, DaemonReloadStep,
           ReloadCaddyStep, Doing, RmVerbs
    <2>2. CASE Removing
        BY <1>5, <2>2, RmStepInv
    <2>3. CASE Applying /\ s.verb \in ApplyVerbs
        <3>1. ApplyStep(s)
            BY <1>5, <2>3 DEF RmStep, ApplyStep, DisableStep, RemoveTreeStep, UserdelStep, Doing, ApplyVerbs
        <3> QED BY <2>3, <3>1, ApplyStepInv
    <2>4. s.verb # "plan" /\ s.verb # "load"
        BY <2>1 DEF RmVerbs
    <2> QED BY <2>2, <2>3, <2>4, Phases
  <1>6. CASE CommitStep(s)
    <2>1. Applying
        BY <1>6, Phases DEF CommitStep, Doing, RmVerbs
    <2> QED BY <1>6, <2>1, CommitInv
  <1>7. CASE DropStep(s)
    <2>1. Removing
        BY <1>7, Phases DEF DropStep, Doing, ApplyVerbs
    <2> QED BY <1>7, <2>1, DropStepInv
  <1> QED BY <1>0, <1>1, <1>2, <1>3, <1>4, <1>5, <1>6, <1>7

\* At first nothing is registered, and nothing of a unit is there.
LEMMA InitInv == Init => Inv
  <1> SUFFICES ASSUME Init PROVE Inv
      OBVIOUS
  <1>1. /\ \A n \in Names : UnitFree(n)
        /\ \A id \in Ids : IdFree(id)
    <2>1. dirs \subseteq Shared
        BY PreDirsAssumption DEF Init, SystemInit, Shared
    <2>2. /\ \A n : App(n) \notin Shared
          /\ \A id : State(id) \notin Shared
        BY DEF App, State, Shared, Host, Opt, Lib, Etc, Sites
    <2>3. /\ \A n \in Names : ~Exists(Env(n)) /\ ~Exists(Vhost(n)) /\ served[n] = None
          /\ \A id \in Ids : ~Exists(Service(id)) /\ proc[id] = None
        BY FilesAreFiles DEF Init, SystemInit, Exists
    <2>4. \A id \in Ids : users[id] # "smallapp"
        BY DEF Init, SystemInit
    <2> QED BY <2>1, <2>2, <2>3, <2>4 DEF UnitFree, IdFree
  <1>2. Typed
    BY DEF Init, SystemInit, Typed
  <1>3. job = None /\ \A n \in Names : ~Registered(n)
    BY DEF Init, Registered
  <1> QED BY <1>1, <1>2, <1>3 DEF Inv, Accounted, JobCovered

\* Every step of the specification, and every stutter, keeps the invariant.
LEMMA NextInv == Inv /\ [Next]_vars => Inv'
  <1> SUFFICES ASSUME Inv, [Next]_vars PROVE Inv'
      OBVIOUS
  <1>1. CASE \E n \in Names : BeginRm(n) \/ \E t \in Targets : BeginApply(n, t)
    BY <1>1, BeginInv
  <1>2. CASE \E s \in Todo : ApplyNext(s) \/ RmNext(s) \/ Rejected(s) \/ Fault(s)
    <2>1. PICK s \in Todo : ApplyNext(s) \/ RmNext(s) \/ Rejected(s) \/ Fault(s)
        BY <1>2
    <2>2. job # None /\ s \in job.todo
        BY <2>1 DEF Todo
    <2> QED BY <2>1, <2>2, CommandInv, FaultInv
  <1>4. CASE \/ \E id \in AdminIds : AdminAddsUser(id)
             \/ \E n \in AdminNames : AdminChmods(n)
             \/ \E n \in Writers : AppWrites(n)
    BY <1>4, OutsideInv
  <1>5. CASE UNCHANGED vars
    <2>1. UNCHANGED <<users, dirs, file, proc, served, registry, job>>
        BY <1>5 DEF vars, host, accounts, tree, daemons
    <2>2. Typed'
        BY <2>1 DEF Inv, Typed
    <2>3. Accounted'
        BY <2>1, NoGrowthKeepsAccounted DEF Inv, UnitFree, IdFree, Exists
    <2>4. RemovalPending(job.unit, job.todo)' <=> RemovalPending(job.unit, job.todo)
        BY <2>1 DEF RemovalPending, Exists
    <2>5. JobCovered'
        BY <2>1, <2>4 DEF Inv, JobCovered, Registered
    <2> QED BY <2>2, <2>3, <2>5 DEF Inv
  <1> QED BY <1>1, <1>2, <1>4, <1>5 DEF Next

-----------------------------------------------------------------------------
(* Temporary files.                                                        *)

\* A temporary file is in a directory that is there.
TempsInv == temps \subseteq Files /\ \A f \in temps : DirOf(f) \in dirs

\* Where directories only appear, the temporary files are where they were, but
\* for one that came with its directory.
LEMMA TempsStay ==
    ASSUME TempsInv, dirs \subseteq dirs', temps' \subseteq temps
    PROVE  TempsInv'
  BY DEF TempsInv

\* A directory that is pruned holds none.
LEMMA PruneKeepsTemps ==
    ASSUME TempsInv, NEW registered, PruneCreated(registered)
    PROVE  TempsInv'
  <1> DEFINE known == recorded \cup created
             empty == {d \in known : Hollow(d, registered)}
             below == {d \in dirs : Parent(d) \in known /\ Hollow(d, registered)}
  <1>1. PICK gone \in SUBSET (empty \cup below) : dirs' = dirs \ gone /\ temps' = temps
    BY DEF PruneCreated
  <1>2. \A d \in gone : Hollow(d, registered)
    OBVIOUS
  <1>3. \A d \in gone : \A f \in FilesIn(d) : f \notin temps
    BY <1>2 DEF Hollow
  <1> QED BY <1>1, <1>3 DEF TempsInv, FilesIn

\* So every step of the specification, and every stutter, leaves them.
LEMMA NextKeepsTemps == TempsInv /\ [Next]_vars => TempsInv'
  <1> SUFFICES ASSUME TempsInv, [Next]_vars PROVE TempsInv'
      OBVIOUS
  <1>1. CASE \E n \in Names : BeginRm(n) \/ \E t \in Targets : BeginApply(n, t)
    <2>1. dirs \subseteq dirs' /\ temps' = temps
        BY <1>1 DEF BeginRm, BeginApply, Start_, MkdirP
    <2> QED BY <2>1, TempsStay
  <1>2. CASE \E s \in Todo : ApplyNext(s) \/ RmNext(s) \/ Rejected(s)
    <2>0. PICK s : ApplyNext(s) \/ RmNext(s) \/ Rejected(s)
        BY <1>2
    <2>1. CASE \/ Refuse(s) \/ NoChanges(s) \/ PrintStep(s) \/ Rejected(s)
               \/ PutIncomplete(s) \/ LoadUnit(s) \/ CommitStep(s) \/ DropStep(s) \/ FlushStep(s)
               \/ UserStep(s) \/ JoinStep(s) \/ LeaveStep(s) \/ RestartCaddyStep(s)
               \/ DaemonReloadStep(s) \/ ReloadCaddyStep(s) \/ DisableStep(s) \/ UserdelStep(s)
        <3>1. UNCHANGED <<dirs, temps>>
            BY <2>1 DEF Refuse, NoChanges, PrintStep, Rejected, PutIncomplete, LoadUnit, CommitStep,
               DropStep, FlushStep, UserStep, JoinStep, LeaveStep, RestartCaddyStep, DaemonReloadStep,
               ReloadCaddyStep, DisableStep, UserdelStep, host, tree
        <3> QED BY <3>1, TempsStay
    <2>2. CASE \/ MkdirStep(s) \/ ChmodStep(s) \/ StaleStep(s) \/ SweepStep(s) \/ UnmarkStep(s)
               \/ GiveStep(s) \/ StartStep(s)
        <3>1. dirs \subseteq dirs' /\ temps' \subseteq temps
            BY <2>2 DEF MkdirStep, ChmodStep, StaleStep, SweepStep, UnmarkStep, GiveStep, StartStep,
               Mkdir, MkdirP, Chmod, Remove, RemoveTemp, GiveTree, Start
        <3> QED BY <3>1, TempsStay
    <2>3. CASE WriteStep(s) \/ SyncStep(s) \/ MarkStep(s)
        <3>1. \E f, content : Write(f, content)
            BY <2>3 DEF WriteStep, SyncStep, MarkStep
        <3>2. dirs \subseteq dirs' /\ temps' \subseteq temps
            BY <3>1 DEF Write, MkdirP
        <3> QED BY <3>2, TempsStay
    <2>4. CASE RemoveTreeStep(s)
        <3>1. dirs' = dirs \ {s.on} /\ temps' = temps \ FilesIn(s.on)
            BY <2>4 DEF RemoveTreeStep, RemoveTree
        <3> QED BY <3>1 DEF TempsInv, FilesIn
    <2>5. CASE NotFound(s) \/ PruneStep(s)
        <3>1. PruneCreated(AnyRegistered(registry))
            BY <2>5 DEF NotFound, PruneStep
        <3> QED BY <3>1, PruneKeepsTemps
    <2> QED BY <2>0, <2>1, <2>2, <2>3, <2>4, <2>5 DEF ApplyNext, RmNext
  <1>3. CASE \E s \in Todo : Fault(s)
    <2>1. PICK s : Fault(s)
        BY <1>3
    <2>2. CASE UNCHANGED <<dirs, temps>>
        BY <2>2, TempsStay
    <2>3. CASE s.on \in Torn /\ CutOff(s.on)
        BY <2>3, BoundsAssumption DEF TempsInv, CutOff
    <2> QED BY <2>1, <2>2, <2>3 DEF Fault
  <1>4. CASE \/ \E id \in AdminIds : AdminAddsUser(id)
             \/ \E n \in AdminNames : AdminChmods(n)
             \/ \E n \in Writers : AppWrites(n)
             \/ UNCHANGED vars
    <2>1. UNCHANGED <<dirs, temps>>
        BY <1>4 DEF AdminAddsUser, AdminChmods, AppWrites, vars, host, tree
    <2> QED BY <2>1, TempsStay
  <1> QED BY <1>1, <1>2, <1>3, <1>4 DEF Next

\* What every behaviour keeps of the host and of its temporary files.
LEMMA InvTemps == Spec => [](Inv /\ TempsInv)
  <1>1. Init => TempsInv
    BY DEF Init, SystemInit, TempsInv
  <1> QED BY <1>1, InitInv, NextInv, NextKeepsTemps, PTL DEF Spec

\* For any units, targets and failures, whatever smallapp made for a unit is
\* there only while the registry has an entry through which rm finds it, and so
\* are the temporary files in the unit's own directories.
THEOREM NothingOrphaned == Spec => []NoOrphans
  <1>1. Inv /\ TempsInv => NoOrphans
    <2> SUFFICES ASSUME Inv, TempsInv PROVE NoOrphans
        OBVIOUS
    <2>1. \A d : d \notin dirs => TempsIn(d) = {}
        BY DEF TempsInv, TempsIn, FilesIn
    <2> QED BY <2>1 DEF Inv, Accounted, NoOrphans, UnitFree, IdFree
  <1> QED BY <1>1, InvTemps, PTL

\* For any units, targets and failures, an apply that makes things has an entry
\* and makes only the unit's own, and an rm still has on its list whatever is
\* left of the unit, temporary files in its directories included
\* (Promises.JobAccountable).
THEOREM JobsAccounted == Spec => []JobAccountable
  <1>1. Inv /\ TempsInv => JobAccountable
    <2> SUFFICES ASSUME Inv, TempsInv PROVE JobAccountable
        OBVIOUS
    <2>1. JobCovered
        BY DEF Inv
    <2>2. ASSUME job # None, job.op = "rm", ~\A s \in job.todo : s.verb = "load",
                 NEW d \in {App(job.unit)} \cup {State(id) : id \in IdsOf(job.unit)},
                 TempsIn(d) # {}
          PROVE  \E s \in job.todo : s.verb = "rm tree" /\ s.on = d
        <3>1. RemovalPending(job.unit, job.todo)
            BY <2>1, <2>2 DEF JobCovered
        <3>2. d \in dirs
            BY <2>2 DEF TempsInv, TempsIn, FilesIn
        <3>3. CASE d = App(job.unit)
            <4>1. App(job.unit) \in dirs =>
                      \E s \in job.todo : s.verb = "rm tree" /\ s.on = App(job.unit)
                BY ONLY <3>1 DEF RemovalPending
            <4> QED BY ONLY <3>2, <3>3, <4>1
        <3>4. CASE \E id \in IdsOf(job.unit) : d = State(id)
            <4>1. PICK id \in IdsOf(job.unit) : d = State(id)
                BY <3>4
            <4>2. State(id) \in dirs =>
                      \E s \in job.todo : s.verb = "rm tree" /\ s.on = State(id)
                BY ONLY <3>1, id \in IdsOf(job.unit) DEF RemovalPending
            <4> QED BY ONLY <3>2, <4>1, <4>2
        <3> QED BY <2>2, <3>3, <3>4
    <2> QED BY <2>1, <2>2 DEF JobAccountable
  <1> QED BY <1>1, InvTemps, PTL

-----------------------------------------------------------------------------
(* Directories that were there before.                                     *)

PreInv == PreexistingKept /\ Host \in dirs

\* Directories only appear, and only those that appear are noted as made.
DirsGrow == /\ dirs \subseteq dirs'
            /\ created' \subseteq created \cup (dirs' \ dirs)
            /\ recorded' \subseteq recorded \cup created

\* Making directories, and noting which were made, spares those that were there.
LEMMA GrowthKeepsPre ==
    ASSUME PreInv, DirsGrow
    PROVE  PreInv'
  BY DEF PreInv, PreexistingKept, DirsGrow

\* mkdir_p notes a directory only when it was missing.
LEMMA MkdirPGrows ==
    ASSUME NEW d, MkdirP(d)
    PROVE  DirsGrow
  BY DEF MkdirP, DirsGrow

\* Pruning takes recorded directories, and directories inside those: none of
\* what was there before is one or the other.
LEMMA PruneKeepsPre ==
    ASSUME PreInv, NEW registered, PruneCreated(registered)
    PROVE  PreInv'
  <1> DEFINE known == recorded \cup created
             empty == {d \in known : Hollow(d, registered)}
             below == {d \in dirs : Parent(d) \in known /\ Hollow(d, registered)}
  <1>1. PICK gone \in SUBSET (empty \cup below) :
          /\ dirs' = dirs \ gone
          /\ recorded' = IF Lib \in dirs \ gone THEN known \ empty ELSE {}
          /\ created' = {}
    BY DEF PruneCreated
  <1>2. known \cap (PreDirs \cup {Host}) = {}
    BY DEF PreInv, PreexistingKept
  <1>3. \A d \in PreDirs \cup {Host} : Parent(d) = Host
    BY PreDirsAssumption DEF Parent, Shared, Host, Opt, Lib, Etc, Sites
  <1>4. gone \cap (PreDirs \cup {Host}) = {}
    BY <1>2, <1>3
  <1>5. recorded' \cup created' \subseteq known
    BY <1>1
  <1> QED BY <1>1, <1>2, <1>4, <1>5 DEF PreInv, PreexistingKept

\* A step of a command makes directories, or takes away the unit's own.
LEMMA CommandKeepsPre ==
    ASSUME Inv, PreInv, job # None, NEW s \in job.todo, ApplyNext(s) \/ RmNext(s) \/ Rejected(s) \/ Fault(s)
    PROVE  PreInv'
  <1>1. CASE \/ Refuse(s) \/ NoChanges(s) \/ PrintStep(s) \/ Rejected(s)
    <2>1. UNCHANGED <<dirs, recorded>> /\ created' = {}
        BY <1>1 DEF Refuse, NoChanges, PrintStep, Rejected, Exit, tree
    <2> QED BY <2>1, GrowthKeepsPre DEF DirsGrow
  <1>10. CASE Fault(s)
    <2>1. dirs \subseteq dirs' /\ recorded' = recorded /\ created' = {}
        BY <1>10 DEF Fault, Exit, CutOff
    <2> QED BY <2>1, GrowthKeepsPre DEF DirsGrow
  <1>2. CASE \/ PutIncomplete(s) \/ LoadUnit(s) \/ CommitStep(s) \/ DropStep(s)
    <2>1. UNCHANGED <<dirs, recorded, created>>
        BY <1>2 DEF PutIncomplete, LoadUnit, CommitStep, DropStep, host, tree, record
    <2> QED BY <2>1, GrowthKeepsPre DEF DirsGrow
  <1>3. CASE \/ UserStep(s) \/ JoinStep(s) \/ LeaveStep(s) \/ RestartCaddyStep(s)
             \/ DaemonReloadStep(s) \/ ReloadCaddyStep(s) \/ DisableStep(s) \/ UserdelStep(s)
    <2>1. UNCHANGED <<dirs, recorded, created>>
        BY <1>3 DEF UserStep, JoinStep, LeaveStep, RestartCaddyStep, DaemonReloadStep,
                    ReloadCaddyStep, DisableStep, UserdelStep, tree, record
    <2> QED BY <2>1, GrowthKeepsPre DEF DirsGrow
  <1>4. CASE \/ ChmodStep(s) \/ StaleStep(s) \/ SweepStep(s) \/ UnmarkStep(s) \/ GiveStep(s)
    <2>1. UNCHANGED <<dirs, recorded, created>>
        BY <1>4 DEF ChmodStep, StaleStep, SweepStep, UnmarkStep, GiveStep, Chmod, Remove, RemoveTemp,
           GiveTree, record
    <2> QED BY <2>1, GrowthKeepsPre DEF DirsGrow
  <1>5. CASE MkdirStep(s) \/ WriteStep(s) \/ SyncStep(s) \/ MarkStep(s)
    <2>1. \E d : MkdirP(d)
        BY <1>5 DEF MkdirStep, WriteStep, SyncStep, MarkStep, Mkdir, Write
    <2> QED BY <2>1, MkdirPGrows, GrowthKeepsPre
  <1>6. CASE StartStep(s)
    <2>1. dirs \subseteq dirs' /\ UNCHANGED <<recorded, created>>
        BY <1>6 DEF StartStep, Start, record
    <2> QED BY <2>1, GrowthKeepsPre DEF DirsGrow
  <1>7. CASE FlushStep(s)
    <2>1. UNCHANGED <<dirs, created>> /\ recorded' = recorded \cup created
        BY <1>7 DEF FlushStep, FlushCreated, tree
    <2> QED BY <2>1, GrowthKeepsPre DEF DirsGrow
  <1>8. CASE NotFound(s) \/ PruneStep(s)
    <2>1. PruneCreated(AnyRegistered(registry))
        BY <1>8 DEF NotFound, PruneStep
    <2> QED BY <2>1, PruneKeepsPre
  <1>9. CASE RemoveTreeStep(s)
    <2>1. Removing
        BY <1>9, Phases DEF RemoveTreeStep, Doing, ApplyVerbs
    <2>2. s \in RemovalScript(job.unit) /\ s.verb = "rm tree"
        BY <1>9, <2>1 DEF Removing, RemoveTreeStep, Doing
    <2>3. s.on \in OwnDirs(job.unit)
        BY <2>2, ScriptFields
    <2>4. s.on \notin PreDirs \cup {Host}
        BY <2>3, PreDirsAssumption DEF OwnDirs, App, State, Shared, Host, Opt, Lib, Etc, Sites
    <2>5. dirs' = dirs \ {s.on} /\ UNCHANGED <<recorded, created>>
        BY <1>9 DEF RemoveTreeStep, RemoveTree, record
    <2> QED BY <2>4, <2>5 DEF PreInv, PreexistingKept
  <1> QED BY <1>1, <1>2, <1>3, <1>4, <1>5, <1>6, <1>7, <1>8, <1>9, <1>10 DEF ApplyNext, RmNext

\* Every step of the specification, and every stutter, keeps what was there.
LEMMA NextKeepsPre == Inv /\ PreInv /\ [Next]_vars => PreInv'
  <1> SUFFICES ASSUME Inv, PreInv, [Next]_vars PROVE PreInv'
      OBVIOUS
  <1>1. CASE \E n \in Names : BeginRm(n) \/ \E t \in Targets : BeginApply(n, t)
    <2>1. MkdirP(Lib)
        BY <1>1 DEF BeginRm, BeginApply, Start_
    <2> QED BY <2>1, MkdirPGrows, GrowthKeepsPre
  <1>2. CASE \E s \in Todo : ApplyNext(s) \/ RmNext(s) \/ Rejected(s) \/ Fault(s)
    <2>1. PICK s \in Todo : ApplyNext(s) \/ RmNext(s) \/ Rejected(s) \/ Fault(s)
        BY <1>2
    <2>2. job # None /\ s \in job.todo
        BY <2>1 DEF Todo
    <2> QED BY <2>1, <2>2, CommandKeepsPre
  <1>3. CASE \/ \E id \in AdminIds : AdminAddsUser(id)
             \/ \E n \in AdminNames : AdminChmods(n)
             \/ \E n \in Writers : AppWrites(n)
             \/ UNCHANGED vars
    <2>1. UNCHANGED <<dirs, recorded, created>>
        BY <1>3 DEF AdminAddsUser, AdminChmods, AppWrites, vars, host, tree, record
    <2> QED BY <2>1, GrowthKeepsPre DEF DirsGrow
  <1> QED BY <1>1, <1>2, <1>3 DEF Next

\* For any units, targets and failures, no directory the host had before is
\* ever recorded as smallapp's, or removed.
THEOREM HostKept == Spec => []PreexistingKept
  <1>1. Init => PreInv
    BY DEF Init, SystemInit, PreInv, PreexistingKept
  <1>2. Spec => [](Inv /\ PreInv)
    BY <1>1, InitInv, NextInv, NextKeepsPre, PTL DEF Spec
  <1>3. PreInv => PreexistingKept
    BY DEF PreInv
  <1> QED BY <1>2, <1>3, PTL

-----------------------------------------------------------------------------
(* Changes under an unfinished entry.                                      *)

\* The part of an ending that comes after the commit.
Closing(n) == {Action(28, "flush", <<"lib">>), Action(29, "print", <<"unit", n>>)}

\* What a plan consists of comes before its ending, and is none of that.
Placed(n, s) == s \in Ending(n) \/ (s.at \in 1..26 /\ s.verb \notin {"commit", "flush", "print"})

\* Once the entry says the apply is finished, only its closing is left of it.
ClosingInv ==
    job # None /\ job.op = "apply" =>
        \/ \A s \in job.todo : s.verb = "plan"
        \/ /\ \A s \in job.todo : Placed(job.unit, s)
           /\ Complete(job.unit) => job.todo \subseteq Closing(job.unit)

\* The places of plan.build are before those of the ending.
LEMMA BuildPlaced ==
    ASSUME NEW n, NEW t, NEW secret
    PROVE  \A s \in Build(n, t, secret) \cup Ending(n) : Placed(n, s)
  <1>1. \A at \in 1..26 : \A verb, on : verb \notin {"commit", "flush", "print"} =>
            Placed(n, Action(at, verb, on))
    BY DEF Placed, Action
  <1>2. \A s \in UserActions(n) : Placed(n, s)
    BY <1>1 DEF UserActions, When
  <1>3. \A s \in DirectoryActions(n) : Placed(n, s)
    BY <1>1 DEF DirectoryActions, MkdirActions, When
  <1>4. \A s \in WriteActions(n, t, secret) : Placed(n, s)
    <2>1. \A f : WriteAt(n, f) \in 1..26
      BY DEF WriteAt
    <2> QED BY <1>1, <2>1 DEF WriteActions
  <1>5. \A s \in StaleActions(n, t) : Placed(n, s)
    <2>1. \A on : Placed(n, Action(14, "rm", on))
      BY <1>1
    <2>3. 14 \in 1..26 /\ "rm temp" \notin {"commit", "flush", "print"}
      OBVIOUS
    <2>2. \A on : Placed(n, Action(14, "rm temp", on))
      BY <1>1, <2>3, Zenon
    <2> QED BY <2>1, <2>2, Zenon DEF StaleActions
  <1>6. \A s \in DependencyActions(n, t, secret) : Placed(n, s)
    BY <1>1 DEF DependencyActions, When
  <1>7. \A s \in ChgrpActions(n) \cup ChownActions(n) : Placed(n, s)
    BY <1>1 DEF ChgrpActions, ChownActions, When
  <1>8. \A s \in GroupActions(n, t) : Placed(n, s)
    <2>1. 19 \in 1..26 /\ 20 \in 1..26
      OBVIOUS
    <2> QED BY <1>1, <2>1, Zenon DEF GroupActions, When
  <1>9. \A s \in ServiceActions(n) : Placed(n, s)
    <2>1. 23 \in 1..26 /\ 24 \in 1..26 /\ 25 \in 1..26 /\ 26 \in 1..26
      OBVIOUS
    <2> QED BY <1>1, <2>1, Zenon DEF ServiceActions
  <1>10. \A s \in Ending(n) : Placed(n, s)
    BY DEF Placed
  <1> QED BY <1>2, <1>3, <1>4, <1>5, <1>6, <1>7, <1>8, <1>9, <1>10 DEF Build, Changes, When

\* A step that leaves the registry alone only makes the list shorter.
LEMMA DoneKeepsClosing ==
    ASSUME Inv, ClosingInv, job # None, NEW s, Done(s), registry' = registry
    PROVE  ClosingInv'
  <1>1. job'.op = job.op /\ job'.unit = job.unit /\ job'.todo \subseteq job.todo
    BY DoneJob DEF Inv, Typed, JobTyped
  <1>2. \A r : Placed(job'.unit, r) <=> Placed(job.unit, r)
    BY <1>1
  <1> QED BY <1>1, <1>2 DEF ClosingInv, Complete, Registered

\* When the commit is the first step left, the closing is all there is after it.
LEMMA CommitKeepsClosing ==
    ASSUME Inv, ClosingInv, Applying, NEW s \in job.todo, CommitStep(s)
    PROVE  ClosingInv'
  <1>1. job'.op = job.op /\ job'.unit = job.unit /\ job'.todo = job.todo \ {s}
    BY DoneJob DEF CommitStep, Inv, Typed, JobTyped, Applying
  <1>2. /\ s.verb = "commit" /\ job.op = "apply"
        /\ \A r \in job.todo : s.at <= r.at
    BY DEF CommitStep, Doing, First, Applying
  <1>3. \A r \in job.todo : Placed(job.unit, r)
    BY <1>2 DEF ClosingInv, Applying
  <1>4. s = Action(27, "commit", <<"unit", job.unit>>)
    BY <1>2, <1>3 DEF Placed, Ending, Action
  <1>5. \A r \in job'.todo : r \in Closing(job.unit)
    <2> SUFFICES ASSUME NEW r \in job.todo, r # s PROVE r \in Closing(job.unit)
      BY <1>1
    <2>1. s.at = 27 /\ s.at <= r.at
      BY <1>2, <1>4 DEF Action
    <2>2. r \in Ending(job.unit)
      BY <1>3, <2>1 DEF Placed
    <2> QED BY <1>4, <2>2 DEF Ending, Closing
  <1> QED BY <1>1, <1>3, <1>5 DEF ClosingInv

\* The entry is put as unfinished, and a plan is placed.
LEMMA PutKeepsClosing ==
    ASSUME Inv, NEW s, PutIncomplete(s), job.op = "apply"
    PROVE  ClosingInv'
  <1> DEFINE n == job.unit
  <1>0. job # None /\ n \in Names
    BY DEF PutIncomplete, Doing, First, Inv, Typed
  <1>1. PICK secret : job' = [job EXCEPT !.secret = secret, !.fresh = ~Reused(n),
                                         !.todo = Build(n, job.target, secret) \cup Ending(n)]
    BY DEF PutIncomplete
  <1>2. job'.unit = n /\ job'.todo = Build(n, job.target, secret) \cup Ending(n)
    BY <1>0, <1>1 DEF Inv, Typed, JobFields
  <1>3. \A r \in job'.todo : Placed(job'.unit, r)
    BY <1>2, BuildPlaced
  <1>4. PICK made : registry' = [registry EXCEPT ![n] = [createdUser |-> made, complete |-> FALSE]]
    BY DEF PutIncomplete
  <1>5. ~Complete(job.unit)'
    BY <1>0, <1>2, <1>4 DEF Complete, Inv, Typed
  <1> QED BY <1>3, <1>5 DEF ClosingInv

\* Every step of a command keeps that only its closing is left of a finished apply.
LEMMA CommandKeepsClosing ==
    ASSUME Inv, ClosingInv, job # None, NEW s \in job.todo, ApplyNext(s) \/ RmNext(s) \/ Rejected(s) \/ Fault(s)
    PROVE  ClosingInv'
  <1>1. CASE \/ Refuse(s) \/ NoChanges(s) \/ PrintStep(s) \/ Rejected(s) \/ Fault(s)
             \/ NotFound(s) \/ PruneStep(s)
    <2>1. job' = None
      BY <1>1 DEF Refuse, NoChanges, PrintStep, Rejected, Fault, NotFound, PruneStep, Exit
    <2> QED BY <2>1 DEF ClosingInv
  <1>2. CASE PutIncomplete(s)
    <2>1. job.op = "apply"
      BY <1>2, Phases DEF PutIncomplete, Doing, ApplyVerbs, RmVerbs
    <2> QED BY <1>2, <2>1, PutKeepsClosing
  <1>3. CASE LoadUnit(s)
    <2>1. job.op = "rm"
      BY <1>3, Phases DEF LoadUnit, Doing, ApplyVerbs, RmVerbs
    <2>2. job'.op = "rm"
      BY <1>3, <2>1 DEF LoadUnit, Inv, Typed, JobFields
    <2> QED BY <2>2 DEF ClosingInv
  <1>4. CASE ApplyStep(s) \/ RmStep(s)
    <2>1. Done(s) /\ registry' = registry
      BY <1>4 DEF ApplyStep, RmStep, UserStep, MkdirStep, ChmodStep, WriteStep, StaleStep, UnmarkStep,
         SyncStep, MarkStep, GiveStep, JoinStep, LeaveStep, RestartCaddyStep, DaemonReloadStep,
         StartStep, ReloadCaddyStep, FlushStep, SweepStep, DisableStep, RemoveTreeStep, UserdelStep
    <2> QED BY <2>1, DoneKeepsClosing
  <1>5. CASE CommitStep(s)
    <2>1. Applying
      BY <1>5, Phases DEF CommitStep, Doing, RmVerbs
    <2> QED BY <1>5, <2>1, CommitKeepsClosing
  <1>6. CASE DropStep(s)
    <2>1. Removing
      BY <1>6, Phases DEF DropStep, Doing, ApplyVerbs
    <2>2. job'.op = "rm"
      BY <1>6, <2>1, DoneJob DEF DropStep, Inv, Typed, JobTyped, Removing
    <2> QED BY <2>2 DEF ClosingInv
  <1> QED BY <1>1, <1>2, <1>3, <1>4, <1>5, <1>6 DEF ApplyNext, RmNext, ApplyStep, RmStep

\* So does every step of the specification, and every stutter.
LEMMA NextKeepsClosing == Inv /\ ClosingInv /\ [Next]_vars => ClosingInv'
  <1> SUFFICES ASSUME Inv, ClosingInv, [Next]_vars PROVE ClosingInv'
      OBVIOUS
  <1>1. CASE \E n \in Names : BeginRm(n) \/ \E t \in Targets : BeginApply(n, t)
    <2>1. job'.op = "apply" => \A s \in job'.todo : s.verb = "plan"
      BY <1>1 DEF BeginRm, BeginApply, Start_, Action
    <2> QED BY <2>1 DEF ClosingInv
  <1>2. CASE \E s \in Todo : ApplyNext(s) \/ RmNext(s) \/ Rejected(s) \/ Fault(s)
    <2>1. PICK s \in Todo : ApplyNext(s) \/ RmNext(s) \/ Rejected(s) \/ Fault(s)
      BY <1>2
    <2>2. job # None /\ s \in job.todo
      BY <2>1 DEF Todo
    <2> QED BY <2>1, <2>2, CommandKeepsClosing
  <1>3. CASE \/ \E id \in AdminIds : AdminAddsUser(id)
             \/ \E n \in AdminNames : AdminChmods(n)
             \/ \E n \in Writers : AppWrites(n)
             \/ UNCHANGED vars
    <2>1. UNCHANGED <<job, registry>>
      BY <1>3 DEF AdminAddsUser, AdminChmods, AppWrites, vars
    <2> QED BY <2>1 DEF ClosingInv, Complete, Registered
  <1> QED BY <1>1, <1>2, <1>3 DEF Next

\* A step of an apply that changes the host is one of its plan, not its closing.
LEMMA ChangesUnfinished ==
    ASSUME Inv, ClosingInv, job # None, job.op = "apply", NEW s \in job.todo,
           ApplyNext(s) \/ RmNext(s) \/ Rejected(s) \/ Fault(s),
           <<accounts, tree, daemons>>' # <<accounts, tree, daemons>>
    PROVE  Registered(job.unit) /\ ~Complete(job.unit)
  <1>1. s.verb = "plan" \/ (Applying /\ s.verb \in ApplyVerbs)
    BY Phases DEF Removing
  <1>2. ApplyStep(s) \/ RmStep(s) \/ (Fault(s) /\ s.verb \in {"write", "mark"})
    <2>1. ~(NotFound(s) \/ PruneStep(s))
      BY <1>1 DEF NotFound, PruneStep, Doing, ApplyVerbs
    <2>2. /\ ~(Refuse(s) \/ NoChanges(s) \/ PrintStep(s) \/ Rejected(s))
          /\ Fault(s) => s.verb \in {"write", "mark"}
      BY DEF Refuse, NoChanges, PrintStep, Rejected, Fault, tree
    <2>3. ~(PutIncomplete(s) \/ LoadUnit(s) \/ CommitStep(s) \/ DropStep(s))
      BY DEF PutIncomplete, LoadUnit, CommitStep, DropStep, host
    <2> QED BY <2>1, <2>2, <2>3 DEF ApplyNext, RmNext, ApplyStep, RmStep
  <1>3. s.verb # "plan" /\ s.verb # "print" /\ s.verb # "flush"
    <2>1. ~FlushStep(s)
      BY DEF FlushStep
    <2> QED BY <1>2, <2>1 DEF ApplyStep, RmStep, UserStep, MkdirStep, ChmodStep, WriteStep, StaleStep,
         UnmarkStep, SyncStep, MarkStep, GiveStep, JoinStep, LeaveStep, RestartCaddyStep, SweepStep,
         DaemonReloadStep, StartStep, ReloadCaddyStep, DisableStep, RemoveTreeStep, UserdelStep, Doing
  <1>4. Applying
    BY <1>1, <1>3
  <1>5. s \notin Closing(job.unit)
    BY <1>3 DEF Closing, Action
  <1> QED BY <1>3, <1>4, <1>5 DEF ClosingInv, Applying

\* For any units, targets and failures, no step of an apply changes the host
\* but under an entry that says it is unfinished.
THEOREM ChangedUnfinished == Spec => UnfinishedWhileChanging
  <1>1. Init => ClosingInv
    BY DEF Init, ClosingInv
  <1>2. ASSUME Inv, ClosingInv, [Next]_vars
        PROVE  [(job # None /\ job.op = "apply" /\ job' # job
                 /\ <<accounts, tree, daemons>>' # <<accounts, tree, daemons>>)
                  => Registered(job.unit) /\ ~Complete(job.unit)]_vars
    <2> SUFFICES ASSUME job # None, job.op = "apply", job' # job,
                        <<accounts, tree, daemons>>' # <<accounts, tree, daemons>>
                 PROVE  Registered(job.unit) /\ ~Complete(job.unit)
      OBVIOUS
    <2>1. PICK s \in Todo : ApplyNext(s) \/ RmNext(s) \/ Rejected(s) \/ Fault(s)
      BY <1>2 DEF vars, Next, BeginApply, BeginRm, Start_, AdminAddsUser, AdminChmods, AppWrites
    <2>2. s \in job.todo
      BY <2>1 DEF Todo
    <2> QED BY <1>2, <2>1, <2>2, ChangesUnfinished
  <1> QED BY <1>1, <1>2, InitInv, NextInv, NextKeepsClosing, PTL DEF Spec, UnfinishedWhileChanging
=============================================================================
