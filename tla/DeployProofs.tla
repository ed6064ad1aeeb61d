---------------------------- MODULE DeployProofs -----------------------------
(***************************************************************************)
(* What a command leaves alone: the other units, as long as no two of them *)
(* share an identifier (as x and x-gw do), the data of an app, and the     *)
(* accounts smallapp has not made.  And from it what a reported apply      *)
(* means for the files of its unit: they are what the target renders to,   *)
(* and nothing else.  FilesDeployed is not inductive: it takes that an     *)
(* apply has left on its list whatever is not right yet (Underway), and    *)
(* every temporary file it has to remove (SweptInv).                       *)
(***************************************************************************)
EXTENDS ApplyProofs

\* No unit's gateway has the name of another unit.
Apart == \A m, n \in Names : m # n => IdsOf(m) \cap IdsOf(n) = {}

\* Administrators keep away from the accounts of the units.
AdminsApart == \A n \in Names : IdsOf(n) \cap AdminIds = {}

\* What changes is named after n or n's gateway.
OnlyOwn(n) ==
    /\ \A f \in Files : file'[f] # file[f] => f[2] \in IdsOf(n)
    /\ \A id \in Ids \ IdsOf(n) : users'[id] = users[id] /\ proc'[id] = proc[id]

-----------------------------------------------------------------------------
(* Names.                                                                  *)

\* A unit's files are named after it or its gateway.
LEMMA OwnNames ==
    ASSUME NEW n \in Names, NEW f \in OwnFiles(n)
    PROVE  f[2] \in IdsOf(n)
  BY DEF OwnFiles, IdsOf, Vhost, Env, Marker, Cache, Service, Page

\* So is whatever is in its directories.
LEMMA DirNames ==
    ASSUME NEW n \in Names, NEW f \in Files, DirOf(f) \in OwnDirs(n)
    PROVE  f[2] \in IdsOf(n)
  <1> USE DEF DirOf, OwnDirs, IdsOf, App, State, Sites, Etc, Host
  <1>1. CASE f \in {Vhost(m) : m \in Names} BY <1>1 DEF Vhost
  <1>2. CASE f \in {Env(m) : m \in Names} BY <1>2 DEF Env
  <1>3. CASE f \in {Service(id) : id \in Ids} BY <1>3 DEF Service
  <1>4. CASE f \in {Page(m, p) : m \in Names, p \in Pages} BY <1>4 DEF Page
  <1>5. CASE f \in {Cache(m) : m \in Names} BY <1>5 DEF Cache
  <1>6. CASE f \in {Marker(m) : m \in Names} BY <1>6 DEF Marker
  <1>7. CASE f \in {Data(m) : m \in Names} BY <1>7 DEF Data
  <1> QED BY <1>1, <1>2, <1>3, <1>4, <1>5, <1>6, <1>7 DEF Files

-----------------------------------------------------------------------------
(* The steps of a command.                                                 *)

FileStep(s) == WriteStep(s) \/ StaleStep(s) \/ UnmarkStep(s) \/ SyncStep(s) \/ MarkStep(s)

\* Steps that change no file, no account and no process.
QuietStep(s) ==
    \/ Refuse(s) \/ NoChanges(s) \/ PutIncomplete(s) \/ MkdirStep(s) \/ ChmodStep(s)
    \/ SweepStep(s) \/ GiveStep(s) \/ JoinStep(s) \/ LeaveStep(s) \/ RestartCaddyStep(s)
    \/ DaemonReloadStep(s) \/ ReloadCaddyStep(s) \/ CommitStep(s) \/ FlushStep(s) \/ PrintStep(s)
    \/ NotFound(s) \/ LoadUnit(s) \/ Rejected(s) \/ DropStep(s) \/ PruneStep(s) \/ Fault(s)

\* A quiet step is one.
LEMMA QuietSteps ==
    ASSUME NEW s, QuietStep(s)
    PROVE  UNCHANGED <<file, users, proc>>
  <1>1. CASE \/ Refuse(s) \/ NoChanges(s) \/ PrintStep(s) \/ Rejected(s) \/ Fault(s)
             \/ PutIncomplete(s) \/ LoadUnit(s) \/ CommitStep(s) \/ DropStep(s) \/ FlushStep(s)
    BY <1>1 DEF Refuse, NoChanges, PrintStep, Rejected, Fault, PutIncomplete, LoadUnit,
                CommitStep, DropStep, FlushStep, host, accounts, tree, daemons
  <1>2. CASE MkdirStep(s) \/ ChmodStep(s) \/ SweepStep(s) \/ GiveStep(s)
    BY <1>2 DEF MkdirStep, ChmodStep, SweepStep, GiveStep, Mkdir, Chmod, RemoveTemp, GiveTree,
                accounts, daemons
  <1>3. CASE JoinStep(s) \/ LeaveStep(s)
    BY <1>3 DEF JoinStep, LeaveStep, AddGroupMember, RemoveGroupMember, tree, daemons
  <1>4. CASE RestartCaddyStep(s) \/ DaemonReloadStep(s) \/ ReloadCaddyStep(s)
    BY <1>4 DEF RestartCaddyStep, DaemonReloadStep, ReloadCaddyStep, CaddyRestart, DaemonReload,
                CaddyReload, accounts, tree
  <1>5. CASE NotFound(s) \/ PruneStep(s)
    BY <1>5 DEF NotFound, PruneStep, PruneCreated, accounts, daemons
  <1> QED BY <1>1, <1>2, <1>3, <1>4, <1>5 DEF QuietStep

\* The file a step writes or removes is the unit's own.
LEMMA FileStepOwn ==
    ASSUME Inv, job # None, NEW s \in job.todo, FileStep(s)
    PROVE  /\ s.on \in OwnFiles(job.unit)
           /\ \A f \in Files \ {s.on} : file'[f] = file[f]
           /\ UNCHANGED <<users, proc>>
  <1>1. s.verb \in {"write", "rm", "unmark", "sync", "mark"}
    BY DEF FileStep, WriteStep, StaleStep, UnmarkStep, SyncStep, MarkStep, Doing
  <1>2. s.on \in OwnFiles(job.unit)
    <2>1. CASE Applying
      BY <1>1, <2>1, StepShape DEF Applying
    <2>2. CASE Removing
      BY <1>1, <2>2, ScriptFields DEF Removing
    <2> QED BY <1>1, <2>1, <2>2, Phases
  <1>3. \A f \in Files \ {s.on} : file'[f] = file[f]
    BY DEF FileStep, WriteStep, StaleStep, UnmarkStep, SyncStep, MarkStep, Write, Remove, Inv, Typed
  <1>4. UNCHANGED <<users, proc>>
    BY DEF FileStep, WriteStep, StaleStep, UnmarkStep, SyncStep, MarkStep, accounts, daemons
  <1> QED BY <1>2, <1>3, <1>4

\* Only rm removes trees, and only the unit's own.
LEMMA TreeStepOwn ==
    ASSUME Inv, job # None, NEW s \in job.todo, RemoveTreeStep(s)
    PROVE  /\ job.op = "rm" /\ s.on \in OwnDirs(job.unit)
           /\ \A f \in Files : file'[f] # file[f] => DirOf(f) = s.on
           /\ UNCHANGED <<users, proc>>
  <1>1. s.verb = "rm tree"
    BY DEF RemoveTreeStep, Doing
  <1>2. Removing
    BY <1>1, Phases DEF ApplyVerbs
  <1>3. s.on \in OwnDirs(job.unit)
    BY <1>1, <1>2, ScriptFields DEF Removing
  <1> QED BY <1>2, <1>3 DEF Removing, RemoveTreeStep, RemoveTree, accounts, daemons

\* Accounts are made by an apply of their unit.
LEMMA UserStepOwn ==
    ASSUME Inv, job # None, NEW s \in job.todo, UserStep(s)
    PROVE  /\ Applying
           /\ \E id \in IdsOf(job.unit) : users' = [users EXCEPT ![id] = "smallapp"]
           /\ UNCHANGED <<file, proc>>
  <1>1. s.verb = "user"
    BY DEF UserStep, Doing
  <1>2. Applying
    BY <1>1, Phases DEF RmVerbs
  <1>3. PICK id \in IdsOf(job.unit) : s.on = <<"user", id>>
    BY <1>1, <1>2, StepShape DEF Applying
  <1>4. users' = [users EXCEPT ![id] = "smallapp"]
    BY <1>3 DEF UserStep, CreateUser
  <1> QED BY <1>2, <1>4 DEF UserStep, tree, daemons

\* And deleted by its removal.
LEMMA UserdelStepOwn ==
    ASSUME Inv, job # None, NEW s \in job.todo, UserdelStep(s)
    PROVE  /\ s.on[2] \in IdsOf(job.unit)
           /\ users' = [users EXCEPT ![s.on[2]] = "none"]
           /\ UNCHANGED <<file, proc>>
  <1>1. s.verb = "userdel"
    BY DEF UserdelStep, Doing
  <1>2. Removing
    BY <1>1, Phases DEF ApplyVerbs
  <1>3. PICK id \in IdsOf(job.unit) : s.on = <<"user", id>>
    BY <1>1, <1>2, ScriptFields DEF Removing
  <1> QED BY <1>3 DEF UserdelStep, DeleteUser, tree

\* Every step of a command changes only what is named after its unit.
LEMMA CommandOwn ==
    ASSUME Inv, job # None, NEW s \in job.todo, ApplyNext(s) \/ RmNext(s) \/ Rejected(s) \/ Fault(s)
    PROVE  OnlyOwn(job.unit)
  <1> DEFINE n == job.unit
  <1>0. n \in Names /\ users \in [Ids -> {"none", "smallapp", "foreign"}] /\ DOMAIN proc = Ids
    BY DEF Inv, Typed
  <1>1. CASE QuietStep(s)
    BY <1>1, QuietSteps DEF OnlyOwn
  <1>2. CASE FileStep(s)
    <2>1. n \in Names /\ s.on[2] \in IdsOf(n)
      BY <1>0, <1>2, FileStepOwn, OwnNames
    <2> QED BY <1>2, <2>1, FileStepOwn DEF OnlyOwn
  <1>3. CASE RemoveTreeStep(s)
    <2>1. \A f \in Files : file'[f] # file[f] => f[2] \in IdsOf(n)
      BY <1>0, <1>3, TreeStepOwn, DirNames
    <2> QED BY <1>3, <2>1, TreeStepOwn DEF OnlyOwn
  <1>4. CASE UserStep(s)
    BY <1>0, <1>4, UserStepOwn DEF OnlyOwn
  <1>5. CASE UserdelStep(s)
    BY <1>0, <1>5, UserdelStepOwn DEF OnlyOwn
  <1>6. CASE StartStep(s) \/ DisableStep(s)
    <2>1. s.verb \in {"start", "disable"}
      BY <1>6 DEF StartStep, DisableStep, Doing
    <2>2. PICK id \in IdsOf(n) : s.on = <<"service", id>>
      <3>1. CASE Applying
        <4>1. ApplyActionOf(n, s)
          BY <3>1 DEF Applying
        <4>2. s.verb = "start"
          BY <2>1, <4>1 DEF ApplyActionOf
        <4> QED BY <4>1, <4>2, StepShape
      <3>2. CASE Removing
        BY <2>1, <3>2, ScriptFields DEF Removing
      <3> QED BY <2>1, <3>1, <3>2, Phases
    <2>3. \A i \in Ids \ {id} : proc'[i] = proc[i]
      BY <1>0, <1>6, <2>2 DEF StartStep, DisableStep, Start, Disable
    <2>4. UNCHANGED <<file, users>>
      BY <1>6 DEF StartStep, DisableStep, Start, Disable, accounts, tree
    <2> QED BY <2>2, <2>3, <2>4 DEF OnlyOwn
  <1> QED BY <1>1, <1>2, <1>3, <1>4, <1>5, <1>6 DEF ApplyNext, RmNext, QuietStep, FileStep

-----------------------------------------------------------------------------
(* The other units.                                                        *)

\* Where no gateway has the name of another unit, a command on one unit leaves
\* the files, accounts and processes of every other registered one alone.
THEOREM Isolation == Apart => (Spec => UnitsIsolated)
  <1> SUFFICES ASSUME Apart PROVE Spec => UnitsIsolated
    OBVIOUS
  <1>1. ASSUME Inv, [Next]_vars
        PROVE  [\A n \in Names : job # None /\ job.unit # n /\ Registered(n) =>
                  /\ \A f \in FilesOf(n) : file'[f] = file[f]
                  /\ \A id \in IdsOf(n) : users'[id] = users[id] /\ proc'[id] = proc[id]]_vars
    <2> SUFFICES ASSUME NEW n \in Names, job # None, job.unit # n, Registered(n)
                 PROVE  /\ \A f \in FilesOf(n) : file'[f] = file[f]
                        /\ \A id \in IdsOf(n) : users'[id] = users[id] /\ proc'[id] = proc[id]
      OBVIOUS
    <2>1. job.unit \in Names /\ IdsOf(n) \cap IdsOf(job.unit) = {} /\ IdsOf(n) \subseteq Ids
      BY <1>1, NamesAssumption DEF Inv, Typed, Apart, IdsOf
    <2>2. \A f \in FilesOf(n) : f \in Files /\ f[2] \in IdsOf(n) /\ f # Data(n)
      BY DEF FilesOf, IdsOf, Service, Data
    <2>3. CASE \E s \in Todo : ApplyNext(s) \/ RmNext(s) \/ Rejected(s) \/ Fault(s)
      <3>1. OnlyOwn(job.unit)
        BY <1>1, <2>3, CommandOwn DEF Todo
      <3> QED BY <2>1, <2>2, <3>1 DEF OnlyOwn
    <2>4. CASE \E m \in Writers : AppWrites(m)
      <3>1. PICK m \in Writers : AppWrites(m)
        BY <2>4
      <3>2. \A f \in FilesOf(n) : f # Data(m)
        <4> SUFFICES ASSUME NEW f \in FilesOf(n), f = Data(m) PROVE FALSE
          OBVIOUS
        <4>1. f[2] = m /\ f # Service(Gw[n])
          BY DEF Data, Service
        <4> QED BY <2>2, <4>1 DEF FilesOf
      <3> QED BY <1>1, <2>2, <3>1, <3>2 DEF AppWrites, accounts, daemons, Inv, Typed
    <2>5. CASE UNCHANGED vars
      BY <2>5 DEF vars, host, accounts, tree, daemons
    <2> QED BY <1>1, <2>3, <2>4, <2>5 DEF Next, BeginApply, BeginRm, Start_, AdminAddsUser, AdminChmods
  <1> QED BY <1>1, InitInv, NextInv, PTL DEF Spec, UnitsIsolated

\* Nor does any command but the removal of the unit delete what its app has
\* written.
THEOREM DataSafe == Apart => (Spec => DataKept)
  <1> SUFFICES ASSUME Apart PROVE Spec => DataKept
    OBVIOUS
  <1>1. ASSUME Inv, [Next]_vars
        PROVE  [\A n \in Names : Exists(Data(n)) /\ file'[Data(n)] = None =>
                  job # None /\ job.op = "rm" /\ job.unit = n]_vars
    <2> SUFFICES ASSUME NEW n \in Names, Exists(Data(n)), file'[Data(n)] = None
                 PROVE  job # None /\ job.op = "rm" /\ job.unit = n
      OBVIOUS
    <2>1. Data(n) \in Files /\ file'[Data(n)] # file[Data(n)] /\ Data(n)[2] = n
      BY DEF Files, Exists, Data
    <2>2. CASE \E s \in Todo : ApplyNext(s) \/ RmNext(s) \/ Rejected(s) \/ Fault(s)
      <3>1. PICK s \in Todo : ApplyNext(s) \/ RmNext(s) \/ Rejected(s) \/ Fault(s)
        BY <2>2
      <3>2. job # None /\ s \in job.todo /\ job.unit \in Names
        BY <1>1, <3>1 DEF Todo, Inv, Typed
      <3>3. ~QuietStep(s)
        BY <2>1, QuietSteps
      <3>4. ~FileStep(s)
        <4>1. Data(n) \notin OwnFiles(job.unit)
          BY DEF Data, OwnFiles, Vhost, Env, Marker, Cache, Service, Page
        <4> QED BY <1>1, <2>1, <3>2, <4>1, FileStepOwn
      <3>5. ~(UserStep(s) \/ UserdelStep(s) \/ StartStep(s) \/ DisableStep(s))
        BY <2>1 DEF UserStep, UserdelStep, StartStep, DisableStep, Start, tree
      <3>6. RemoveTreeStep(s)
        BY <3>1, <3>3, <3>4, <3>5 DEF ApplyNext, RmNext, QuietStep, FileStep
      <3>7. job.op = "rm"
        BY <1>1, <3>2, <3>6, TreeStepOwn
      <3>8. n \in IdsOf(job.unit) /\ n \in IdsOf(n)
        BY <1>1, <2>1, <3>1, <3>2, CommandOwn DEF OnlyOwn, IdsOf
      <3> QED BY <3>2, <3>7, <3>8 DEF Apart
    <2>3. CASE \E m \in Writers : AppWrites(m)
      BY <2>1, <2>3 DEF AppWrites, Exists, Data, Inv, Typed
    <2> QED BY <1>1, <2>1, <2>2, <2>3
            DEF Next, BeginApply, BeginRm, Start_, AdminAddsUser, AdminChmods, vars, host, tree
  <1> QED BY <1>1, InitInv, NextInv, PTL DEF Spec, DataKept

-----------------------------------------------------------------------------
(* The accounts smallapp has not made.                                     *)

\* No account of a registered unit is another's, nor one that is to be deleted:
\* that an account is not taken over is decided before the entry is put, and
\* that it is deleted by what the entry says.
ForeignInv ==
    /\ \A n \in Names : Registered(n) => \A id \in IdsOf(n) : users[id] # "foreign"
    /\ job # None => \A s \in job.todo : s.verb = "userdel" => users[s.on[2]] # "foreign"

\* Every step of a command keeps it.
LEMMA CommandKeepsForeign ==
    ASSUME Inv, ForeignInv, job # None, NEW s \in job.todo, ApplyNext(s) \/ RmNext(s) \/ Rejected(s) \/ Fault(s)
    PROVE  ForeignInv'
  <1> DEFINE n == job.unit
  <1>0. n \in Names /\ users \in [Ids -> {"none", "smallapp", "foreign"}] /\ JobTyped
        /\ IdsOf(n) \subseteq Ids /\ registry \in [Names -> {None} \cup Entries]
    BY NamesAssumption DEF Inv, Typed, JobTyped, IdsOf
  <1>1. CASE PutIncomplete(s)
    <2>1. job.op = "apply" /\ UNCHANGED users
      BY <1>1, Phases DEF PutIncomplete, Doing, ApplyVerbs, RmVerbs, host, accounts
    <2>2. \A id \in IdsOf(n) : users[id] # "foreign"
      BY <1>0, <1>1 DEF PutIncomplete, Refuses, ForeignInv
    <2>3. \A m \in Names \ {n} : registry'[m] = registry[m]
      BY <1>0, <1>1 DEF PutIncomplete
    <2>4. PICK secret : job' = [job EXCEPT !.secret = secret, !.fresh = ~Reused(n),
                                           !.todo = Build(n, job.target, secret) \cup Ending(n)]
      BY <1>1 DEF PutIncomplete
    <2>5. job'.todo = Build(n, job.target, secret) \cup Ending(n) /\ job.target \in Targets
      BY <1>0, <2>1, <2>4 DEF JobTyped, JobFields
    <2>6. \A r \in job'.todo : ApplyActionOf(n, r)
      BY <1>0, <2>5, BuildShape
    <2>7. \A r \in job'.todo : r.verb # "userdel"
      BY <2>6 DEF ApplyActionOf
    <2> QED BY <2>1, <2>2, <2>3, <2>7 DEF ForeignInv, Registered
  <1>2. CASE LoadUnit(s)
    <2>1. UNCHANGED <<users, registry>> /\ Registered(n)
      BY <1>2 DEF LoadUnit, host, accounts
    <2>2. job'.todo = RemovalActions(n)
      BY <1>0, <1>2 DEF LoadUnit, JobTyped, JobFields
    <2>3. \A r \in job'.todo : r.verb = "userdel" => r.on \in {<<"user", id>> : id \in IdsOf(n)}
      BY <2>2, ScriptFields DEF RemovalActions
    <2> QED BY <1>0, <2>1, <2>3 DEF ForeignInv, Registered
  <1>3. CASE job' = None /\ UNCHANGED <<users, registry>>
    BY <1>3 DEF ForeignInv, Registered
  <1>4. CASE Done(s) /\ UNCHANGED users /\ \A m \in Names : Registered(m)' => Registered(m)
    <2>1. job'.todo \subseteq job.todo
      BY <1>0, <1>4, DoneJob
    <2> QED BY <1>4, <2>1 DEF ForeignInv
  <1>5. CASE UserStep(s) \/ UserdelStep(s)
    <2>1. Done(s) /\ registry' = registry
      BY <1>5 DEF UserStep, UserdelStep
    <2>2. job'.todo \subseteq job.todo
      BY <1>0, <2>1, DoneJob
    <2>3. \A id : users[id] # "foreign" => users'[id] # "foreign"
      <3>1. \E id \in IdsOf(n), who \in {"smallapp", "none"} : users' = [users EXCEPT ![id] = who]
        BY <1>5, UserStepOwn, UserdelStepOwn
      <3> QED BY <1>0, <3>1
    <2> QED BY <2>1, <2>2, <2>3 DEF ForeignInv, Registered
  <1>6. \/ job' = None /\ UNCHANGED <<users, registry>>
        \/ Done(s) /\ UNCHANGED users /\ \A m \in Names : Registered(m)' => Registered(m)
        \/ PutIncomplete(s) \/ LoadUnit(s) \/ UserStep(s) \/ UserdelStep(s)
    <2>1. CASE \/ Refuse(s) \/ NoChanges(s) \/ PrintStep(s) \/ Rejected(s) \/ Fault(s)
               \/ NotFound(s) \/ PruneStep(s)
      <3>1. UNCHANGED registry /\ job' = None
        BY <2>1 DEF Refuse, NoChanges, PrintStep, Rejected, Fault, NotFound, PruneStep, Exit
      <3> QED BY <2>1, <3>1, QuietSteps DEF QuietStep
    <2>2. CASE CommitStep(s)
      <3>1. Registered(n)
        BY <2>2, Phases DEF CommitStep, Doing, RmVerbs, Applying
      <3>2. Done(s) /\ \A m \in Names \ {n} : registry'[m] = registry[m]
        BY <1>0, <2>2 DEF CommitStep
      <3> QED BY <2>2, <3>1, <3>2, QuietSteps DEF QuietStep, Registered
    <2>3. CASE DropStep(s)
      <3>1. Done(s) /\ \A m \in Names : registry'[m] \in {registry[m], None}
        BY <1>0, <2>3 DEF DropStep
      <3> QED BY <2>3, <3>1, QuietSteps DEF QuietStep, Registered
    <2>4. CASE FileStep(s) \/ RemoveTreeStep(s)
      <3>1. Done(s) /\ UNCHANGED registry
        BY <2>4 DEF FileStep, WriteStep, StaleStep, UnmarkStep, SyncStep, MarkStep, RemoveTreeStep
      <3> QED BY <2>4, <3>1, FileStepOwn, TreeStepOwn DEF Registered
    <2>5. CASE StartStep(s) \/ DisableStep(s)
      BY <2>5 DEF StartStep, DisableStep, accounts, Registered
    <2>6. CASE \/ MkdirStep(s) \/ ChmodStep(s) \/ SweepStep(s) \/ GiveStep(s) \/ JoinStep(s)
               \/ LeaveStep(s) \/ RestartCaddyStep(s) \/ DaemonReloadStep(s) \/ ReloadCaddyStep(s) \/ FlushStep(s)
      <3>1. Done(s) /\ UNCHANGED registry
        BY <2>6 DEF MkdirStep, ChmodStep, SweepStep, GiveStep, JoinStep, LeaveStep, RestartCaddyStep,
                    DaemonReloadStep, ReloadCaddyStep, FlushStep
      <3> QED BY <2>6, <3>1, QuietSteps DEF QuietStep, Registered
    <2> QED BY <2>1, <2>2, <2>3, <2>4, <2>5, <2>6 DEF ApplyNext, RmNext, FileStep
  <1> QED BY <1>1, <1>2, <1>3, <1>4, <1>5, <1>6

\* So does every step of the specification, and every stutter.
LEMMA NextKeepsForeign ==
    ASSUME AdminsApart, Inv, ForeignInv, [Next]_vars
    PROVE  ForeignInv'
  <1>1. CASE \E n \in Names : BeginRm(n) \/ \E t \in Targets : BeginApply(n, t)
    <2>1. UNCHANGED <<users, registry>> /\ \A s \in job'.todo : s.verb # "userdel"
      BY <1>1 DEF BeginRm, BeginApply, Start_, Action, accounts
    <2> QED BY <2>1 DEF ForeignInv, Registered
  <1>2. CASE \E s \in Todo : ApplyNext(s) \/ RmNext(s) \/ Rejected(s) \/ Fault(s)
    BY <1>2, CommandKeepsForeign DEF Todo
  <1>3. CASE \E id \in AdminIds : AdminAddsUser(id)
    <2>1. PICK id \in AdminIds : AdminAddsUser(id)
      BY <1>3
    <2>2. \A n \in Names : \A i \in IdsOf(n) : users'[i] = users[i]
      BY <2>1 DEF AdminAddsUser, AdminsApart, Inv, Typed
    <2> QED BY <2>1, <2>2 DEF ForeignInv, Registered, AdminAddsUser
  <1>4. CASE \/ \E n \in AdminNames : AdminChmods(n)
             \/ \E n \in Writers : AppWrites(n)
             \/ UNCHANGED vars
    <2>1. UNCHANGED <<users, registry, job>>
      BY <1>4 DEF AdminChmods, AppWrites, vars, host, accounts
    <2> QED BY <2>1 DEF ForeignInv, Registered
  <1> QED BY <1>1, <1>2, <1>3, <1>4 DEF Next

\* Where administrators keep away from the names of units, an account smallapp
\* has not made is never deleted or taken over.
THEOREM ForeignSafe == AdminsApart => (Spec => ForeignKept)
  <1> SUFFICES ASSUME AdminsApart PROVE Spec => ForeignKept
    OBVIOUS
  <1>1. Init => ForeignInv
    BY DEF Init, ForeignInv, Registered
  <1>2. ASSUME Inv, ForeignInv, [Next]_vars
        PROVE  [\A id \in Ids : users[id] = "foreign" => users'[id] = "foreign"]_vars
    <2> SUFFICES ASSUME NEW id \in Ids, users[id] = "foreign"
                 PROVE  users'[id] = "foreign"
      OBVIOUS
    <2>1. users \in [Ids -> {"none", "smallapp", "foreign"}]
      BY <1>2 DEF Inv, Typed
    <2>2. CASE \E s \in Todo : ApplyNext(s) \/ RmNext(s) \/ Rejected(s) \/ Fault(s)
      <3>1. PICK s \in Todo : ApplyNext(s) \/ RmNext(s) \/ Rejected(s) \/ Fault(s)
        BY <2>2
      <3>2. job # None /\ s \in job.todo
        BY <3>1 DEF Todo
      <3>3. CASE UserStep(s)
        <4>1. PICK i \in IdsOf(job.unit) : users' = [users EXCEPT ![i] = "smallapp"]
          BY <1>2, <3>2, <3>3, UserStepOwn
        <4>2. users[i] # "foreign"
          BY <1>2, <3>2, <3>3, UserStepOwn DEF Applying, ForeignInv, Inv, Typed
        <4> QED BY <2>1, <4>1, <4>2
      <3>4. CASE UserdelStep(s)
        <4>1. users[s.on[2]] # "foreign" /\ users' = [users EXCEPT ![s.on[2]] = "none"]
          BY <1>2, <3>2, <3>4, UserdelStepOwn DEF ForeignInv, UserdelStep, Doing
        <4> QED BY <2>1, <4>1
      <3>5. CASE ~UserStep(s) /\ ~UserdelStep(s)
        <4>1. CASE QuietStep(s)
          BY <4>1, QuietSteps
        <4>2. CASE FileStep(s) \/ RemoveTreeStep(s)
          BY <1>2, <3>2, <4>2, FileStepOwn, TreeStepOwn
        <4>3. CASE StartStep(s) \/ DisableStep(s)
          BY <4>3 DEF StartStep, DisableStep, accounts
        <4> QED BY <3>1, <3>5, <4>1, <4>2, <4>3 DEF ApplyNext, RmNext, QuietStep, FileStep
      <3> QED BY <3>3, <3>4, <3>5
    <2>3. CASE \E i \in AdminIds : AdminAddsUser(i)
      BY <2>1, <2>3 DEF AdminAddsUser
    <2> QED BY <1>2, <2>2, <2>3
            DEF Next, BeginApply, BeginRm, Start_, AdminChmods, AppWrites, accounts, vars, host
  <1>3. Inv /\ ForeignInv /\ [Next]_vars => ForeignInv'
    BY NextKeepsForeign
  <1> QED BY <1>1, <1>2, <1>3, InitInv, NextInv, PTL DEF Spec, ForeignKept

-----------------------------------------------------------------------------
(* What a reported apply means for the files.                              *)

\* A unit's files are what the target renders to.
DeployedAs(n, t) ==
    /\ Exists(Env(n))
    /\ \A f \in RenderedFiles(n, t) : file[f] = Rendered(n, t, file[Env(n)], f)
    /\ \A f \in FilesIn(App(n)) : Exists(f) => f \in RenderedFiles(n, t)

Pending(verb, f) == \E s \in job.todo : s.verb = verb /\ s.on = f

\* What an apply has not put right yet is on its list, and what it has is not.
Underway ==
    /\ job.secret # None
    /\ \A f \in RenderedFiles(job.unit, job.target) :
          \/ file[f] = Rendered(job.unit, job.target, job.secret, f)
          \/ Pending("write", f)
    /\ \A f \in FilesIn(App(job.unit)) : Exists(f) =>
          f \in RenderedFiles(job.unit, job.target) \/ Pending("rm", f)
    /\ \A s \in job.todo :
          /\ s.verb = "write" => s.on \in RenderedFiles(job.unit, job.target)
          /\ s.verb = "rm" => s.on \notin RenderedFiles(job.unit, job.target)

UnderwayInv ==
    job # None /\ job.op = "apply" => (\A s \in job.todo : s.verb = "plan") \/ Underway

\* The files of the units reported as deployed are right.
FilesRight == \A n \in Names : Applied(n) => DeployedAs(n, told[n])

DeployInv ==
    /\ told \in [Names -> {None, Gone} \cup Targets]
    /\ FilesRight
    /\ job # None => told[job.unit] = None

-----------------------------------------------------------------------------
(* Files and plans.                                                        *)

\* What a unit renders to are files, named after it, and not its app's data,
\* its environment or the marker of it.
LEMMA RenderedNames ==
    ASSUME NEW n \in Names, NEW t \in Targets, NEW f \in RenderedFiles(n, t)
    PROVE  /\ f \in Files /\ f \in OwnFiles(n) /\ f[2] \in IdsOf(n)
           /\ f # Marker(n) /\ f # Cache(n) /\ \A m : f # Data(m)
  <1>1. f \in OwnFiles(n) /\ f[2] \in IdsOf(n)
    BY RenderedShape, OwnNames DEF OwnFiles
  <1>2. n \in Ids /\ Gw[n] \in Ids
    BY NamesAssumption
  <1>3. f \in Files
    BY <1>2, RenderedShape DEF Files, IdsOf
  <1>4. f # Marker(n) /\ f # Cache(n) /\ \A m : f # Data(m)
    BY RenderedShape DEF Vhost, Env, Service, Page, Marker, Cache, Data
  <1> QED BY <1>1, <1>3, <1>4

\* Its environment is the secret.
LEMMA RenderedEnv ==
    ASSUME NEW n, NEW t, NEW secret
    PROVE  /\ Env(n) \in RenderedFiles(n, t)
           /\ Rendered(n, t, secret, Env(n)) = secret
  <1>1. Env(n) # Vhost(n) /\ Env(n) # Service(n) /\ Env(n) # Service(Gw[n])
    BY DEF Env, Vhost, Service
  <1> QED BY <1>1, Zenon DEF Rendered, RenderedFiles

\* So are the files of its directory.
LEMMA PayloadNames ==
    ASSUME NEW n \in Names, NEW f \in FilesIn(App(n))
    PROVE  /\ f \in Files /\ f[2] \in IdsOf(n)
           /\ f # Marker(n) /\ f # Cache(n) /\ f # Env(n) /\ \A m : f # Data(m)
  <1>1. PICK p \in Pages : f = Page(n, p)
    BY PayloadFiles
  <1> QED BY <1>1 DEF FilesIn, IdsOf, Page, Marker, Cache, Env, Data

\* A change of other files leaves a unit deployed.
LEMMA StaysDeployed ==
    ASSUME NEW n \in Names, NEW t \in Targets, DeployedAs(n, t),
           \A f \in Files : file'[f] # file[f] => f[2] \notin IdsOf(n) \/ \E m : f = Data(m)
    PROVE  DeployedAs(n, t)'
  <1>1. Env(n) \in RenderedFiles(n, t)
    BY DEF RenderedFiles
  <1>2. \A f \in RenderedFiles(n, t) \cup FilesIn(App(n)) : file'[f] = file[f]
    BY RenderedNames, PayloadNames
  <1>3. \A f : Rendered(n, t, file[Env(n)], f)' = Rendered(n, t, file[Env(n)], f)
    BY <1>1, <1>2 DEF Rendered
  <1> QED BY <1>1, <1>2, <1>3 DEF DeployedAs, Exists

\* Whatever a command on another unit changes leaves a unit deployed.
LEMMA OthersStayDeployed ==
    ASSUME Apart, NEW k \in Names, OnlyOwn(k), NEW n \in Names \ {k}, NEW t \in Targets,
           DeployedAs(n, t)
    PROVE  DeployedAs(n, t)'
  <1>1. \A f \in Files : file'[f] # file[f] => f[2] \notin IdsOf(n)
    BY DEF OnlyOwn, Apart
  <1> QED BY <1>1, StaysDeployed

\* The writes of a plan are of rendered files, its removals of others.
LEMMA BuildFiles ==
    ASSUME NEW n \in Names, NEW t \in Targets, NEW secret,
           NEW s \in Build(n, t, secret) \cup Ending(n)
    PROVE  /\ s.verb = "write" => s.on \in ToWrite(n, t, secret)
           /\ s.verb = "rm" => s.on \in Stale(n, t)
  <1> DEFINE Other(r) == r.verb \notin {"write", "rm"}
  <1>0. \A at, verb, on : verb \notin {"write", "rm"} => Other(Action(at, verb, on))
    BY DEF Action
  <1>1. CASE s \in WriteActions(n, t, secret)
    BY <1>1 DEF WriteActions, Action
  <1>2. CASE s \in StaleActions(n, t)
    <2>1. "rm temp" \notin {"write", "rm"}
      BY Zenon
    <2>2. \A f : Other(Action(14, "rm temp", f))
      BY <1>0, <2>1, Zenon
    <2>3. CASE \E f \in Stale(n, t) : s = Action(14, "rm", f)
      BY <2>3 DEF Action
    <2> HIDE DEF Other
    <2>4. \/ \E f \in Stale(n, t) : s = Action(14, "rm", f)
          \/ Other(s)
      BY <1>2, <2>2, Zenon DEF StaleActions
    <2> QED BY <2>3, <2>4 DEF Other
  <1>3. CASE s \in UserActions(n) \cup DirectoryActions(n) \cup DependencyActions(n, t, secret)
                  \cup ChgrpActions(n) \cup ChownActions(n)
    <2>1. Other(s)
      BY <1>0, <1>3 DEF UserActions, DirectoryActions, MkdirActions, DependencyActions,
                        ChgrpActions, ChownActions, When
    <2> QED BY <2>1
  <1>4. CASE s \in GroupActions(n, t) \cup ServiceActions(n) \cup Ending(n)
    <2> HIDE DEF Other
    <2>1. /\ "restart caddy" \notin {"write", "rm"} /\ "join" \notin {"write", "rm"}
          /\ "leave" \notin {"write", "rm"} /\ "daemon-reload" \notin {"write", "rm"}
          /\ "start" \notin {"write", "rm"} /\ "reload caddy" \notin {"write", "rm"}
          /\ "commit" \notin {"write", "rm"} /\ "flush" \notin {"write", "rm"}
          /\ "print" \notin {"write", "rm"}
      BY Zenon
    <2>2. ASSUME s \in GroupActions(n, t)
          PROVE  Other(s)
      BY <1>0, <2>1, <2>2, Zenon DEF GroupActions, When
    <2>3. ASSUME s \in ServiceActions(n)
          PROVE  Other(s)
      BY <1>0, <2>1, <2>3, Zenon DEF ServiceActions
    <2>4. ASSUME s \in Ending(n)
          PROVE  Other(s)
      BY <1>0, <2>1, <2>4, Zenon DEF Ending
    <2> QED BY <1>4, <2>2, <2>3, <2>4 DEF Other
  <1> QED BY <1>1, <1>2, <1>3, <1>4 DEF Build, Changes, When

-----------------------------------------------------------------------------
(* The steps of an apply.                                                  *)

\* A plan has on its list all that is not right.
LEMMA PutUnderway ==
    ASSUME Inv, NEW s, PutIncomplete(s), job.op = "apply"
    PROVE  Underway' /\ job'.unit = job.unit /\ UNCHANGED <<file, told>>
  <1> DEFINE n == job.unit
             t == job.target
  <1>0. job # None /\ n \in Names /\ t \in Targets
    BY DEF PutIncomplete, Doing, First, Inv, Typed
  <1>1. PICK secret \in SecretsFor(n) :
            job' = [job EXCEPT !.secret = secret, !.fresh = ~Reused(n),
                               !.todo = Build(n, t, secret) \cup Ending(n)]
    BY DEF PutIncomplete
  <1>2. /\ job'.unit = n /\ job'.target = t /\ job'.secret = secret
        /\ job'.todo = Build(n, t, secret) \cup Ending(n)
    BY <1>0, <1>1 DEF Inv, Typed, JobFields
  <1>3. UNCHANGED <<file, told>>
    BY DEF PutIncomplete, host, tree
  <1>4. secret # None
    BY TokensAssumption DEF SecretsFor, Reused, Exists
  <1>5. ASSUME NEW f \in RenderedFiles(n, t), file[f] # Rendered(n, t, secret, f)
        PROVE  \E r \in job'.todo : r.verb = "write" /\ r.on = f
    <2>1. Action(WriteAt(n, f), "write", f) \in job'.todo
      BY <1>2, <1>5 DEF Build, Changes, WriteActions, ToWrite
    <2> QED BY <2>1 DEF Action
  <1>6. ASSUME NEW f \in FilesIn(App(n)), Exists(f), f \notin RenderedFiles(n, t)
        PROVE  \E r \in job'.todo : r.verb = "rm" /\ r.on = f
    <2>1. Action(14, "rm", f) \in job'.todo
      BY <1>2, <1>6 DEF Build, Changes, StaleActions, Stale
    <2> QED BY <2>1 DEF Action
  <1>7. \A r \in job'.todo : /\ r.verb = "write" => r.on \in RenderedFiles(n, t)
                             /\ r.verb = "rm" => r.on \notin RenderedFiles(n, t)
    BY <1>0, <1>2, BuildFiles DEF ToWrite, Stale
  <1>8. /\ job'.secret # None
        /\ \A f \in RenderedFiles(job'.unit, job'.target) :
              \/ file'[f] = Rendered(job'.unit, job'.target, job'.secret, f)
              \/ Pending("write", f)'
        /\ \A f \in FilesIn(App(job'.unit)) : file'[f] # None =>
              f \in RenderedFiles(job'.unit, job'.target) \/ Pending("rm", f)'
        /\ \A r \in job'.todo :
              /\ r.verb = "write" => r.on \in RenderedFiles(job'.unit, job'.target)
              /\ r.verb = "rm" => r.on \notin RenderedFiles(job'.unit, job'.target)
    BY <1>2, <1>3, <1>4, <1>5, <1>6, <1>7 DEF Pending, Exists
  <1>9. Underway'
    BY <1>8 DEF Underway, Exists, Rendered, FilesIn
  <1> QED BY <1>2, <1>3, <1>9

\* The step that has been done is the one that was to be done.
LEMMA StepUnderway ==
    ASSUME Inv, Applying, Underway, NEW s \in job.todo, ApplyStep(s) \/ CommitStep(s)
    PROVE  Underway'
  <1> DEFINE n == job.unit
             t == job.target
  <1>0. /\ n \in Names /\ t \in Targets /\ DOMAIN file = Files
        /\ ApplyActionOf(n, s)
    BY DEF Inv, Typed, Applying
  <1>1. Done(s)
    BY DEF ApplyStep, CommitStep, UserStep, MkdirStep, ChmodStep, WriteStep, StaleStep, UnmarkStep,
         SyncStep, MarkStep, GiveStep, JoinStep, LeaveStep, RestartCaddyStep, DaemonReloadStep,
         StartStep, ReloadCaddyStep, FlushStep, SweepStep
  <1>2. /\ job'.unit = n /\ job'.target = t /\ job'.secret = job.secret
        /\ job'.todo = job.todo \ {s}
    BY <1>1 DEF Inv, Typed, Applying, Done, JobFields
  <1>3. SUFFICES
          /\ \A f \in RenderedFiles(n, t) :
                \/ file'[f] = file[f] /\ (s.verb = "write" => s.on # f)
                \/ file'[f] = Rendered(n, t, job.secret, f)
          /\ \A f \in FilesIn(App(n)) :
                \/ file'[f] = file[f] /\ (s.verb = "rm" => s.on # f)
                \/ file'[f] = None \/ f \in RenderedFiles(n, t)
    <2>1. \A f : Pending("write", f) => Pending("write", f)' \/ (s.verb = "write" /\ s.on = f)
      BY <1>2 DEF Pending
    <2>2. \A f : Pending("rm", f) => Pending("rm", f)' \/ (s.verb = "rm" /\ s.on = f)
      BY <1>2 DEF Pending
    <2>3. \A f \in RenderedFiles(n, t) :
             \/ file'[f] = Rendered(n, t, job.secret, f)
             \/ Pending("write", f)'
      BY <1>3, <2>1 DEF Underway
    <2>4. \A f \in FilesIn(App(n)) : Exists(f)' => f \in RenderedFiles(n, t) \/ Pending("rm", f)'
      BY <1>3, <2>2 DEF Underway, Exists
    <2> QED BY <1>2, <2>3, <2>4 DEF Underway, Rendered, FilesIn
  <1>4. CASE WriteStep(s)
    <2>1. /\ s.verb = "write" /\ s.on \in RenderedFiles(n, t)
          /\ file' = [file EXCEPT ![s.on] = Rendered(n, t, job.secret, s.on)]
      BY <1>4 DEF WriteStep, Doing, Write, Underway
    <2>2. s.on \in Files
      BY <1>0, <2>1, RenderedNames
    <2>3. \A f \in Files : f # s.on => file'[f] = file[f]
      BY <1>0, <2>1, <2>2
    <2> QED BY <1>0, <2>1, <2>2, <2>3, RenderedNames, PayloadNames
  <1>5. CASE StaleStep(s)
    <2>1. /\ s.verb = "rm" /\ s.on \notin RenderedFiles(n, t)
          /\ file' = [file EXCEPT ![s.on] = None]
      BY <1>5 DEF StaleStep, Doing, Remove, Underway
    <2> QED BY <1>0, <2>1, RenderedNames, PayloadNames
  <1>6. CASE UnmarkStep(s) \/ SyncStep(s) \/ MarkStep(s)
    <2>1. /\ s.verb \in {"unmark", "sync", "mark"}
          /\ \E content : file' = [file EXCEPT ![s.on] = content]
      BY <1>6 DEF UnmarkStep, SyncStep, MarkStep, Doing, Write, Remove
    <2>2. s.on \in {Marker(n), Cache(n)}
      BY <1>0, <2>1 DEF ApplyActionOf
    <2> QED BY <1>0, <2>1, <2>2, RenderedNames, PayloadNames
  <1>7. CASE ~FileStep(s)
    <2>1. UNCHANGED file
      BY <1>7, QuietSteps DEF QuietStep, FileStep, ApplyStep, UserStep, StartStep, Start, tree
    <2>2. s.verb \notin {"write", "rm"}
      BY <1>7 DEF FileStep, ApplyStep, CommitStep, UserStep, MkdirStep, ChmodStep, GiveStep, JoinStep,
         LeaveStep, RestartCaddyStep, DaemonReloadStep, StartStep, ReloadCaddyStep, FlushStep,
         SweepStep, Doing
    <2> QED BY <2>1, <2>2
  <1> QED BY <1>4, <1>5, <1>6, <1>7 DEF FileStep

\* When the summary is printed nothing is left on the list.
LEMMA PrintDeployed ==
    ASSUME Inv, ClosingInv, UnderwayInv, job # None, NEW s \in job.todo, PrintStep(s)
    PROVE  DeployedAs(job.unit, job.target) /\ job.target \in Targets
  <1> DEFINE n == job.unit
             t == job.target
  <1>0. s.verb = "print" /\ \A r \in job.todo : s.at <= r.at
    BY DEF PrintStep, Doing, First
  <1>1. Applying
    BY <1>0, Phases DEF RmVerbs
  <1>2. Underway /\ \A r \in job.todo : Placed(n, r)
    BY <1>0, <1>1 DEF Applying, UnderwayInv, ClosingInv
  <1>3. n \in Names /\ t \in Targets
    BY <1>1 DEF Applying, Inv, Typed
  <1>4. s.at = 29
    BY <1>0, <1>2 DEF Placed, Ending, Action
  <1>5. \A r \in job.todo : r.verb \notin {"write", "rm"}
    <2> SUFFICES ASSUME NEW r \in job.todo, r.verb \in {"write", "rm"} PROVE FALSE
      OBVIOUS
    <2>1. r \notin Ending(n)
      BY DEF Ending, Action
    <2>2. r.at \in 1..26 /\ 29 <= r.at
      BY <1>0, <1>2, <1>4, <2>1 DEF Placed
    <2> QED BY <2>2
  <1>6. \A f : ~Pending("write", f) /\ ~Pending("rm", f)
    BY <1>5 DEF Pending
  <1>7. \A f \in RenderedFiles(n, t) : file[f] = Rendered(n, t, job.secret, f)
    BY <1>2, <1>6 DEF Underway
  <1>8. file[Env(n)] = job.secret /\ job.secret # None
    BY <1>2, <1>7, RenderedEnv DEF Underway
  <1> QED BY <1>2, <1>3, <1>6, <1>7, <1>8 DEF Underway, DeployedAs, Exists

\* When there is nothing to do, everything is right.
LEMMA NoChangesDeployed ==
    ASSUME Inv, job # None, NEW s \in job.todo, NoChanges(s)
    PROVE  DeployedAs(job.unit, job.target) /\ job.target \in Targets
  <1> DEFINE n == job.unit
             t == job.target
  <1>0. job.op = "apply"
    BY Phases DEF NoChanges, Doing, ApplyVerbs, RmVerbs
  <1>1. n \in Names /\ t \in Targets
    BY <1>0 DEF Inv, Typed
  <1>2. PICK secret \in SecretsFor(n) : Build(n, t, secret) = {}
    BY DEF NoChanges
  <1>3. secret # None
    BY TokensAssumption DEF SecretsFor, Reused, Exists
  <1>4. ToWrite(n, t, secret) = {} /\ Stale(n, t) = {}
    <2>1. WriteActions(n, t, secret) = {} /\ StaleActions(n, t) = {}
      BY <1>2 DEF Build, Changes
    <2> QED BY <2>1 DEF WriteActions, StaleActions
  <1>5. \A f \in RenderedFiles(n, t) : file[f] = Rendered(n, t, secret, f)
    BY <1>4 DEF ToWrite
  <1>6. file[Env(n)] = secret
    BY <1>5, RenderedEnv
  <1> QED BY <1>1, <1>3, <1>4, <1>5, <1>6 DEF DeployedAs, Exists, Stale

-----------------------------------------------------------------------------
(* Every step.                                                             *)

\* A step that is done reports nothing.
LEMMA DoneKeepsDeployed ==
    ASSUME Apart, Inv, DeployInv, job # None, NEW s \in job.todo, Done(s),
           ApplyNext(s) \/ RmNext(s)
    PROVE  DeployInv'
  <1>1. job' # None => job'.unit = job.unit /\ job'.op = job.op
    BY DoneJob DEF Inv, Typed, JobTyped
  <1>2. told' = told /\ job.unit \in Names
    BY DEF Done, Inv, Typed
  <1>3. OnlyOwn(job.unit)
    BY CommandOwn
  <1>4. FilesRight'
    <2> SUFFICES ASSUME NEW n \in Names, Applied(n) PROVE DeployedAs(n, told[n])'
      BY <1>2 DEF Applied, FilesRight, DeployedAs
    <2>1. n # job.unit /\ told[n] \in Targets
      BY ReportsAssumption DEF DeployInv, Applied
    <2>2. DeployedAs(n, told[n])
      BY DEF DeployInv, FilesRight
    <2>3. PICK t \in Targets : t = told[n]
      BY <2>1
    <2>4. DeployedAs(n, t)'
      BY <1>2, <1>3, <2>1, <2>2, <2>3, OthersStayDeployed
    <2> QED BY <1>2, <2>3, <2>4 DEF DeployedAs
  <1> QED BY <1>1, <1>2, <1>4 DEF DeployInv

\* A report is right.
LEMMA ReportKeepsDeployed ==
    ASSUME Inv, DeployInv, job # None, UNCHANGED file, job' = None, NEW report,
           told' = [told EXCEPT ![job.unit] = report],
           \/ report \in {None, Gone}
           \/ report \in Targets /\ DeployedAs(job.unit, report)
    PROVE  DeployInv'
  <1>1. told' \in [Names -> {None, Gone} \cup Targets] /\ job.unit \in Names
    BY DEF DeployInv, Inv, Typed
  <1>2. \A n \in Names : told'[n] \in Targets => DeployedAs(n, told'[n])
    <2> SUFFICES ASSUME NEW n \in Names, told'[n] \in Targets PROVE DeployedAs(n, told'[n])
      OBVIOUS
    <2>1. CASE n = job.unit
      BY <1>1, <2>1, ReportsAssumption DEF DeployInv
    <2>2. CASE n # job.unit
      BY <1>1, <2>2 DEF DeployInv, FilesRight, Applied
    <2> QED BY <2>1, <2>2
  <1>3. FilesRight'
    BY <1>2 DEF FilesRight, Applied, DeployedAs, Exists, Rendered, FilesIn
  <1> QED BY <1>1, <1>3 DEF DeployInv

\* Every step of a command keeps on its list what is not right.
LEMMA CommandKeepsUnderway ==
    ASSUME Inv, UnderwayInv, job # None, NEW s \in job.todo, ApplyNext(s) \/ RmNext(s) \/ Rejected(s) \/ Fault(s)
    PROVE  UnderwayInv'
  <1>1. CASE \/ Refuse(s) \/ NoChanges(s) \/ PrintStep(s) \/ Rejected(s) \/ Fault(s)
             \/ NotFound(s) \/ PruneStep(s)
    <2>1. job' = None
      BY <1>1 DEF Refuse, NoChanges, PrintStep, Rejected, Fault, NotFound, PruneStep, Exit
    <2> QED BY <2>1 DEF UnderwayInv
  <1>2. CASE PutIncomplete(s)
    <2>1. job.op = "apply"
      BY <1>2, Phases DEF PutIncomplete, Doing, ApplyVerbs, RmVerbs
    <2> QED BY <1>2, <2>1, PutUnderway DEF UnderwayInv
  <1>3. CASE LoadUnit(s)
    <2>1. job.op = "rm"
      BY <1>3, Phases DEF LoadUnit, Doing, ApplyVerbs, RmVerbs
    <2>2. job'.op = "rm"
      BY <1>3, <2>1 DEF LoadUnit, Inv, Typed, JobFields
    <2> QED BY <2>2 DEF UnderwayInv
  <1>4. CASE ApplyStep(s) \/ CommitStep(s) \/ RmStep(s) \/ DropStep(s)
    <2>1. Done(s) /\ s.verb \notin {"plan", "load"}
      BY <1>4 DEF ApplyStep, RmStep, UserStep, MkdirStep, ChmodStep, WriteStep, StaleStep, UnmarkStep,
         SyncStep, MarkStep, GiveStep, JoinStep, LeaveStep, RestartCaddyStep, DaemonReloadStep,
         StartStep, ReloadCaddyStep, FlushStep, SweepStep, DisableStep, RemoveTreeStep, UserdelStep,
         CommitStep, DropStep, Doing
    <2>2. job'.op = job.op
      BY <2>1, DoneJob DEF Inv, Typed, JobTyped
    <2>3. ASSUME job.op = "apply"
          PROVE  Underway'
      <3>1. Applying /\ s.verb \in ApplyVerbs
        BY <2>1, <2>3, Phases DEF Removing
      <3>2. Underway
        BY <2>1, <2>3 DEF UnderwayInv
      <3>3. ApplyStep(s) \/ CommitStep(s)
        BY <1>4, <3>1 DEF RmStep, ApplyStep, DisableStep, RemoveTreeStep, UserdelStep, DropStep,
                          Doing, ApplyVerbs
      <3> QED BY <3>1, <3>2, <3>3, StepUnderway
    <2> QED BY <2>2, <2>3 DEF UnderwayInv
  <1> QED BY <1>1, <1>2, <1>3, <1>4 DEF ApplyNext, RmNext, ApplyStep, RmStep

\* So does every step of the specification, and every stutter.
LEMMA NextKeepsUnderway == Inv /\ UnderwayInv /\ [Next]_vars => UnderwayInv'
  <1> SUFFICES ASSUME Inv, UnderwayInv, [Next]_vars PROVE UnderwayInv'
    OBVIOUS
  <1>1. CASE \E n \in Names : BeginRm(n) \/ \E t \in Targets : BeginApply(n, t)
    <2>1. job'.op = "apply" => \A s \in job'.todo : s.verb = "plan"
      BY <1>1 DEF BeginRm, BeginApply, Start_, Action
    <2> QED BY <2>1 DEF UnderwayInv
  <1>2. CASE \E s \in Todo : ApplyNext(s) \/ RmNext(s) \/ Rejected(s) \/ Fault(s)
    BY <1>2, CommandKeepsUnderway DEF Todo
  <1>3. CASE \E m \in Writers : AppWrites(m)
    <2>1. PICK m \in Writers : AppWrites(m)
      BY <1>3
    <2>2. UNCHANGED job /\ \A f \in Files : file'[f] # file[f] => f = Data(m)
      BY <2>1 DEF AppWrites, Inv, Typed
    <2>3. ASSUME job # None, job.op = "apply", Underway
          PROVE  Underway'
      <3>1. job.unit \in Names /\ job.target \in Targets
        BY <2>3 DEF Inv, Typed
      <3>2. /\ \A f \in RenderedFiles(job.unit, job.target) : file'[f] = file[f]
            /\ \A f \in FilesIn(App(job.unit)) : file'[f] = file[f]
        BY <2>2, <3>1, RenderedNames, PayloadNames
      <3> QED BY <2>2, <2>3, <3>2 DEF Underway, Pending, Exists, Rendered, FilesIn
    <2> QED BY <2>2, <2>3 DEF UnderwayInv
  <1>4. CASE \/ \E id \in AdminIds : AdminAddsUser(id)
             \/ \E n \in AdminNames : AdminChmods(n)
             \/ UNCHANGED vars
    <2>1. UNCHANGED <<file, job>>
      BY <1>4 DEF AdminAddsUser, AdminChmods, vars, host, tree
    <2> QED BY <2>1 DEF UnderwayInv, Underway, Pending, Exists, Rendered, FilesIn
  <1> QED BY <1>1, <1>2, <1>3, <1>4 DEF Next

\* Every step of a command keeps every reported unit deployed.
LEMMA CommandKeepsDeployed ==
    ASSUME Apart, Inv, ClosingInv, UnderwayInv, DeployInv, job # None, NEW s \in job.todo,
           ApplyNext(s) \/ RmNext(s) \/ Rejected(s) \/ Fault(s)
    PROVE  DeployInv'
  <1>1. CASE Refuse(s) \/ Rejected(s) \/ Fault(s)
    <2>1. UNCHANGED <<file, told>> /\ job' = None
      BY <1>1 DEF Refuse, Rejected, Fault, Exit, tree
    <2>2. told' = [told EXCEPT ![job.unit] = None]
      BY <2>1 DEF DeployInv
    <2> QED BY <2>1, <2>2, ReportKeepsDeployed
  <1>2. CASE NotFound(s) \/ PruneStep(s)
    <2>1. UNCHANGED file /\ job' = None /\ told' = [told EXCEPT ![job.unit] = Gone]
      BY <1>2, QuietSteps DEF NotFound, PruneStep, QuietStep
    <2> QED BY <2>1, ReportKeepsDeployed
  <1>3. CASE NoChanges(s) \/ PrintStep(s)
    <2>1. UNCHANGED file /\ job' = None /\ told' = [told EXCEPT ![job.unit] = job.target]
      BY <1>3 DEF NoChanges, PrintStep, Exit, tree
    <2>2. job.target \in Targets /\ DeployedAs(job.unit, job.target)
      BY <1>3, NoChangesDeployed, PrintDeployed
    <2> QED BY <2>1, <2>2, ReportKeepsDeployed
  <1>4. CASE PutIncomplete(s) \/ LoadUnit(s)
    <2>1. job'.unit = job.unit /\ UNCHANGED <<file, told>>
      <3>1. CASE LoadUnit(s)
        BY <3>1 DEF LoadUnit, Inv, Typed, JobFields, host, tree
      <3>2. CASE PutIncomplete(s)
        BY <3>2, PutUnderway, Phases DEF PutIncomplete, Doing, ApplyVerbs, RmVerbs
      <3> QED BY <1>4, <3>1, <3>2
    <2>2. FilesRight'
      BY <2>1 DEF DeployInv, FilesRight, Applied, DeployedAs, Exists, Rendered, FilesIn
    <2> QED BY <2>1, <2>2 DEF DeployInv
  <1>5. CASE ApplyStep(s) \/ CommitStep(s) \/ RmStep(s) \/ DropStep(s)
    <2>1. Done(s)
      BY <1>5 DEF ApplyStep, RmStep, UserStep, MkdirStep, ChmodStep, WriteStep, StaleStep, UnmarkStep,
         SyncStep, MarkStep, GiveStep, JoinStep, LeaveStep, RestartCaddyStep, DaemonReloadStep,
         StartStep, ReloadCaddyStep, FlushStep, SweepStep, DisableStep, RemoveTreeStep, UserdelStep,
         CommitStep, DropStep
    <2>2. ApplyNext(s) \/ RmNext(s)
      BY <1>5 DEF ApplyStep, RmStep, ApplyNext, RmNext
    <2> QED BY <2>1, <2>2, DoneKeepsDeployed
  <1> QED BY <1>1, <1>2, <1>3, <1>4, <1>5 DEF ApplyNext, RmNext, ApplyStep, RmStep

\* So does every step of the specification, and every stutter.
LEMMA NextKeepsDeployed ==
    ASSUME Apart, Inv, ClosingInv, UnderwayInv, DeployInv, [Next]_vars
    PROVE  DeployInv'
  <1>1. CASE \E n \in Names : BeginRm(n) \/ \E t \in Targets : BeginApply(n, t)
    <2>1. PICK n \in Names : /\ UNCHANGED file /\ told' = [told EXCEPT ![n] = None]
                             /\ job'.unit = n
      BY <1>1 DEF BeginRm, BeginApply, Start_
    <2>2. told' \in [Names -> {None, Gone} \cup Targets] /\ told'[n] = None
      BY <2>1 DEF DeployInv
    <2>3. FilesRight'
      BY <2>1, ReportsAssumption DEF DeployInv, FilesRight, Applied, DeployedAs, Exists, Rendered, FilesIn
    <2> QED BY <2>1, <2>2, <2>3 DEF DeployInv
  <1>2. CASE \E s \in Todo : ApplyNext(s) \/ RmNext(s) \/ Rejected(s) \/ Fault(s)
    BY <1>2, CommandKeepsDeployed DEF Todo
  <1>3. CASE \E m \in Writers : AppWrites(m)
    <2>1. PICK m \in Writers : AppWrites(m)
      BY <1>3
    <2>2. UNCHANGED <<job, told>> /\ \A f \in Files : file'[f] # file[f] => f = Data(m)
      BY <2>1 DEF AppWrites, Inv, Typed
    <2>3. FilesRight'
      <3> SUFFICES ASSUME NEW n \in Names, Applied(n) PROVE DeployedAs(n, told[n])'
        BY <2>2 DEF Applied, FilesRight, DeployedAs
      <3>1. PICK t \in Targets : t = told[n] /\ DeployedAs(n, t)
        BY DEF DeployInv, FilesRight, Applied
      <3>2. DeployedAs(n, t)'
        BY <2>2, <3>1, StaysDeployed
      <3> QED BY <2>2, <3>1, <3>2 DEF DeployedAs
    <2> QED BY <2>2, <2>3 DEF DeployInv
  <1>4. CASE \/ \E id \in AdminIds : AdminAddsUser(id)
             \/ \E n \in AdminNames : AdminChmods(n)
             \/ UNCHANGED vars
    <2>1. UNCHANGED <<file, told, job>>
      BY <1>4 DEF AdminAddsUser, AdminChmods, vars, host, tree
    <2> QED BY <2>1 DEF DeployInv, FilesRight, Applied, DeployedAs, Exists, Rendered, FilesIn
  <1> QED BY <1>1, <1>2, <1>3, <1>4 DEF Next

-----------------------------------------------------------------------------
(* And for temporary files.                                                *)

\* No reported unit has one beside its pages, and every one that the unit of an
\* apply has is on the list of it.
SweptInv ==
    /\ \A n \in Names : Applied(n) => TempsIn(App(n)) = {}
    /\ job # None /\ job.op = "apply" =>
        \/ \A s \in job.todo : s.verb = "plan"
        \/ \A f \in TempsIn(App(job.unit)) : Pending("rm temp", f)

\* The temporary files of a plan are on its list.
LEMMA BuildSweeps ==
    ASSUME NEW n, NEW t, NEW secret, NEW f \in TempsIn(App(n))
    PROVE  \E r \in Build(n, t, secret) : r.verb = "rm temp" /\ r.on = f
  <1>1. Action(14, "rm temp", f) \in Build(n, t, secret)
    BY DEF Build, Changes, StaleActions
  <1> QED BY <1>1 DEF Action

\* Only a failure leaves a temporary file.
LEMMA TempsShrink ==
    ASSUME NEW s, ApplyNext(s) \/ RmNext(s) \/ Rejected(s)
    PROVE  temps' \subseteq temps /\ (temps' # temps => FileStep(s) \/ SweepStep(s) \/ RemoveTreeStep(s))
  <1>1. CASE \/ Refuse(s) \/ NoChanges(s) \/ PrintStep(s) \/ Rejected(s)
             \/ PutIncomplete(s) \/ LoadUnit(s) \/ CommitStep(s) \/ DropStep(s) \/ FlushStep(s)
             \/ UserStep(s) \/ JoinStep(s) \/ LeaveStep(s) \/ RestartCaddyStep(s)
             \/ DaemonReloadStep(s) \/ ReloadCaddyStep(s) \/ DisableStep(s) \/ UserdelStep(s)
    BY <1>1 DEF Refuse, NoChanges, PrintStep, Rejected, PutIncomplete, LoadUnit, CommitStep,
       DropStep, FlushStep, UserStep, JoinStep, LeaveStep, RestartCaddyStep, DaemonReloadStep,
       ReloadCaddyStep, DisableStep, UserdelStep, host, tree
  <1>2. CASE MkdirStep(s) \/ ChmodStep(s) \/ GiveStep(s) \/ StartStep(s)
    BY <1>2 DEF MkdirStep, ChmodStep, GiveStep, StartStep, Mkdir, Chmod, GiveTree, Start
  <1>3. CASE FileStep(s)
    BY <1>3 DEF FileStep, WriteStep, StaleStep, UnmarkStep, SyncStep, MarkStep, Write, Remove
  <1>4. CASE SweepStep(s)
    BY <1>4 DEF SweepStep, RemoveTemp
  <1>5. CASE RemoveTreeStep(s)
    BY <1>5 DEF RemoveTreeStep, RemoveTree
  <1>6. CASE NotFound(s) \/ PruneStep(s)
    BY <1>6 DEF NotFound, PruneStep, PruneCreated
  <1> QED BY <1>1, <1>2, <1>3, <1>4, <1>5, <1>6 DEF ApplyNext, RmNext, FileStep

\* A sweep that is done has swept the file it names.
LEMMA DoneSweeps ==
    ASSUME Inv, SweptInv, job # None, job.op = "apply", NEW s \in job.todo, Done(s),
           ApplyNext(s), s.verb # "plan"
    PROVE  \A f \in TempsIn(App(job.unit))' : Pending("rm temp", f)'
  <1>1. job'.unit = job.unit /\ job'.todo = job.todo \ {s}
    BY DoneJob DEF Inv, Typed, JobTyped
  <1>2. temps' \subseteq temps
    BY TempsShrink
  <1>3. \A f \in TempsIn(App(job.unit)) : Pending("rm temp", f)
    BY DEF SweptInv
  <1>4. ASSUME s.verb = "rm temp" PROVE s.on \notin temps'
    <2>1. SweepStep(s)
      BY <1>4 DEF ApplyNext, Refuse, NoChanges, PutIncomplete, UserStep, MkdirStep, ChmodStep,
         WriteStep, StaleStep, UnmarkStep, SyncStep, MarkStep, GiveStep, JoinStep, LeaveStep,
         RestartCaddyStep, DaemonReloadStep, StartStep, ReloadCaddyStep, CommitStep, FlushStep,
         PrintStep, Doing
    <2> QED BY <2>1 DEF SweepStep, RemoveTemp
  <1>5. ASSUME NEW f \in TempsIn(App(job.unit))'
        PROVE  Pending("rm temp", f)'
    <2>1. f \in TempsIn(App(job.unit)) /\ f \in temps'
      BY <1>1, <1>2 DEF TempsIn, FilesIn
    <2>2. PICK r \in job.todo : r.verb = "rm temp" /\ r.on = f
      BY <1>3, <2>1 DEF Pending
    <2>3. r # s
      BY <1>4, <2>1, <2>2
    <2> QED BY <1>1, <2>2, <2>3 DEF Pending
  <1> QED BY <1>5

\* A report says there is none where there is none.
LEMMA ReportSwept ==
    ASSUME Inv, ClosingInv, SweptInv, job # None, NEW s \in job.todo, NoChanges(s) \/ PrintStep(s)
    PROVE  TempsIn(App(job.unit)) = {}
  <1>1. CASE NoChanges(s)
    <2>1. PICK secret : Build(job.unit, job.target, secret) = {}
      BY <1>1 DEF NoChanges
    <2> QED BY <2>1, BuildSweeps
  <1>2. CASE PrintStep(s)
    <2>0. s.verb = "print" /\ \A r \in job.todo : s.at <= r.at
      BY <1>2 DEF PrintStep, Doing, First
    <2>1. Applying
      BY <2>0, Phases DEF RmVerbs
    <2>2. \A r \in job.todo : Placed(job.unit, r)
      BY <2>0, <2>1 DEF Applying, ClosingInv
    <2>3. s.at = 29
      BY <2>0, <2>2 DEF Placed, Ending, Action
    <2>4. ASSUME NEW r \in job.todo, r.verb = "rm temp" PROVE FALSE
      <3>1. r \notin Ending(job.unit)
        <4>1. \A x \in Ending(job.unit) : x.verb \in {"commit", "flush", "print"}
          BY DEF Ending, Action
        <4>2. r.verb \notin {"commit", "flush", "print"}
          BY <2>4, Zenon
        <4> QED BY <4>1, <4>2
      <3>2. r.at \in 1..26 /\ 29 <= r.at
        BY <2>0, <2>2, <2>3, <3>1 DEF Placed
      <3> QED BY <3>2
    <2>5. \A f \in TempsIn(App(job.unit)) : Pending("rm temp", f)
      BY <2>0, <2>1 DEF Applying, SweptInv
    <2> QED BY <2>4, <2>5 DEF Pending
  <1> QED BY <1>1, <1>2

\* A step that leaves no new temporary file and makes no report but such a one.
LEMMA ReportsSwept ==
    ASSUME SweptInv, temps' \subseteq temps,
           \A n \in Names : told'[n] \in Targets => Applied(n) \/ TempsIn(App(n)) = {}
    PROVE  \A n \in Names : Applied(n)' => TempsIn(App(n))' = {}
  BY DEF SweptInv, Applied, TempsIn, FilesIn

\* Every step of a command keeps the reported units free of them.
LEMMA CommandKeepsSwept ==
    ASSUME Apart, Inv, ClosingInv, DeployInv, SweptInv, job # None, NEW s \in job.todo,
           ApplyNext(s) \/ RmNext(s) \/ Rejected(s) \/ Fault(s)
    PROVE  SweptInv'
  <1> DEFINE n == job.unit
  <1>0. n \in Names /\ told[n] = None /\ told \in [Names -> {None, Gone} \cup Targets]
    BY DEF Inv, Typed, DeployInv
  <1>1. CASE NoChanges(s) \/ PrintStep(s)
    <2>1. job' = None /\ temps' = temps /\ told' = [told EXCEPT ![n] = job.target]
      BY <1>1 DEF NoChanges, PrintStep, Exit, tree
    <2>2. TempsIn(App(n)) = {}
      BY <1>1, ReportSwept
    <2>3. \A m \in Names : told'[m] \in Targets => Applied(m) \/ TempsIn(App(m)) = {}
      BY <1>0, <2>1, <2>2 DEF Applied
    <2> QED BY <2>1, <2>3, ReportsSwept DEF SweptInv
  <1>2. CASE Refuse(s) \/ Rejected(s)
    <2>1. job' = None /\ UNCHANGED <<told, temps>>
      BY <1>2 DEF Refuse, Rejected, Exit, tree
    <2> QED BY <2>1, ReportsSwept DEF SweptInv, Applied
  <1>3. CASE NotFound(s) \/ PruneStep(s)
    <2>1. job' = None /\ temps' = temps /\ told' = [told EXCEPT ![n] = Gone]
      BY <1>3 DEF NotFound, PruneStep, PruneCreated
    <2>2. \A m \in Names : told'[m] \in Targets => Applied(m) \/ TempsIn(App(m)) = {}
      BY <1>0, <2>1, ReportsAssumption DEF Applied
    <2> QED BY <2>1, <2>2, ReportsSwept DEF SweptInv
  <1>4. CASE Fault(s)
    <2>1. job' = None /\ told' = told
      BY <1>4 DEF Fault, Exit
    <2>2. CASE temps' = temps
      BY <2>1, <2>2, ReportsSwept DEF SweptInv, Applied
    <2>3. CASE s.verb \in {"write", "mark"} /\ CutOff(s.on)
      <3>1. Applying
        BY <2>3, Phases DEF RmVerbs
      <3>2. s.on \in OwnFiles(n) /\ s.on[2] \in IdsOf(n)
        BY <1>0, <2>3, <3>1, StepShape, OwnNames DEF Applying
      <3>3. ASSUME NEW m \in Names, Applied(m) PROVE TempsIn(App(m))' = {}
        <4>1. m # n
          BY <1>0, <3>3, ReportsAssumption DEF Applied
        <4>2. TempsIn(App(m)) = {}
          BY <3>3 DEF SweptInv
        <4>3. s.on \notin FilesIn(App(m))
          BY <1>0, <3>2, <4>1, PayloadNames DEF Apart
        <4> QED BY <2>3, <4>2, <4>3 DEF CutOff, TempsIn, FilesIn
      <3> QED BY <2>1, <3>3 DEF SweptInv, Applied
    <2> QED BY <1>4, <2>2, <2>3 DEF Fault
  <1>5. CASE PutIncomplete(s)
    <2>1. UNCHANGED <<told, temps>> /\ job.op = "apply"
      BY <1>5, Phases DEF PutIncomplete, Doing, ApplyVerbs, RmVerbs, host, tree
    <2>6. UNCHANGED <<told, temps>> /\ job # None
      BY <1>5 DEF PutIncomplete, Doing, First, host, tree
    <2>2. PICK secret : job' = [job EXCEPT !.secret = secret, !.fresh = ~Reused(n),
                                           !.todo = Build(n, job.target, secret) \cup Ending(n)]
      BY <1>5 DEF PutIncomplete
    <2>3. job'.unit = n /\ job'.todo = Build(n, job.target, secret) \cup Ending(n)
      BY <2>2 DEF Inv, Typed, JobFields
    <2>4. \A f \in TempsIn(App(n)) : \E r \in job'.todo : r.verb = "rm temp" /\ r.on = f
      <3>1. PICK u, t : u = n /\ t = job.target
        OBVIOUS
      <3>2. ASSUME NEW f \in TempsIn(App(u))
            PROVE  \E r \in Build(u, t, secret) : r.verb = "rm temp" /\ r.on = f
        <4>1. Action(14, "rm temp", f) \in Build(u, t, secret)
          BY DEF Build, Changes, StaleActions
        <4> QED BY <4>1 DEF Action
      <3>3. Build(u, t, secret) \subseteq job'.todo
        BY <2>3, <3>1
      <3>4. \A f \in TempsIn(App(u)) : \E r \in job'.todo : r.verb = "rm temp" /\ r.on = f
        BY <3>2, <3>3, Zenon
      <3> QED BY <3>1, <3>4, Zenon
    <2>5. \A f \in TempsIn(App(job.unit))' : Pending("rm temp", f)'
      BY <2>6, <2>3, <2>4 DEF Pending, TempsIn, FilesIn
    <2> QED BY <2>1, <2>5, ReportsSwept DEF SweptInv, Applied
  <1>6. CASE LoadUnit(s)
    <2>1. UNCHANGED <<told, temps>> /\ job.op = "rm"
      BY <1>6, Phases DEF LoadUnit, Doing, ApplyVerbs, RmVerbs, host, tree
    <2>2. job'.op = "rm"
      BY <1>6, <2>1 DEF LoadUnit, Inv, Typed, JobFields
    <2> QED BY <2>1, <2>2, ReportsSwept DEF SweptInv, Applied
  <1>7. CASE ApplyStep(s) \/ CommitStep(s) \/ RmStep(s) \/ DropStep(s)
    <2>1. Done(s) /\ s.verb \notin {"plan", "load"}
      BY <1>7 DEF ApplyStep, RmStep, UserStep, MkdirStep, ChmodStep, WriteStep, StaleStep, UnmarkStep,
         SyncStep, MarkStep, GiveStep, JoinStep, LeaveStep, RestartCaddyStep, DaemonReloadStep,
         StartStep, ReloadCaddyStep, FlushStep, SweepStep, DisableStep, RemoveTreeStep, UserdelStep,
         CommitStep, DropStep, Doing
    <2>2. job'.op = job.op /\ told' = told
      BY <2>1, DoneJob DEF Done, Inv, Typed, JobTyped
    <2>3. temps' \subseteq temps
      BY <1>7, TempsShrink DEF ApplyStep, RmStep, ApplyNext, RmNext
    <2>4. ASSUME job.op = "apply"
          PROVE  \A f \in TempsIn(App(job.unit))' : Pending("rm temp", f)'
      <3>1. Applying /\ s.verb \in ApplyVerbs
        BY <2>1, <2>4, Phases DEF Removing
      <3>2. ApplyNext(s)
        BY <1>7, <3>1 DEF RmStep, ApplyStep, ApplyNext, DisableStep, RemoveTreeStep, UserdelStep,
                          DropStep, Doing, ApplyVerbs
      <3> QED BY <2>1, <2>4, <3>2, DoneSweeps
    <2>5. \A m \in Names : Applied(m)' => TempsIn(App(m))' = {}
      BY <2>2, <2>3, ReportsSwept DEF Applied
    <2> QED BY <2>2, <2>4, <2>5 DEF SweptInv
  <1> QED BY <1>1, <1>2, <1>3, <1>4, <1>5, <1>6, <1>7 DEF ApplyNext, RmNext, ApplyStep, RmStep

\* So does every step of the specification, and every stutter.
LEMMA NextKeepsSwept ==
    ASSUME Apart, Inv, ClosingInv, DeployInv, SweptInv, [Next]_vars
    PROVE  SweptInv'
  <1>1. CASE \E n \in Names : BeginRm(n) \/ \E t \in Targets : BeginApply(n, t)
    <2>1. PICK n \in Names : told' = [told EXCEPT ![n] = None] /\ temps' = temps
      BY <1>1 DEF BeginRm, BeginApply, Start_
    <2>2. job'.op = "apply" => \A s \in job'.todo : s.verb = "plan"
      BY <1>1 DEF BeginRm, BeginApply, Start_, Action
    <2>3. \A m \in Names : told'[m] \in Targets => Applied(m)
      BY <2>1, ReportsAssumption DEF DeployInv, Applied
    <2> QED BY <2>1, <2>2, <2>3, ReportsSwept DEF SweptInv
  <1>2. CASE \E s \in Todo : ApplyNext(s) \/ RmNext(s) \/ Rejected(s) \/ Fault(s)
    BY <1>2, CommandKeepsSwept DEF Todo
  <1>3. CASE \/ \E id \in AdminIds : AdminAddsUser(id)
             \/ \E n \in AdminNames : AdminChmods(n)
             \/ \E n \in Writers : AppWrites(n)
             \/ UNCHANGED vars
    <2>1. UNCHANGED <<temps, told, job>>
      BY <1>3 DEF AdminAddsUser, AdminChmods, AppWrites, vars, host, tree
    <2> QED BY <2>1, ReportsSwept DEF SweptInv, Applied, Pending, TempsIn, FilesIn
  <1> QED BY <1>1, <1>2, <1>3 DEF Next

\* Where no gateway has the name of another unit: whatever failed before, in the
\* middle of a write or between two steps, and whatever else was applied or
\* removed, a unit the operator was told is deployed has exactly the files its
\* target renders to, and no temporary one beside them (Promises.FilesDeployed).
THEOREM Deployed == Apart => (Spec => []FilesDeployed)
  <1> SUFFICES ASSUME Apart PROVE Spec => []FilesDeployed
    OBVIOUS
  <1>1. Init => ClosingInv /\ UnderwayInv /\ DeployInv /\ SweptInv
    BY ReportsAssumption
       DEF Init, ClosingInv, UnderwayInv, DeployInv, SweptInv, FilesRight, Applied
  <1>2. Inv /\ ClosingInv /\ UnderwayInv /\ DeployInv /\ [Next]_vars => DeployInv'
    BY NextKeepsDeployed
  <1>3. Inv /\ ClosingInv /\ DeployInv /\ SweptInv /\ [Next]_vars => SweptInv'
    BY NextKeepsSwept
  <1>4. DeployInv /\ SweptInv => FilesDeployed
    BY DEF DeployInv, SweptInv, FilesRight, DeployedAs, FilesDeployed
  <1> QED BY <1>1, <1>2, <1>3, <1>4, InitInv, NextInv, NextKeepsClosing, NextKeepsUnderway, PTL
          DEF Spec
=============================================================================
