------------------------------ MODULE Promises ------------------------------
(***************************************************************************)
(* What `apply` and `rm` promise: the type invariant, what has to be true  *)
(* of the host whenever the operator has been told a unit is deployed or   *)
(* removed, what no step may do, and what has to happen in the end.        *)
(***************************************************************************)
EXTENDS Apply

ServiceDefs == {AppService(n, t) : n \in Names, t \in Targets} \cup
               {GatewayService(n) : n \in Names}
Readings == {<<>>} \cup {<<x>> : x \in Tokens \cup Versions \cup {None}} \cup
            (Versions \cup {None}) \X (Versions \cup {None})
Processes == [def : ServiceDefs, read : Readings]
Entries == [createdUser : BOOLEAN, complete : BOOLEAN]

\* "Nothing" is no vhost, no service, no process and no content of a page.
ASSUME NothingAssumption ==
    /\ \A t \in Targets : None # Site(t)
    /\ \A def \in ServiceDefs : None # def
    /\ \A def \in ServiceDefs, read \in Readings : None # [def |-> def, read |-> read]
    /\ None # Present /\ None \notin Versions

\* What a command may have on its list, and what a command is.
Things == Dirs \cup Files \cup {<<"systemd">>, <<"caddy">>} \cup
          {<<kind, id>> : kind \in {"user", "group", "unit"}, id \in Ids}
Verbs == {"plan", "load", "user", "mkdir", "chmod", "write", "rm", "rm temp", "unmark", "sync", "mark",
          "chgrp", "chown", "join", "leave", "restart caddy", "daemon-reload", "start",
          "reload caddy", "commit", "flush", "print", "disable", "rm tree", "userdel", "drop",
          "prune"}
Actions == [at : 0 .. 29, verb : Verbs, on : Things]
Jobs == [op : {"apply", "rm"}, unit : Names, target : Targets \cup {None},
         secret : Tokens \cup {None}, fresh : BOOLEAN, todo : SUBSET Actions]
ASSUME JobAssumption == None \notin Jobs

\* Type invariant of the host, the registry and the command in progress.
TypeOK ==
    /\ users \in [Ids -> {"none", "smallapp", "foreign"}]
    /\ groups \subseteq Ids /\ caddyGroups \subseteq Ids
    /\ freed \in Nat /\ reissued \subseteq Ids
    /\ dirs \subseteq Dirs /\ Host \in dirs
    /\ loose \subseteq dirs
    /\ owned \subseteq Dirs \cup Files
    /\ DOMAIN file = Files /\ temps \subseteq Torn
    /\ \A n \in Names :
        /\ file[Vhost(n)] \in {None} \cup {Site(t) : t \in Targets}
        /\ file[Env(n)] \in {None} \cup Tokens
        /\ file[Cache(n)] \in {None} \cup Versions
        /\ file[Marker(n)] \in {None, Present}
        /\ file[Data(n)] \in {None, Present}
        /\ \A p \in Pages : file[Page(n, p)] \in {None} \cup Versions
    /\ \A id \in Ids : file[Service(id)] \in {None} \cup ServiceDefs
    /\ loaded \in [Ids -> {None} \cup ServiceDefs]
    /\ proc \in [Ids -> {None} \cup Processes]
    /\ served \in [Names -> {None} \cup {Site(t) : t \in Targets}]
    /\ created \subseteq Dirs /\ recorded \subseteq Dirs
    /\ registry \in [Names -> {None} \cup Entries]
    /\ told \in [Names -> {None, Gone} \cup Targets]
    /\ shown \subseteq Tokens
    /\ faults \in 0 .. MaxFaults
    /\ job # None => /\ job \in Jobs
                     /\ job.op = "apply" => job.target \in Targets
                     /\ job.todo # {}

-----------------------------------------------------------------------------
(* A unit the operator was told is deployed.                               *)

Applied(n) == told[n] \in Targets

\* Everything the target renders to is on disk as rendered, and nothing else
\* is left in the payload directory: a page removed from the site is gone.
FilesDeployed ==
    \A n \in Names : Applied(n) =>
        /\ Exists(Env(n))
        /\ \A f \in RenderedFiles(n, told[n]) : file[f] = Rendered(n, told[n], file[Env(n)], f)
        /\ \A f \in FilesIn(App(n)) : Exists(f) => f \in RenderedFiles(n, told[n])
        /\ TempsIn(App(n)) = {}

\* What runs was started from what is on disk: no service, and no vhost of
\* Caddy, survives from before the apply that reported success.
NothingOutdated ==
    \A n \in Names : Applied(n) =>
        /\ served[n] = file[Vhost(n)]
        /\ \A id \in IdsOf(n) : proc[id] # None => proc[id] = Started(file[Service(id)])

\* Both services of the unit are up.
ServicesRunning ==
    \A n \in Names : Applied(n) => \A id \in IdsOf(n) : proc[id] # None

\* The directories are there: the payload's with its mode, the state directories
\* in the hands of the accounts, which exist.  The mode of a state directory is
\* not promised: systemd opens it at every start (Start).
StateReady ==
    \A n \in Names : Applied(n) =>
        /\ App(n) \in dirs \ loose
        /\ \A id \in IdsOf(n) : users[id] # "none" /\ State(id) \in dirs \cap owned

\* Caddy's account is in the group of a static unit, and so is its process; it is
\* in the group of no other unit.  Nor is its process, unless the group was given
\* the id of a removed one, which a running Caddy keeps (DeleteUser, TakeGid).
CaddyAccess ==
    \A n \in Names : Applied(n) =>
        IF told[n].kind = "static" THEN n \in groups \cap (caddyGroups \cup reissued)
        ELSE n \notin groups /\ n \notin caddyGroups \ reissued

\* The environment a PEP 723 script runs in was built from that very script.
DepsCurrent ==
    \A n \in Names : Applied(n) /\ told[n].deps =>
        file[Cache(n)] = told[n].pages[Entry]

\* The operator holds the token of every unit reported as deployed.
TokenKnown == \A n \in Names : Applied(n) => file[Env(n)] \in shown

\* The payload, directory and files, is in the unit's own group.
PayloadGroup ==
    \A n \in Names : Applied(n) => {App(n)} \cup PagesOf(n, told[n]) \subseteq owned

\* Applying once more what was just applied would find nothing to do but to give
\* the state directories their mode back, where systemd has changed it, and to
\* restart the services on that account; and so nothing where it has not.
Idempotent ==
    \A n \in Names : Applied(n) /\ job = None =>
        /\ Complete(n)
        /\ \A secret \in SecretsFor(n) :
            LET states == {State(id) : id \in IdsOf(n)}
                plan == Build(n, told[n], secret)
            IN  /\ \A a \in plan \ ServiceActions(n) :
                      a.verb \in {"mkdir", "chmod"} /\ a.on \in states \cap loose
                /\ states \cap loose = {} => plan = {}

-----------------------------------------------------------------------------
(* What belongs to a unit, and to no unit.                                 *)

Registrants(id) == {n \in Names : Registered(n) /\ id \in IdsOf(n)}

UnitFree(n) ==
    /\ App(n) \notin dirs
    /\ ~Exists(Env(n)) /\ ~Exists(Vhost(n))
    /\ served[n] = None

IdFree(id) ==
    /\ users[id] # "smallapp"
    /\ State(id) \notin dirs
    /\ ~Exists(Service(id))
    /\ proc[id] = None

\* Whatever smallapp made for a unit is there only while the registry has an
\* entry through which `rm` finds it.
Accounted ==
    /\ \A n \in Names : Registered(n) \/ UnitFree(n)
    /\ \A id \in Ids : Registrants(id) # {} \/ IdFree(id)

\* That is so at every step, failures included, and of temporary files in the
\* unit's own directories too.  One that a write left elsewhere (beside the env
\* file, the vhost or a service) is the exception: no `rm` knows of it.
NoOrphans ==
    /\ Accounted
    /\ \A n \in Names : Registered(n) \/ TempsIn(App(n)) = {}
    /\ \A id \in Ids : Registrants(id) # {} \/ TempsIn(State(id)) = {}

\* An action of an apply of n: what it touches is n's.
ApplyActionOf(n, s) ==
    \/ s.verb = "user" /\ s.on \in {<<"user", id>> : id \in IdsOf(n)}
    \/ /\ s.verb \in {"mkdir", "chmod", "chgrp", "chown"}
       /\ s.on \in {App(n)} \cup {State(id) : id \in IdsOf(n)}
    \/ /\ s.verb = "write"
       /\ s.on \in {Vhost(n), Env(n)} \cup {Service(id) : id \in IdsOf(n)}
                     \cup {Page(n, p) : p \in Pages}
    \/ s.verb \in {"rm", "rm temp"} /\ s.on \in {Page(n, p) : p \in Pages}
    \/ s.verb \in {"unmark", "mark"} /\ s.on = Marker(n)
    \/ s.verb = "sync" /\ s.on = Cache(n)
    \/ s.verb \in {"join", "leave"} /\ s.on = <<"group", n>>
    \/ s.verb = "start" /\ s.on \in {<<"service", id>> : id \in IdsOf(n)}
    \/ s.verb \in {"restart caddy", "daemon-reload", "reload caddy", "commit", "flush", "print"}

\* What is still there of n is still on the list of what rm has to remove.
RemovalPending(n, todo) ==
    /\ \A id \in IdsOf(n) :
        /\ proc[id] # None => \E s \in todo : s.verb = "disable" /\ s.on = <<"service", id>>
        /\ State(id) \in dirs => \E s \in todo : s.verb = "rm tree" /\ s.on = State(id)
        /\ Exists(Service(id)) => \E s \in todo : s.verb = "rm" /\ s.on = Service(id)
        /\ users[id] = "smallapp" => \E s \in todo : s.verb = "userdel" /\ s.on = <<"user", id>>
    /\ App(n) \in dirs => \E s \in todo : s.verb = "rm tree" /\ s.on = App(n)
    /\ Exists(Env(n)) => \E s \in todo : s.verb = "rm" /\ s.on = Env(n)
    /\ Exists(Vhost(n)) => \E s \in todo : s.verb = "rm" /\ s.on = Vhost(n)
    /\ served[n] # None => \E s \in todo : s.verb = "reload caddy"

\* A command is about to read the registry, or applies a unit that has an
\* entry, or removes one and has left on its list whatever is still there; and
\* until the entry is dropped, every entry says its accounts are smallapp's.
JobCovered ==
    /\ \A n \in Names : Registered(n) => registry[n].createdUser
    /\ job # None =>
        \/ job.op = "apply" /\ \A s \in job.todo : s.verb = "plan"
        \/ job.op = "rm" /\ \A s \in job.todo : s.verb = "load"
        \/ /\ job.op = "apply"
           /\ Registered(job.unit)
           /\ \A s \in job.todo : ApplyActionOf(job.unit, s)
        \/ /\ job.op = "rm"
           /\ job.todo \subseteq RemovalScript(job.unit)
           /\ RemovalPending(job.unit, job.todo)
           /\ Registered(job.unit) \/ \A s \in job.todo : s.verb # "drop"

\* That, and the temporary files in the unit's own directories are on the list
\* of its rm too, which removes those trees.
JobAccountable ==
    /\ JobCovered
    /\ job # None /\ job.op = "rm" =>
        \/ \A s \in job.todo : s.verb = "load"
        \/ \A d \in {App(job.unit)} \cup {State(id) : id \in IdsOf(job.unit)} :
             TempsIn(d) # {} => \E s \in job.todo : s.verb = "rm tree" /\ s.on = d

\* No directory the host had before is ever recorded as smallapp's, or removed.
PreexistingKept ==
    /\ PreDirs \subseteq dirs
    /\ (recorded \cup created) \cap (PreDirs \cup {Host}) = {}

\* When no command has failed and `rm` has reported success for every unit, the
\* directories are what they were, over any sequence of applies and removals.
Reversible ==
    (faults = 0 /\ job = None /\ \A n \in Names : told[n] = Gone) =>
        dirs = PreDirs \cup {Host}

-----------------------------------------------------------------------------
(* What a step may never do.                                               *)

\* An account smallapp did not make is never deleted or taken over.
ForeignKept ==
    [][\A id \in Ids : users[id] = "foreign" => users'[id] = "foreign"]_vars

\* All of the unit's files but the one its app writes.
FilesOf(n) == {f \in Files \ {Data(n)} : f[2] = n \/ f = Service(Gw[n])}

\* A command on one unit leaves the files, accounts and processes of every
\* other registered unit alone.
UnitsIsolated ==
    [][\A n \in Names : job # None /\ job.unit # n /\ Registered(n) =>
         /\ \A f \in FilesOf(n) : file'[f] = file[f]
         /\ \A id \in IdsOf(n) : users'[id] = users[id] /\ proc'[id] = proc[id]]_vars

\* A command on one unit leaves the state directories of every other one.
OthersStateKept ==
    [][\A n \in Names : job # None /\ job.unit # n /\ Registered(n) =>
         \A id \in IdsOf(n) : State(id) \in dirs => State(id) \in dirs']_vars

\* Only `rm` of the unit itself deletes what its app has written.
DataKept ==
    [][\A n \in Names : Exists(Data(n)) /\ file'[Data(n)] = None =>
         job # None /\ job.op = "rm" /\ job.unit = n]_vars

\* A step of an apply changes the host only under an entry that says it is
\* unfinished; what an app writes meanwhile is no step of it.
UnfinishedWhileChanging ==
    [][(job # None /\ job.op = "apply" /\ job' # job
        /\ <<accounts, tree, daemons>>' # <<accounts, tree, daemons>>)
         => Registered(job.unit) /\ ~Complete(job.unit)]_vars

-----------------------------------------------------------------------------
(* What has to happen in the end.  A command, once begun, runs on until it *)
(* has finished or failed; nothing is assumed of the operator but what the *)
(* properties say.                                                         *)

CommandFair == WF_vars(\E s \in Todo : ApplyNext(s) \/ RmNext(s) \/ Rejected(s))
FairSpec == Spec /\ CommandFair

\* Whatever failed before, applying again and again gets the unit deployed, and
\* reported so, again and again; unless a removal left the group of one of its
\* accounts behind, with which useradd refuses to make the account.
ApplySucceeds ==
    \A n \in Names :
        []<><<\E t \in Targets : BeginApply(n, t) /\ \A id \in IdsOf(n) : ~LeftGroup(id)>>_vars
            => []<>Applied(n)

\* Whatever failed before, `rm` again and again gets the unit out of the registry;
\* unless the entry is there and a service file is not, because an apply failed
\* before it wrote them or an rm after it removed them: that rm fails for ever.
RmSucceeds ==
    \A n \in Names :
        []<><<BeginRm(n) /\ (Registered(n) => \A id \in IdsOf(n) : Disables(id))>>_vars
            => []<>~Registered(n)
=============================================================================
