------------------------------- MODULE Apply --------------------------------
(***************************************************************************)
(* apply.py, with the parts of cli.py and registry.py it runs in: `apply`  *)
(* and `rm`, one step of the host at a time.  A command holds the lock     *)
(* from its first step to its last, so there is one job at a time (the     *)
(* lock itself is another module's subject); a failure or an interruption  *)
(* ends the job wherever it is and undoes nothing.                         *)
(***************************************************************************)
EXTENDS Plan

CONSTANTS
    Gone,        \* what the operator is told when rm has finished
    MaxFaults,   \* bound on the failures of one behaviour
    FaultVerbs,  \* the steps that may fail
    Torn,        \* the files whose write may be cut off before its rename
    AdminIds,    \* accounts an administrator may add by hand
    AdminNames,  \* units whose directories an administrator may chmod by hand
    Writers      \* the units whose app writes data

ASSUME NoneAssumption == \A made, done \in BOOLEAN : None # [createdUser |-> made, complete |-> done]

ASSUME ReportsAssumption == None \notin Targets /\ Gone \notin Targets /\ None # Gone

ASSUME BoundsAssumption ==
    /\ MaxFaults \in Nat /\ Torn \subseteq Files
    /\ AdminIds \subseteq Ids /\ AdminNames \subseteq Names /\ Writers \subseteq Names

VARIABLES
    job,     \* the command in progress: [op, unit, target, secret, fresh, todo]
    told,    \* [Names -> what the last command on the unit reported]: the target
             \* it applied, Gone once removed, None while unknown or failed
    shown,   \* the tokens printed to the operator
    faults   \* failures so far

vars == <<host, registry, job, told, shown, faults>>

Init ==
    /\ SystemInit
    /\ registry = [n \in Names |-> None]
    /\ job = None
    /\ told = [n \in Names |-> None]
    /\ shown = {}
    /\ faults = 0

AnyRegistered(reg) == \E n \in Names : reg[n] # None

-----------------------------------------------------------------------------
(* Steps of a job.                                                         *)

First(s) == job # None /\ s \in job.todo /\ \A r \in job.todo : s.at <= r.at
Doing(s, verb) == First(s) /\ s.verb = verb
Done(s) == /\ job' = [job EXCEPT !.todo = @ \ {s}]
           /\ UNCHANGED <<told, shown, faults>>

\* The process exits: what it only kept in memory is lost.
Exit == job' = None /\ created' = {}

Start_(op, n, t, verb) ==
    /\ job = None
    /\ job' = [op |-> op, unit |-> n, target |-> t, secret |-> None, fresh |-> FALSE,
               todo |-> {Action(0, verb, <<"unit", n>>)}]
    /\ told' = [told EXCEPT ![n] = None]
    /\ MkdirP(Lib)
    /\ UNCHANGED <<accounts, loose, owned, file, temps, daemons, registry, shown, faults>>

\* cmd_apply and cmd_rm take the lock, which makes /var/lib/smallapp.
BeginApply(n, t) == Start_("apply", n, t, "plan")
BeginRm(n) == Start_("rm", n, None, "load")

-----------------------------------------------------------------------------
(* apply.                                                                  *)

\* ValidationError: nothing is registered, nothing else has been done.
Refuse(s) ==
    /\ Doing(s, "plan")
    /\ Refuses(job.unit)
    /\ Exit
    /\ UNCHANGED <<accounts, tree, daemons, recorded, registry, told, shown, faults>>

\* Every action is unchanged and the last apply finished: exit 0, "no changes".
NoChanges(s) ==
    /\ Doing(s, "plan")
    /\ ~Refuses(job.unit) /\ Complete(job.unit)
    /\ \E secret \in SecretsFor(job.unit) : Build(job.unit, job.target, secret) = {}
    /\ told' = [told EXCEPT ![job.unit] = job.target]
    /\ Exit
    /\ UNCHANGED <<accounts, tree, daemons, recorded, registry, shown, faults>>

Ending(n) == {Action(27, "commit", <<"unit", n>>), Action(28, "flush", <<"lib">>),
              Action(29, "print", <<"unit", n>>)}

\* Mutant: an apply to a finished unit leaves its entry complete.
PutIncomplete_StaysComplete(s) ==
    /\ Doing(s, "plan")
    /\ ~Refuses(job.unit)
    /\ LET n == job.unit
       IN  \E secret \in SecretsFor(n) :
             LET plan == Build(n, job.target, secret)
             IN  /\ plan # {}
                 /\ registry' = [registry EXCEPT ![n] = [createdUser |-> TRUE,
                                                         complete |-> Complete(n)]]
                 /\ job' = [job EXCEPT !.secret = secret, !.fresh = ~Reused(n),
                                       !.todo = plan \cup Ending(n)]
                 /\ shown' = IF Reused(n) THEN shown ELSE shown \ {secret}
    /\ UNCHANGED <<host, told, faults>>

\* The entry is put, incomplete, before the first side effect.
PutIncomplete(s) ==
    /\ Doing(s, "plan")
    /\ ~Refuses(job.unit)
    /\ LET n == job.unit
           made == (Registered(n) /\ registry[n].createdUser) \/ UserActions(n) # {}
       IN  \E secret \in SecretsFor(n) :
             LET plan == Build(n, job.target, secret)
             IN  /\ plan # {} \/ ~Complete(n)
                 /\ registry' = [registry EXCEPT ![n] = [createdUser |-> made,
                                                         complete |-> FALSE]]
                 /\ job' = [job EXCEPT !.secret = secret, !.fresh = ~Reused(n),
                                       !.todo = plan \cup Ending(n)]
                 /\ shown' = IF Reused(n) THEN shown ELSE shown \ {secret}
    /\ UNCHANGED <<host, told, faults>>

UserStep(s) == /\ Doing(s, "user") /\ Done(s) /\ CreateUser(s.on[2])
               /\ UNCHANGED <<tree, loaded, proc, served, record, registry>>

MkdirStep(s) == /\ Doing(s, "mkdir") /\ Done(s) /\ Mkdir(s.on)
                /\ UNCHANGED <<accounts, daemons, registry>>

ChmodStep(s) == /\ Doing(s, "chmod") /\ Done(s) /\ Chmod(s.on)
                /\ UNCHANGED <<accounts, daemons, record, registry>>

WriteStep(s) == /\ Doing(s, "write") /\ Done(s)
                /\ Write(s.on, Rendered(job.unit, job.target, job.secret, s.on))
                /\ UNCHANGED <<accounts, daemons, registry>>

StaleStep(s) == /\ Doing(s, "rm") /\ Done(s) /\ Remove(s.on)
                /\ UNCHANGED <<accounts, daemons, record, registry>>

SweepStep(s) == /\ Doing(s, "rm temp") /\ Done(s) /\ RemoveTemp(s.on)
                /\ UNCHANGED <<accounts, daemons, record, registry>>

\* uv_sync_script: the marker is cleared, `uv sync` run, the marker written.
UnmarkStep(s) == /\ Doing(s, "unmark") /\ Done(s) /\ Remove(s.on)
                 /\ UNCHANGED <<accounts, daemons, record, registry>>

SyncStep(s) == /\ Doing(s, "sync") /\ Done(s)
               /\ Write(s.on, file[Page(job.unit, Entry)])
               /\ UNCHANGED <<accounts, daemons, registry>>

MarkStep(s) == /\ Doing(s, "mark") /\ Done(s) /\ Write(s.on, Present)
               /\ UNCHANGED <<accounts, daemons, registry>>

GiveStep(s) == /\ \/ Doing(s, "chgrp")
                  \/ Doing(s, "chown")
               /\ Done(s) /\ GiveTree(s.on)
               /\ UNCHANGED <<accounts, daemons, record, registry>>

JoinStep(s) == /\ Doing(s, "join") /\ Done(s) /\ AddGroupMember(s.on[2])
               /\ UNCHANGED <<tree, daemons, record, registry>>

LeaveStep(s) == /\ Doing(s, "leave") /\ Done(s) /\ RemoveGroupMember(s.on[2])
                /\ UNCHANGED <<tree, daemons, record, registry>>

RestartCaddyStep(s) == /\ Doing(s, "restart caddy") /\ Done(s) /\ CaddyRestart
                       /\ UNCHANGED <<accounts, tree, record, registry>>

DaemonReloadStep(s) == /\ Doing(s, "daemon-reload") /\ Done(s) /\ DaemonReload
                       /\ UNCHANGED <<accounts, tree, record, registry>>

StartStep(s) == /\ Doing(s, "start") /\ Done(s) /\ Start(s.on[2])
                /\ UNCHANGED <<accounts, record, registry>>

ReloadCaddyStep(s) == /\ Doing(s, "reload caddy") /\ Done(s) /\ CaddyReload
                      /\ UNCHANGED <<accounts, tree, record, registry>>

CommitStep(s) ==
    /\ Doing(s, "commit") /\ Done(s)
    /\ registry' = [registry EXCEPT ![job.unit].complete = TRUE]
    /\ UNCHANGED host

FlushStep(s) == /\ Doing(s, "flush") /\ Done(s) /\ FlushCreated
                /\ UNCHANGED <<accounts, tree, daemons, registry>>

\* The command prints its summary, and a fresh token, and exits 0.
PrintStep(s) ==
    /\ Doing(s, "print")
    /\ shown' = IF job.fresh THEN shown \cup {job.secret} ELSE shown
    /\ told' = [told EXCEPT ![job.unit] = job.target]
    /\ Exit
    /\ UNCHANGED <<accounts, tree, daemons, recorded, registry, faults>>

-----------------------------------------------------------------------------
(* rm.                                                                     *)

\* The whole of rm, for a unit whose accounts smallapp made.
UserdelActions(n) ==
    {Action(10, "userdel", <<"user", n>>), Action(11, "userdel", <<"user", Gw[n]>>)}

RemovalScript(n) ==
    {Action(1, "disable", <<"service", n>>), Action(2, "disable", <<"service", Gw[n]>>),
     Action(3, "rm tree", App(n)), Action(4, "rm tree", State(n)),
     Action(5, "rm tree", State(Gw[n])), Action(6, "rm", Env(n)),
     Action(7, "rm", Service(n)), Action(8, "rm", Service(Gw[n])), Action(9, "rm", Vhost(n)),
     Action(12, "daemon-reload", <<"systemd">>), Action(13, "reload caddy", <<"caddy">>),
     Action(14, "drop", <<"unit", n>>), Action(15, "prune", <<"lib">>)}
    \cup UserdelActions(n)

\* Mutant: the entry is dropped before systemd and Caddy have accepted the removal.
RemovalActions_EarlyDrop(n) ==
    (RemovalScript(n) \ {Action(14, "drop", <<"unit", n>>)})
    \cup {Action(11, "drop", <<"unit", n>>)}

RemovalActions(n) ==
    RemovalScript(n) \ When(~registry[n].createdUser, UserdelActions(n))

\* Mutant: a unit whose apply was interrupted counts as unknown.
NotFound_Unfinished(s) ==
    /\ Doing(s, "load")
    /\ ~Complete(job.unit)
    /\ PruneCreated(AnyRegistered(registry))
    /\ job' = None
    /\ told' = [told EXCEPT ![job.unit] = Gone]
    /\ UNCHANGED <<accounts, daemons, registry, shown, faults>>

\* An unknown unit: only what this process and the record made is given back.
NotFound(s) ==
    /\ Doing(s, "load")
    /\ ~Registered(job.unit)
    /\ PruneCreated(AnyRegistered(registry))
    /\ job' = None
    /\ told' = [told EXCEPT ![job.unit] = Gone]
    /\ UNCHANGED <<accounts, daemons, registry, shown, faults>>

LoadUnit(s) ==
    /\ Doing(s, "load")
    /\ Registered(job.unit)
    /\ job' = [job EXCEPT !.todo = RemovalActions(job.unit)]
    /\ UNCHANGED <<host, registry, told, shown, faults>>

DisableStep(s) == /\ Doing(s, "disable") /\ Disables(s.on[2]) /\ Done(s) /\ Disable(s.on[2])
                  /\ UNCHANGED <<accounts, tree, record, registry>>

RemoveTreeStep(s) == /\ Doing(s, "rm tree") /\ Done(s) /\ RemoveTree(s.on)
                     /\ UNCHANGED <<accounts, daemons, record, registry>>

UserdelStep(s) == /\ Doing(s, "userdel") /\ Done(s) /\ DeleteUser(s.on[2])
                  /\ UNCHANGED <<tree, loaded, proc, served, record, registry>>

DropStep(s) == /\ Doing(s, "drop") /\ Done(s)
               /\ registry' = [registry EXCEPT ![job.unit] = None]
               /\ UNCHANGED host

PruneStep(s) ==
    /\ Doing(s, "prune")
    /\ PruneCreated(AnyRegistered(registry))
    /\ job' = None
    /\ told' = [told EXCEPT ![job.unit] = Gone]
    /\ UNCHANGED <<accounts, daemons, registry, shown, faults>>

-----------------------------------------------------------------------------
(* What else happens to the host.                                          *)

\* A command that the host refuses: disabling a service that has no file, adding
\* an account where a group of its name is left.
Rejected(s) ==
    /\ \/ Doing(s, "disable") /\ ~Disables(s.on[2])
       \/ Doing(s, "user") /\ LeftGroup(s.on[2])
    /\ Exit
    /\ UNCHANGED <<accounts, tree, daemons, recorded, registry, told, shown, faults>>

\* A step fails, or the operator or a crash ends the command before it, or in the
\* middle of a write.
Fault(s) ==
    /\ First(s) /\ s.verb \in FaultVerbs
    /\ faults < MaxFaults
    /\ faults' = faults + 1
    /\ \/ UNCHANGED <<dirs, temps>>
       \/ s.verb \in {"write", "mark"} /\ s.on \in Torn /\ CutOff(s.on)
    /\ Exit
    /\ UNCHANGED <<accounts, loose, owned, file, daemons, recorded, registry, told, shown>>

AdminAddsUser(id) ==
    /\ job = None /\ id \in AdminIds /\ users[id] = "none" /\ ~LeftGroup(id)
    /\ users' = [users EXCEPT ![id] = "foreign"]
    /\ TakeGid(id)
    /\ UNCHANGED <<groups, tree, loaded, proc, served, record, registry, job, told, shown, faults>>

\* Someone gives a unit's state directories the mode `plan` says they should have.
AdminChmods(n) ==
    /\ job = None /\ n \in AdminNames
    /\ loose' = loose \ {State(id) : id \in IdsOf(n)}
    /\ UNCHANGED <<accounts, dirs, owned, file, temps, daemons, record, registry, job, told,
                   shown, faults>>

\* A running app writes to the state directory it was given.
AppWrites(n) ==
    /\ n \in Writers /\ proc[n] # None /\ State(n) \in dirs \cap owned
    /\ ~Exists(Data(n))
    /\ file' = [file EXCEPT ![Data(n)] = Present]
    /\ owned' = owned \cup {Data(n)}
    /\ UNCHANGED <<accounts, dirs, loose, temps, daemons, record, registry, job, told, shown,
                   faults>>

-----------------------------------------------------------------------------
ApplyNext(s) ==
    \/ Refuse(s) \/ NoChanges(s) \/ PutIncomplete(s)
    \/ UserStep(s) \/ MkdirStep(s) \/ ChmodStep(s) \/ WriteStep(s)
    \/ StaleStep(s) \/ SweepStep(s) \/ UnmarkStep(s) \/ SyncStep(s) \/ MarkStep(s) \/ GiveStep(s)
    \/ JoinStep(s) \/ LeaveStep(s) \/ RestartCaddyStep(s)
    \/ DaemonReloadStep(s) \/ StartStep(s) \/ ReloadCaddyStep(s)
    \/ CommitStep(s) \/ FlushStep(s) \/ PrintStep(s)

RmNext(s) ==
    \/ NotFound(s) \/ LoadUnit(s) \/ DisableStep(s)
    \/ RemoveTreeStep(s) \/ UserdelStep(s) \/ DropStep(s) \/ PruneStep(s)

Todo == IF job = None THEN {} ELSE job.todo

Next ==
    \/ \E n \in Names, t \in Targets : BeginApply(n, t)
    \/ \E n \in Names : BeginRm(n)
    \/ \E s \in Todo : ApplyNext(s) \/ RmNext(s) \/ Rejected(s)
    \/ \E s \in Todo : Fault(s)
    \/ \E id \in AdminIds : AdminAddsUser(id)
    \/ \E n \in AdminNames : AdminChmods(n)
    \/ \E n \in Writers : AppWrites(n)

Spec == Init /\ [][Next]_vars
=============================================================================
