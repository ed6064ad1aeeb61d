------------------------------- MODULE System -------------------------------
(***************************************************************************)
(* The host as system.py sees and changes it: unix accounts and groups,    *)
(* directories and files with their owner and mode, systemd and Caddy.     *)
(* Every operator below is one method of class System (or one command it   *)
(* runs), as an action over the part of the host it touches; Apply.tla     *)
(* sequences them.  The real root (no --root prefix) is what is modelled.  *)
(***************************************************************************)
EXTENDS Naturals

CONSTANTS
    Names,            \* unit names an operator uses
    Ids,              \* stems of account, service and state-directory names
    Gw,               \* Gw[n]: the stem "n-gw" of unit n's gateway
    Pages,            \* names a payload file can have; Entry is one of them
    Entry,            \* app.py
    PreDirs,          \* shared directories the host had before smallapp
    PreUsers,         \* stems of accounts the host had before smallapp
    Versions,         \* contents a payload file can have
    None,             \* "no file", "no process", "no entry"
    Present           \* the content of a file nobody reads

ASSUME NamesAssumption ==
    /\ Names \subseteq Ids
    /\ Gw \in [Names -> Ids]
    /\ \A n \in Names : Gw[n] # n
    /\ Entry \in Pages

-----------------------------------------------------------------------------
(* Paths.  Host stands for every directory smallapp never has to create    *)
(* (/, /opt, /etc, /etc/systemd/system, ...).                              *)

Host == <<"host">>
Opt == <<"opt">>        \* /opt/smallapp
Lib == <<"lib">>        \* /var/lib/smallapp: registry, record of directories, lock
Etc == <<"etc">>        \* /etc/smallapp
Sites == <<"sites">>    \* /etc/caddy/smallapp.d
App(n) == <<"app", n>>
State(id) == <<"state", id>>

Shared == {Host, Opt, Lib, Etc, Sites}
Dirs == Shared \cup {App(n) : n \in Names} \cup {State(id) : id \in Ids}

\* smallapp did not make the directories that were there before it, so no unit
\* of its own is in them.
ASSUME PreDirsAssumption == PreDirs \subseteq Shared

Parent(d) == IF d[1] = "app" THEN Opt ELSE IF d[1] = "state" THEN Lib ELSE Host

Vhost(n) == <<"vhost", n>>
Env(n) == <<"env", n>>
Service(id) == <<"service", id>>
Page(n, p) == <<"page", n, p>>
Cache(n) == <<"cache", n>>     \* the environment `uv sync` built
Marker(n) == <<"marker", n>>   \* uv-cache/.synced
Data(n) == <<"data", n>>       \* whatever the app keeps in its state directory

Files ==
    {Vhost(n) : n \in Names} \cup {Env(n) : n \in Names} \cup
    {Service(id) : id \in Ids} \cup {Page(n, p) : n \in Names, p \in Pages} \cup
    {Cache(n) : n \in Names} \cup {Marker(n) : n \in Names} \cup {Data(n) : n \in Names}

DirOf(f) ==
    CASE f[1] = "vhost" -> Sites
      [] f[1] = "env" -> Etc
      [] f[1] = "service" -> Host
      [] f[1] = "page" -> App(f[2])
      [] OTHER -> State(f[2])

-----------------------------------------------------------------------------
VARIABLES
    users,       \* [Ids -> {"none", "smallapp", "foreign"}]: who made the account
    groups,      \* the units' groups Caddy's account is a member of
    dirs,        \* directories that exist
    loose,       \* directories whose mode is not the one the plan declares
    owned,       \* paths given to their unit by chown or chgrp
    file,        \* [Files -> content, or None when absent]
    temps,       \* files beside which a write that was cut off left its temporary file
    loaded,      \* [Ids -> service definition systemd has loaded]
    proc,        \* [Ids -> what the service's process was started with]
    served,      \* [Names -> the vhost Caddy is running with]
    caddyGroups, \* the units' groups Caddy's process has, read when it started
    freed,       \* how many group ids of its process no group has any more
    reissued,    \* the groups that were given such an id
    created,     \* System.created: directories made by this process, in memory
    recorded     \* the created-directories file in /var/lib/smallapp

accounts == <<users, groups>>
tree == <<dirs, loose, owned, file, temps>>
gids == <<caddyGroups, freed, reissued>>
daemons == <<loaded, proc, served, gids>>
record == <<created, recorded>>
host == <<accounts, tree, daemons, record>>

SystemInit ==
    /\ users = [id \in Ids |-> IF id \in PreUsers THEN "foreign" ELSE "none"]
    /\ groups = {}
    /\ dirs = PreDirs \cup {Host}
    /\ loose = {}
    /\ owned = {}
    /\ file = [f \in Files |-> None]
    /\ temps = {}
    /\ loaded = [id \in Ids |-> None]
    /\ proc = [id \in Ids |-> None]
    /\ served = [n \in Names |-> None]
    /\ caddyGroups = {} /\ freed = 0 /\ reissued = {}
    /\ created = {}
    /\ recorded = {}

-----------------------------------------------------------------------------
(* Directories and files.                                                  *)

Exists(f) == file[f] # None
FilesIn(d) == {f \in Files : DirOf(f) = d}
Children(d) == {c \in dirs \ {Host} : Parent(c) = d}

\* Mutant: a directory is recorded whether or not it was missing.
MkdirP_RecordsAll(d) ==
    /\ dirs' = dirs \cup {d, Parent(d)}
    /\ created' = created \cup {d}
    /\ UNCHANGED recorded

\* Creates d and a missing parent, noting only the topmost directory made.
MkdirP(d) ==
    /\ dirs' = dirs \cup {d, Parent(d)}
    /\ created' = created \cup (IF d \in dirs THEN {}
                                ELSE IF Parent(d) \in dirs THEN {d} ELSE {Parent(d)})
    /\ UNCHANGED recorded

\* mkdir is mkdir_p and then chmod: a crash in between leaves the umask's mode.
Mkdir(d) ==
    /\ MkdirP(d)
    /\ loose' = IF d \in dirs THEN loose ELSE loose \cup {d}
    /\ UNCHANGED <<owned, file, temps>>

Chmod(d) == /\ loose' = loose \ {d}
            /\ UNCHANGED <<dirs, owned, file, temps>>

\* The content goes to a temporary file beside f, in place of one left there
\* before, and takes f's name: f is a new inode, which belongs to root.
Write(f, content) ==
    /\ MkdirP(DirOf(f))
    /\ file' = [file EXCEPT ![f] = content]
    /\ owned' = owned \ {f}
    /\ temps' = temps \ {f}
    /\ UNCHANGED loose

\* A write that fails, or is killed, before the rename: the temporary file
\* stays, and nobody will know that its directory was made.
CutOff(f) == /\ dirs' = dirs \cup {DirOf(f), Parent(DirOf(f))}
             /\ temps' = temps \cup {f}

Remove(f) == /\ file' = [file EXCEPT ![f] = None]
             /\ owned' = owned \ {f}
             /\ UNCHANGED <<dirs, loose, temps>>

RemoveTemp(f) == /\ temps' = temps \ {f}
                 /\ UNCHANGED <<dirs, loose, owned, file>>

\* Mutant: the directory's mode is remembered after the directory is gone.
RemoveTree_KeepsMode(d) ==
    /\ dirs' = dirs \ {d}
    /\ owned' = owned \ ({d} \cup FilesIn(d))
    /\ file' = [f \in Files |-> IF DirOf(f) = d THEN None ELSE file[f]]
    /\ temps' = temps \ FilesIn(d)
    /\ UNCHANGED loose

\* Mutant: what is removed is the directory above.
RemoveTree_Siblings(d) ==
    LET siblings == {c \in dirs \ {Host} : Parent(c) = Parent(d)}
    IN  /\ dirs' = dirs \ siblings
        /\ loose' = loose \ siblings
        /\ owned' = owned \ siblings
        /\ file' = [f \in Files |-> IF DirOf(f) \in siblings THEN None ELSE file[f]]
        /\ temps' = {f \in temps : DirOf(f) \notin siblings}

RemoveTree(d) ==
    /\ dirs' = dirs \ {d}
    /\ loose' = loose \ {d}
    /\ owned' = owned \ ({d} \cup FilesIn(d))
    /\ file' = [f \in Files |-> IF DirOf(f) = d THEN None ELSE file[f]]
    /\ temps' = temps \ FilesIn(d)

\* chown and chgrp: d and everything that is under it now.
GiveTree(d) ==
    /\ owned' = owned \cup {d} \cup {f \in FilesIn(d) : Exists(f)}
    /\ UNCHANGED <<dirs, loose, file, temps>>

\* Mutant: the record is overwritten, not merged.
FlushCreated_NoMerge == /\ recorded' = created
                        /\ UNCHANGED created

FlushCreated == /\ recorded' = recorded \cup created
                /\ UNCHANGED created

\* A directory holding no file at any depth.  `registered`: registry.json exists.
Hollow(d, registered) ==
    /\ d \in dirs \ {Host}
    /\ d = Lib => ~registered
    /\ \A c \in {d} \cup Children(d) : \A f \in FilesIn(c) : ~Exists(f) /\ f \notin temps

\* Every recorded hollow directory goes.  _rmdir_empty also takes the hollow
\* children of a recorded directory it meets before one that is not, in the
\* order the file system lists them: any set of them.  A recorded path that is
\* already gone stays in the record.
PruneCreated(registered) ==
    LET known == recorded \cup created
        empty == {d \in known : Hollow(d, registered)}
        below == {d \in dirs : Parent(d) \in known /\ Hollow(d, registered)}
    IN  \E gone \in SUBSET (empty \cup below) :
            /\ empty \subseteq gone
            /\ \A d \in empty : Children(d) \subseteq gone
            /\ dirs' = dirs \ gone
            /\ loose' = loose \ gone
            /\ owned' = owned \ gone
            /\ recorded' = IF Lib \in dirs \ gone THEN known \ empty ELSE {}
            /\ created' = {}
            /\ UNCHANGED <<file, temps>>

-----------------------------------------------------------------------------
(* Accounts.                                                               *)

\* useradd makes a group of the same name, with any id that is free: also one
\* that Caddy's process has kept from a group that is gone.
TakeGid(id) ==
    \/ UNCHANGED gids
    \/ /\ freed > 0
       /\ freed' = freed - 1
       /\ reissued' = reissued \cup {id}
       /\ UNCHANGED caddyGroups

\* useradd refuses a name that a group without an account still has.
LeftGroup(id) == id \in groups /\ users[id] = "none"

CreateUser(id) == /\ ~LeftGroup(id)
                  /\ users' = [users EXCEPT ![id] = "smallapp"]
                  /\ TakeGid(id)
                  /\ UNCHANGED groups

\* userdel takes the account's own group with it, and Caddy's membership, but
\* not the id from Caddy's running process; or (shadow's) it leaves a group that
\* still has a member.  An account that is already gone is fine.
DeleteUser(id) ==
    /\ users' = [users EXCEPT ![id] = "none"]
    /\ \/ /\ users[id] # "none"
          /\ groups' = groups \ {id}
          /\ freed' = IF id \in caddyGroups \cup reissued THEN freed + 1 ELSE freed
          /\ caddyGroups' = caddyGroups \ {id}
          /\ reissued' = reissued \ {id}
       \/ /\ users[id] = "none" \/ id \in groups
          /\ UNCHANGED <<groups, gids>>

AddGroupMember(id) == groups' = groups \cup {id} /\ UNCHANGED users
RemoveGroupMember(id) == groups' = groups \ {id} /\ UNCHANGED users

-----------------------------------------------------------------------------
(* systemd and Caddy (external programs, as the code drives them).         *)

\* What a process of service definition `def` has read once it is running: a
\* Python app its source and its environment, a gateway its env file.
Reads(def) ==
    CASE def.role = "gateway" -> <<file[Env(def.name)]>>
      [] def.kind = "static" -> <<>>
      [] def.deps -> <<file[Page(def.name, Entry)], file[Cache(def.name)]>>
      [] OTHER -> <<file[Page(def.name, Entry)]>>

Started(def) == [def |-> def, read |-> Reads(def)]

DaemonReload == /\ loaded' = [id \in Ids |-> file[Service(id)]]
                /\ UNCHANGED <<proc, served, gids>>

\* `systemctl enable --now` and `restart`.  Starting makes the StateDirectory
\* when it is missing, gives the tree to the unit when its root is not yet, and
\* sets its mode to 0755 each time: the units set no StateDirectoryMode.
Start(id) ==
    LET def == IF loaded[id] = None THEN file[Service(id)] ELSE loaded[id]
        dir == State(id)
    IN  /\ proc' = [proc EXCEPT ![id] = Started(def)]
        /\ loaded' = [loaded EXCEPT ![id] = def]
        /\ dirs' = dirs \cup {dir}
        /\ loose' = loose \cup {dir}
        /\ owned' = IF dir \in owned THEN owned
                    ELSE owned \cup {dir} \cup {f \in FilesIn(dir) : Exists(f)}
        /\ UNCHANGED <<file, temps, served, gids>>

\* `systemctl disable` fails on a unit that has no file.
Disables(id) == Exists(Service(id))
Disable(id) == /\ proc' = [proc EXCEPT ![id] = None]
               /\ UNCHANGED <<loaded, served, gids>>

Vhosts == [n \in Names |-> file[Vhost(n)]]

CaddyReload == /\ served' = Vhosts
               /\ UNCHANGED <<loaded, proc, gids>>

\* Supplementary groups are read once, when the process starts.
CaddyRestart == /\ served' = Vhosts
                /\ caddyGroups' = groups /\ freed' = 0 /\ reissued' = {}
                /\ UNCHANGED <<loaded, proc>>
=============================================================================
