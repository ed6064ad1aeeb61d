----------------------------- MODULE Allocation -----------------------------
(***************************************************************************)
(* Several commands at once: `apply` and `rm` as processes that take the   *)
(* lock of System.lock, which is a flock on the inode of /var/lib/smallapp,*)
(* and read and write registry.json under it.  Reads and writes are steps  *)
(* of their own, since nothing but the lock keeps them together; what a    *)
(* command does besides (Apply.tla) does not touch what is modelled here.  *)
(*                                                                         *)
(* The lock is only as good as the directory: one process may wait for the *)
(* lock on an inode that another unlinks by pruning the directory, while a *)
(* third makes the directory, and with it the lock, anew.                  *)
(***************************************************************************)
EXTENDS Ports

CONSTANTS
    Procs,        \* processes, each running one command after another
    Inodes,       \* identities of the directory, more than there are processes
    OneOperator   \* does nobody run `rm` beside another command, as system.py says?

\* However many directories are open, there is a new one.
ASSUME InodesAssumption ==
    /\ None \notin Inodes
    /\ \A open \in [Procs -> Inodes \cup {None}] :
           \E i \in Inodes : \A p \in Procs : open[p] # i

VARIABLES
    registry,     \* registry.json; there is no such file when nothing is in it
    inode,        \* the directory /var/lib/smallapp, None when there is none
    recorded,     \* is the directory in created-dirs?
    hosts,        \* was it there before smallapp?
    proc,         \* proc[p]: what process p is doing
    reported      \* history: units whose apply succeeded, and not removed since

vars == <<registry, inode, recorded, hosts, proc, reported>>

Empty == [n \in Names |-> None]

\* The steps between flock and close.
Locked ==
    {"apply", "put", "save", "put again", "save again", "flush", "rm", "drop", "save drop", "prune"}
Steps == {"idle", "mkdir", "open", "flock"} \cup Locked

Idle ==
    [at    |-> "idle",
     verb  |-> None,       \* the command's verb and unit
     unit  |-> None,
     fd    |-> None,       \* the directory it has opened
     seen  |-> Empty,      \* the registry as it last loaded it
     port  |-> None,       \* the application's port it was allocated
     made  |-> FALSE]      \* has it made the directory (System.created)?

Holding(p) == proc[p].at \in Locked

\* An inode that is not the directory's and that nobody has open.
Fresh == CHOOSE i \in Inodes : \A p \in Procs : proc[p].fd # i

Init ==
    /\ registry = Empty
    /\ recorded = FALSE
    /\ hosts \in BOOLEAN
    /\ inode = IF hosts THEN CHOOSE i \in Inodes : TRUE ELSE None
    /\ proc = [p \in Procs |-> Idle]
    /\ reported = {}

Goto(p, step) == proc' = [proc EXCEPT ![p].at = step]

\* The process ends; its descriptor is closed, and with that its lock is gone.
Exit(p) == proc' = [proc EXCEPT ![p] = Idle]

-----------------------------------------------------------------------------
(* Taking the lock.                                                        *)

\* "One box, one operator": no `rm` beside another command, unless the directory
\* is the host's own, which pruning leaves alone.
MayStart(verb) ==
    \/ ~OneOperator
    \/ hosts
    \/ \A q \in Procs : proc[q].at # "idle" => verb = "apply" /\ proc[q].verb = "apply"

\* mkdir_p looks whether the directory is there, and records it if not ...
Start(p, verb, n) ==
    /\ proc[p].at = "idle"
    /\ MayStart(verb)
    /\ proc' = [proc EXCEPT ![p] =
                    [Idle EXCEPT !.at = IF inode = None THEN "mkdir" ELSE "open",
                                 !.verb = verb, !.unit = n, !.made = inode = None]]
    /\ UNCHANGED <<registry, inode, recorded, hosts, reported>>

\* ... and makes it (exist_ok).
MkDir(p) ==
    /\ proc[p].at = "mkdir"
    /\ Goto(p, "open")
    /\ inode' = IF inode = None THEN Fresh ELSE inode
    /\ UNCHANGED <<registry, recorded, hosts, reported>>

\* FileNotFoundError if it has been pruned by now.
Open(p) ==
    /\ proc[p].at = "open"
    /\ IF inode = None
       THEN Exit(p)
       ELSE proc' = [proc EXCEPT ![p].at = "flock", ![p].fd = inode]
    /\ UNCHANGED <<registry, inode, recorded, hosts, reported>>

\* Mutant: the lock is a shared one.
Flock_Shared(p) ==
    /\ proc[p].at = "flock"
    /\ Goto(p, proc[p].verb)
    /\ UNCHANGED <<registry, inode, recorded, hosts, reported>>

Flock(p) ==
    /\ proc[p].at = "flock"
    /\ \A q \in Procs : Holding(q) => proc[q].fd # proc[p].fd
    /\ Goto(p, proc[p].verb)
    /\ UNCHANGED <<registry, inode, recorded, hosts, reported>>

-----------------------------------------------------------------------------
(* Reading and writing the registry.                                       *)

Load(p, step) ==
    /\ proc' = [proc EXCEPT ![p].at = step, ![p].seen = registry]
    /\ UNCHANGED <<registry, inode, recorded, hosts, reported>>

\* registry.save: writing the file makes the directory if need be.
Save(p, units, step) ==
    LET makes == units # Empty /\ inode = None
    IN  /\ registry' = units
        /\ inode' = IF makes THEN Fresh ELSE inode
        /\ proc' = [proc EXCEPT ![p].at = step, ![p].made = @ \/ makes]
        /\ UNCHANGED <<recorded, hosts>>

WithUnit(p) == [proc[p].seen EXCEPT ![proc[p].unit] = PortPair(proc[p].port)]
WithoutUnit(p) == [proc[p].seen EXCEPT ![proc[p].unit] = None]

-----------------------------------------------------------------------------
(* apply                                                                   *)

\* No free port: ValidationError.
Allocate(p) ==
    /\ proc[p].at = "apply"
    /\ LET found == AllocatePorts(proc[p].unit, registry)
       IN  IF found = None
           THEN Exit(p)
           ELSE proc' = [proc EXCEPT ![p].at = "put", ![p].port = found]
    /\ UNCHANGED <<registry, inode, recorded, hosts, reported>>

\* "no changes": the unit has an entry and nothing is written.
NoChanges(p) ==
    /\ proc[p].at = "put"
    /\ registry[proc[p].unit] # None
    /\ Exit(p)
    /\ reported' = reported \cup {proc[p].unit}
    /\ UNCHANGED <<registry, inode, recorded, hosts>>

\* registry.put before the side effects of the plan (complete=False) ...
PutLoad(p) == proc[p].at = "put" /\ Load(p, "save")
PutSave(p) ==
    /\ proc[p].at = "save"
    /\ Save(p, WithUnit(p), "put again")
    /\ UNCHANGED reported

\* ... and after them (complete=True).
PutLoadAgain(p) == proc[p].at = "put again" /\ Load(p, "save again")
PutSaveAgain(p) ==
    /\ proc[p].at = "save again"
    /\ Save(p, WithUnit(p), "flush")
    /\ UNCHANGED reported

\* flush_created; then the apply reports success.
Flush(p) ==
    /\ proc[p].at = "flush"
    /\ recorded' = (recorded \/ proc[p].made)
    /\ inode' = IF proc[p].made /\ inode = None THEN Fresh ELSE inode
    /\ Exit(p)
    /\ reported' = reported \cup {proc[p].unit}
    /\ UNCHANGED <<registry, hosts>>

-----------------------------------------------------------------------------
(* rm                                                                      *)

\* An unknown unit has nothing but the directory to give back.
Lookup(p) ==
    /\ proc[p].at = "rm"
    /\ Goto(p, IF registry[proc[p].unit] = None THEN "prune" ELSE "drop")
    /\ UNCHANGED <<registry, inode, recorded, hosts, reported>>

DropLoad(p) ==
    /\ proc[p].at = "drop"
    /\ Load(p, IF registry[proc[p].unit] = None THEN "prune" ELSE "save drop")

DropSave(p) ==
    /\ proc[p].at = "save drop"
    /\ Save(p, WithoutUnit(p), "prune")
    /\ reported' = reported \ {proc[p].unit}

\* Mutant: the recorded directory is removed with what is in it.
Prune_Tree(p) ==
    LET gone == recorded \/ proc[p].made
    IN  /\ proc[p].at = "prune"
        /\ inode' = IF gone THEN None ELSE inode
        /\ registry' = IF gone THEN Empty ELSE registry
        /\ recorded' = FALSE
        /\ Exit(p)
        /\ UNCHANGED <<hosts, reported>>

\* prune_created, and the command ends.  The directory goes if smallapp made it
\* and the registry is not in it.
Prune(p) ==
    LET candidate == recorded \/ proc[p].made
        gone == candidate /\ registry = Empty
    IN  /\ proc[p].at = "prune"
        /\ inode' = IF gone THEN None ELSE inode
        /\ recorded' = (candidate /\ ~gone /\ inode # None)
        /\ Exit(p)
        /\ UNCHANGED <<registry, hosts, reported>>

-----------------------------------------------------------------------------
\* A step of the plan or of the removal fails, or the process is killed.
Fail(p) ==
    /\ proc[p].at # "idle"
    /\ Exit(p)
    /\ UNCHANGED <<registry, inode, recorded, hosts, reported>>

Apply(p) ==
    \/ Allocate(p) \/ NoChanges(p) \/ PutLoad(p) \/ PutSave(p)
    \/ PutLoadAgain(p) \/ PutSaveAgain(p) \/ Flush(p)

Rm(p) == Lookup(p) \/ DropLoad(p) \/ DropSave(p) \/ Prune(p)

Next ==
    \E p \in Procs :
        \/ \E verb \in {"apply", "rm"}, n \in Names : Start(p, verb, n)
        \/ MkDir(p) \/ Open(p) \/ Flock(p)
        \/ Apply(p) \/ Rm(p) \/ Fail(p)

Spec == Init /\ [][Next]_vars

-----------------------------------------------------------------------------
(* Properties                                                              *)

Process ==
    [at : Steps, verb : {"apply", "rm", None}, unit : Names \cup {None},
     fd : Inodes \cup {None}, seen : [Names -> Entries],
     port : AppPorts \cup {None}, made : BOOLEAN]

TypeOK ==
    /\ registry \in [Names -> Entries]
    /\ inode \in Inodes \cup {None}
    /\ recorded \in BOOLEAN
    /\ hosts \in BOOLEAN
    /\ proc \in [Procs -> Process]
    /\ reported \subseteq Names

\* What the lock is for: at most one command at a time is between flock and
\* close (system.py:206, "Serialise port allocation through registration").
MutualExclusion == \A p, q \in Procs : Holding(p) /\ Holding(q) => p = q

\* No unit whose apply reported success, and which nobody has removed, is missing
\* from the registry: no process overwrites it with what it read before
\* (registry.py:55, put loads, changes and saves; test_apply.py:301).
NothingLost == \A n \in reported : registry[n] # None

\* What a reader of registry.json sees is one unit coming or going at a time,
\* each with the first free port (Registry.tla), although put and drop read and
\* write in separate steps, the port was chosen earlier still, and any process
\* may end at any moment.
R == INSTANCE Registry
Atomic == R!Spec

\* No port is any two services' (specs/smallapp-unit.md:269).
PortsDistinct == R!PortsDistinct
=============================================================================
