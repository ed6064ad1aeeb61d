-------------------------- MODULE AllocationProofs --------------------------
(***************************************************************************)
(* Allocation under the rule of its documentation, one operator: the lock  *)
(* excludes, no reported unit is lost, and the registry is an atomic one,  *)
(* for any number of processes and units and any hash.                     *)
(***************************************************************************)
EXTENDS Allocation, TLAPS

Busy(p) == proc[p].at # "idle"

\* The steps of apply and of rm under the lock.
ApplySteps == {"apply", "put", "save", "put again", "save again", "flush"}
RmSteps == {"rm", "drop", "save drop", "prune"}

\* What process p knows of the registry and the directory still holds.
Current(p) ==
    LET r == proc[p]
    IN  /\ Busy(p) => r.verb \in {"apply", "rm"} /\ r.unit \in Names
        /\ r.at \in ApplySteps => r.verb = "apply"
        /\ r.at \in RmSteps => r.verb = "rm"
        /\ r.at \in Locked \cup {"flock"} => r.fd = inode /\ inode # None
        /\ hosts => ~r.made
        /\ r.at \in {"save", "save again", "save drop"} => r.seen = registry
        /\ r.at \in {"put", "save"} =>
               r.port # None /\ r.port = AllocatePorts(r.unit, registry)
        /\ r.at \in {"put again", "save again", "flush"} =>
               r.port # None /\ registry[r.unit] = PortPair(r.port)

\* One at a time under the lock, and no rm beside another command.
Apart(p, q) ==
    /\ ~(Holding(p) /\ Holding(q))
    /\ hosts \/ ~Busy(p) \/ ~Busy(q) \/ (proc[p].verb = "apply" /\ proc[q].verb = "apply")

HostsKept == hosts => inode # None /\ ~recorded

Inv ==
    /\ TypeOK
    /\ NothingLost
    /\ HostsKept
    /\ \A p \in Procs : Current(p)
    /\ \A p, q \in Procs : p # q => Apart(p, q)

\* Where the probing stops, the port is free.
LEMMA PortForFree ==
    ASSUME NEW n \in Names, NEW taken, PortFor(n, taken) # None
    PROVE  PortFor(n, taken) \in AppPorts \ taken
  BY PortsAssumption DEF PortFor, FirstFree, Probe, AppPorts

LEMMA PairPort == \A x : PortPair(x).port = x
  BY DEF PortPair

LEMMA InvExcludes == Inv => MutualExclusion
  BY DEF Inv, Apart, MutualExclusion

\* A step of p that is its own business: the registry and the directory stay.
LEMMA OwnStep ==
    ASSUME Inv, NEW p \in Procs, proc' \in [Procs -> Process],
           \A q \in Procs \ {p} : proc'[q] = proc[q],
           UNCHANGED <<registry, inode, recorded, hosts, reported>>,
           Current(p)',
           \A q \in Procs \ {p} : Apart(p, q)'
    PROVE  Inv'
  <1>1. TypeOK' /\ NothingLost' /\ HostsKept'
    BY DEF Inv, TypeOK, NothingLost, HostsKept, Process
  <1>2. \A q \in Procs : Current(q)'
    <2> SUFFICES ASSUME NEW q \in Procs \ {p} PROVE Current(q)'
        OBVIOUS
    <2>1. Current(q)
        BY DEF Inv
    <2> QED BY <2>1 DEF Current, Busy
  <1>3. \A q, r \in Procs : q # r => Apart(q, r)'
    <2> SUFFICES ASSUME NEW q \in Procs, NEW r \in Procs, q # r PROVE Apart(q, r)'
        OBVIOUS
    <2>1. CASE q = p \/ r = p
        BY <2>1 DEF Apart, Holding, Busy
    <2>2. CASE q # p /\ r # p
        <3>1. Apart(q, r)
            BY DEF Inv
        <3> QED BY <2>2, <3>1 DEF Apart, Holding, Busy
    <2> QED BY <2>1, <2>2
  <1> QED BY <1>1, <1>2, <1>3 DEF Inv

\* If p goes on with its command, without newly taking the lock, nobody minds.
LEMMA StaysApart ==
    ASSUME Inv, NEW p \in Procs, NEW q \in Procs \ {p}, proc'[q] = proc[q], hosts' = hosts,
           Holding(p)' => Holding(p),
           Busy(p)' => Busy(p) /\ proc'[p].verb = proc[p].verb
    PROVE  Apart(p, q)'
  <1>1. Apart(p, q)
    BY DEF Inv
  <1> QED BY <1>1 DEF Apart, Holding, Busy

LEMMA FreshDirectory ==
    ASSUME TypeOK
    PROVE  Fresh \in Inodes /\ Fresh # None
  <1>1. [q \in Procs |-> proc[q].fd] \in [Procs -> Inodes \cup {None}]
    BY DEF TypeOK, Process
  <1>2. \E i \in Inodes : \A q \in Procs : proc[q].fd # i
    BY <1>1, InodesAssumption
  <1> QED BY <1>2, InodesAssumption DEF Fresh

LEMMA IdleTyped == Idle \in Process /\ Idle.at = "idle"
  BY DEF Idle, Process, Steps, Empty, Entries

\* A process may end at any step: what it leaves is what the others can work with.
LEMMA ExitInv ==
    ASSUME Inv, NEW p \in Procs, Exit(p), Busy(p),
           UNCHANGED <<registry, inode, recorded, hosts, reported>>
    PROVE  Inv'
  <1>1. /\ proc' \in [Procs -> Process]
        /\ \A q \in Procs \ {p} : proc'[q] = proc[q]
        /\ proc'[p] = Idle
    BY IdleTyped DEF Exit, Inv, TypeOK
  <1>2. Current(p)'
    BY <1>1 DEF Current, Busy, Idle, ApplySteps, RmSteps, Locked
  <1>3. \A q \in Procs \ {p} : Apart(p, q)'
    BY <1>1 DEF Apart, Busy, Holding, Idle, Locked
  <1> QED BY <1>1, <1>2, <1>3, OwnStep

LEMMA StartInv ==
    ASSUME Inv, OneOperator, NEW p \in Procs, NEW verb \in {"apply", "rm"}, NEW n \in Names,
           Start(p, verb, n)
    PROVE  Inv'
  <1> DEFINE step == IF inode = None THEN "mkdir" ELSE "open"
             r == [Idle EXCEPT !.at = step, !.verb = verb, !.unit = n, !.made = inode = None]
  <1>1. /\ r \in Process
        /\ r.at \in {"mkdir", "open"}
        /\ r.verb = verb
        /\ r.unit = n
        /\ r.made = (inode = None)
    <2>1. step \in {"mkdir", "open"} /\ (inode = None) \in BOOLEAN
      OBVIOUS
    <2>2. Idle \in Process /\ {"mkdir", "open"} \subseteq Steps
      BY IdleTyped DEF Steps
    <2> HIDE DEF step
    <2>3. r \in Process
      BY <2>1, <2>2 DEF Process
    <2>4. r.at = step /\ r.verb = verb /\ r.unit = n /\ r.made = (inode = None)
      BY <2>2 DEF Process
    <2> QED BY <2>1, <2>3, <2>4
  <1>2. proc' = [proc EXCEPT ![p] = r]
    BY DEF Start
  <1> HIDE DEF r
  <1>3. /\ proc' \in [Procs -> Process]
        /\ \A q \in Procs \ {p} : proc'[q] = proc[q]
        /\ proc'[p] = r
    BY <1>1, <1>2 DEF Inv, TypeOK
  <1>4. UNCHANGED <<registry, inode, recorded, hosts, reported>>
    BY DEF Start
  <1>5. Current(p)'
    BY <1>1, <1>3, <1>4 DEF Current, Busy, ApplySteps, RmSteps, Locked, Inv, HostsKept
  <1>6. \A q \in Procs \ {p} : Apart(p, q)'
    BY <1>1, <1>3, <1>4 DEF Apart, Busy, Holding, Locked, Start, MayStart
  <1> QED BY <1>3, <1>4, <1>5, <1>6, OwnStep

LEMMA MkDirInv ==
    ASSUME Inv, NEW p \in Procs, MkDir(p)
    PROVE  Inv'
  <1>1. /\ proc' \in [Procs -> Process]
        /\ \A q \in Procs \ {p} : proc'[q] = proc[q]
        /\ proc'[p] = [proc[p] EXCEPT !.at = "open"]
    BY DEF MkDir, Goto, Inv, TypeOK, Process, Steps
  <1>2. UNCHANGED <<registry, recorded, hosts, reported>>
    BY DEF MkDir
  <1>3. Current(p)' /\ \A q \in Procs \ {p} : Apart(p, q)'
    <2>1. Current(p) /\ proc[p] \in Process /\ proc[p].at = "mkdir"
        BY DEF Inv, TypeOK, MkDir
    <2>2. Current(p)'
        BY <1>1, <1>2, <2>1 DEF Current, Busy, ApplySteps, RmSteps, Locked, Process
    <2>3. \A q \in Procs \ {p} : Apart(p, q)'
        BY <1>1, <1>2, <2>1, StaysApart DEF Busy, Holding, Locked, Process
    <2> QED BY <2>2, <2>3
  <1>4. CASE inode # None
    BY <1>1, <1>2, <1>3, <1>4, OwnStep DEF MkDir
  <1>5. CASE inode = None
    <2>1. inode' \in Inodes /\ inode' # None
        BY <1>5, FreshDirectory DEF MkDir, Inv
    <2>2. \A q \in Procs : Current(q)'
        <3> SUFFICES ASSUME NEW q \in Procs \ {p} PROVE Current(q)'
            BY <1>3
        <3>1. Current(q)
            BY DEF Inv
        <3> QED BY <1>1, <1>2, <1>5, <3>1 DEF Current, Busy
    <2>3. \A q, r \in Procs : q # r => Apart(q, r)'
        <3> SUFFICES ASSUME NEW q \in Procs, NEW r \in Procs, q # r PROVE Apart(q, r)'
            OBVIOUS
        <3>1. CASE q = p \/ r = p
            BY <1>3, <3>1 DEF Apart, Holding, Busy
        <3>2. CASE q # p /\ r # p
            <4>1. Apart(q, r)
                BY DEF Inv
            <4> QED BY <1>1, <1>2, <3>2, <4>1 DEF Apart, Holding, Busy
        <3> QED BY <3>1, <3>2
    <2>4. TypeOK' /\ NothingLost' /\ HostsKept'
        BY <1>1, <1>2, <1>5, <2>1 DEF Inv, TypeOK, NothingLost, HostsKept
    <2> QED BY <2>2, <2>3, <2>4 DEF Inv
  <1> QED BY <1>4, <1>5

LEMMA OpenInv ==
    ASSUME Inv, NEW p \in Procs, Open(p)
    PROVE  Inv'
  <1>0. /\ UNCHANGED <<registry, inode, recorded, hosts, reported>>
        /\ proc[p].at = "open" /\ proc[p] \in Process /\ Current(p) /\ Busy(p)
    BY DEF Open, Inv, TypeOK, Busy
  <1>1. CASE inode = None
    BY <1>0, <1>1, ExitInv DEF Open
  <1>2. CASE inode # None
    <2>1. /\ proc' \in [Procs -> Process]
          /\ \A q \in Procs \ {p} : proc'[q] = proc[q]
          /\ proc'[p] = [proc[p] EXCEPT !.at = "flock", !.fd = inode]
        <3>1. [proc[p] EXCEPT !.at = "flock", !.fd = inode] \in Process
            BY <1>0 DEF Inv, TypeOK, Process, Steps
        <3>2. proc' = [proc EXCEPT ![p] = [proc[p] EXCEPT !.at = "flock", !.fd = inode]]
            BY <1>0, <1>2 DEF Open, Inv, TypeOK, Process
        <3> QED BY <3>1, <3>2 DEF Inv, TypeOK
    <2>2. Current(p)'
        BY <1>0, <1>2, <2>1 DEF Current, Busy, ApplySteps, RmSteps, Locked, Process
    <2>3. \A q \in Procs \ {p} : Apart(p, q)'
        BY <1>0, <2>1, StaysApart DEF Busy, Holding, Locked, Process
    <2> QED BY <1>0, <2>1, <2>2, <2>3, OwnStep
  <1> QED BY <1>1, <1>2

\* Whoever holds the lock has opened the directory there is, as the one who asks
\* for it has; so the kernel, which compares inodes, keeps them apart.
LEMMA FlockInv ==
    ASSUME Inv, NEW p \in Procs, Flock(p)
    PROVE  Inv'
  <1>0. /\ UNCHANGED <<registry, inode, recorded, hosts, reported>>
        /\ proc[p].at = "flock" /\ proc[p] \in Process /\ Current(p) /\ Busy(p)
        /\ proc[p].verb \in {"apply", "rm"}
    BY DEF Flock, Inv, TypeOK, Busy, Current
  <1>1. /\ proc' \in [Procs -> Process]
        /\ \A q \in Procs \ {p} : proc'[q] = proc[q]
        /\ proc'[p] = [proc[p] EXCEPT !.at = proc[p].verb]
    BY <1>0 DEF Flock, Goto, Inv, TypeOK, Process, Steps, Locked
  <1>2. Current(p)'
    BY <1>0, <1>1 DEF Current, Busy, ApplySteps, RmSteps, Locked, Process
  <1>3. \A q \in Procs \ {p} : Apart(p, q)'
    <2> SUFFICES ASSUME NEW q \in Procs \ {p} PROVE Apart(p, q)'
        OBVIOUS
    <2>1. Current(q) /\ Apart(p, q)
        BY DEF Inv
    <2>2. ~Holding(q)
        BY <1>0, <2>1 DEF Flock, Holding, Current
    <2> QED BY <1>0, <1>1, <2>1, <2>2 DEF Apart, Busy, Holding, Process, Locked
  <1> QED BY <1>0, <1>1, <1>2, <1>3, OwnStep

-----------------------------------------------------------------------------
(* Under the lock.                                                         *)

\* While p holds the lock, what the others know of the registry does not matter:
\* p may change it.
LEMMA HolderStep ==
    ASSUME Inv, NEW p \in Procs, Holding(p), proc' \in [Procs -> Process],
           \A q \in Procs \ {p} : proc'[q] = proc[q],
           UNCHANGED <<inode, hosts>>,
           registry' \in [Names -> Entries], reported' \subseteq Names,
           recorded' \in BOOLEAN, NothingLost', HostsKept',
           Current(p)',
           Busy(p)' => proc'[p].verb = proc[p].verb
    PROVE  Inv'
  <1>1. \A q \in Procs \ {p} : ~Holding(q) /\ Current(q)
    BY DEF Inv, Apart
  <1>2. \A q \in Procs : Current(q)'
    <2> SUFFICES ASSUME NEW q \in Procs \ {p} PROVE Current(q)'
        OBVIOUS
    <2> QED BY <1>1 DEF Current, Holding, Busy, ApplySteps, RmSteps, Locked
  <1>3. Busy(p)
    BY DEF Holding, Busy, Locked
  <1>4. \A q, r \in Procs : q # r => Apart(q, r)'
    <2> SUFFICES ASSUME NEW q \in Procs, NEW r \in Procs, q # r PROVE Apart(q, r)'
        OBVIOUS
    <2>1. Apart(q, r)
        BY DEF Inv
    <2>2. CASE q = p
        BY <1>3, <2>1, <2>2, StaysApart
    <2>3. CASE r = p
        <3>1. Apart(r, q)'
            BY <1>3, <2>3, StaysApart
        <3> QED BY <3>1 DEF Apart
    <2>4. CASE q # p /\ r # p
        BY <2>1, <2>4 DEF Apart, Holding, Busy
    <2> QED BY <2>2, <2>3, <2>4
  <1>5. TypeOK'
    BY DEF Inv, TypeOK
  <1> QED BY <1>2, <1>4, <1>5 DEF Inv

\* p goes from one step under the lock to another, or ends.
LEMMA Holder ==
    ASSUME Inv, NEW p \in Procs, proc[p].at \in Locked
    PROVE  /\ Holding(p)
           /\ Busy(p)
           /\ Current(p)
           /\ inode # None
           /\ proc[p] \in Process
           /\ proc[p].unit \in Names
           /\ proc[p].verb \in {"apply", "rm"}
  BY DEF Inv, TypeOK, Holding, Busy, Locked, Current

LEMMA AllocateInv ==
    ASSUME Inv, NEW p \in Procs, Allocate(p)
    PROVE  Inv'
  <1>0. /\ UNCHANGED <<registry, inode, recorded, hosts, reported>>
        /\ proc[p].at = "apply" /\ proc[p].at \in Locked
    BY DEF Allocate, Locked
  <1> DEFINE found == AllocatePorts(proc[p].unit, registry)
  <1>1. CASE found = None
    BY <1>0, <1>1, ExitInv, Holder DEF Allocate
  <1>2. CASE found # None
    <2>1. found \in AppPorts
        <3>1. CASE proc[p].unit \in Registered(registry)
            <4>1. PICK x \in AppPorts : registry[proc[p].unit] = PortPair(x)
                BY <3>1 DEF Inv, TypeOK, Registered, Entries
            <4>2. registry[proc[p].unit].port = x
                BY <4>1, PairPort
            <4> QED BY <3>1, <4>2 DEF AllocatePorts
        <3>2. CASE proc[p].unit \notin Registered(registry)
            BY <1>0, <1>2, <3>2, PortForFree, Holder DEF AllocatePorts
        <3> QED BY <3>1, <3>2
    <2>a. proc' = [proc EXCEPT ![p].at = "put", ![p].port = found]
        BY <1>2 DEF Allocate
    <2> HIDE DEF found
    <2>2. /\ proc' \in [Procs -> Process]
          /\ \A q \in Procs \ {p} : proc'[q] = proc[q]
          /\ proc'[p] = [proc[p] EXCEPT !.at = "put", !.port = found]
        <3>1. [proc[p] EXCEPT !.at = "put", !.port = found] \in Process
            BY <1>0, <2>1, Holder DEF Process, Steps, Locked
        <3>2. proc' = [proc EXCEPT ![p] = [proc[p] EXCEPT !.at = "put", !.port = found]]
            BY <1>0, <2>a, Holder DEF Inv, TypeOK, Process
        <3> QED BY <3>1, <3>2 DEF Inv, TypeOK
    <2>3. Current(p)'
        <3>1. found = AllocatePorts(proc[p].unit, registry)
            BY DEF found
        <3> QED BY <1>0, <1>2, <2>2, <3>1, Holder
                DEF Current, Busy, ApplySteps, RmSteps, Locked, Process
    <2>4. \A q \in Procs \ {p} : Apart(p, q)'
        BY <1>0, <2>2, Holder, StaysApart DEF Process
    <2> QED BY <1>0, <2>2, <2>3, <2>4, OwnStep
  <1> QED BY <1>1, <1>2

\* What the process that ends without changing anything reports is there.
LEMMA ReportInv ==
    ASSUME Inv, NEW p \in Procs, Holding(p), Exit(p), registry[proc[p].unit] # None,
           reported' = reported \cup {proc[p].unit},
           recorded' \in BOOLEAN, hosts => recorded' = recorded,
           UNCHANGED <<registry, inode, hosts>>
    PROVE  Inv'
  <1>1. /\ proc' \in [Procs -> Process]
        /\ \A q \in Procs \ {p} : proc'[q] = proc[q]
        /\ proc'[p] = Idle
    BY IdleTyped DEF Exit, Inv, TypeOK
  <1>2. Current(p)' /\ ~Busy(p)'
    BY <1>1 DEF Current, Busy, Idle, ApplySteps, RmSteps, Locked
  <1>3. NothingLost' /\ HostsKept' /\ reported' \subseteq Names
    BY Holder DEF Inv, TypeOK, NothingLost, HostsKept, Holding
  <1> QED BY <1>1, <1>2, <1>3, HolderStep DEF Inv, TypeOK

LEMMA NoChangesInv ==
    ASSUME Inv, NEW p \in Procs, NoChanges(p)
    PROVE  Inv'
  BY ReportInv DEF NoChanges, Holding, Locked, Inv, TypeOK

LEMMA FlushInv ==
    ASSUME Inv, NEW p \in Procs, Flush(p)
    PROVE  Inv'
  <1>1. Holding(p) /\ Current(p) /\ inode # None /\ proc[p] \in Process
    BY Holder DEF Flush, Locked
  <1>2. registry[proc[p].unit] # None
    <2>1. registry[proc[p].unit] = PortPair(proc[p].port) /\ proc[p].port # None
        BY <1>1 DEF Flush, Current
    <2>2. proc[p].port \in AppPorts
        BY <1>1, <2>1 DEF Process
    <2> QED BY <2>1, <2>2, NoPortAssumption
  <1>3. recorded' \in BOOLEAN /\ (hosts => recorded' = recorded)
    BY <1>1 DEF Flush, Current, Inv, TypeOK, Process
  <1> QED BY <1>1, <1>2, <1>3, ReportInv DEF Flush

\* What is loaded is current as long as the lock is held.
LEMMA LoadInv ==
    ASSUME Inv, NEW p \in Procs, NEW step \in {"save", "save again", "save drop", "prune"},
           Load(p, step),
           \/ proc[p].at = "put" /\ step = "save"
           \/ proc[p].at = "put again" /\ step = "save again"
           \/ proc[p].at = "drop" /\ step \in {"save drop", "prune"}
    PROVE  Inv'
  <1>0. /\ UNCHANGED <<registry, inode, recorded, hosts, reported>>
        /\ proc[p].at \in Locked
    BY DEF Load, Locked
  <1>1. /\ proc' \in [Procs -> Process]
        /\ \A q \in Procs \ {p} : proc'[q] = proc[q]
        /\ proc'[p] = [proc[p] EXCEPT !.at = step, !.seen = registry]
    <2>1. [proc[p] EXCEPT !.at = step, !.seen = registry] \in Process
        BY <1>0, Holder DEF Process, Steps, Locked, Inv, TypeOK
    <2>2. proc' = [proc EXCEPT ![p] = [proc[p] EXCEPT !.at = step, !.seen = registry]]
        BY <1>0, Holder DEF Load, Inv, TypeOK, Process
    <2> QED BY <2>1, <2>2 DEF Inv, TypeOK
  <1>2. Current(p)'
    BY <1>0, <1>1, Holder DEF Current, Busy, ApplySteps, RmSteps, Locked, Process
  <1>3. \A q \in Procs \ {p} : Apart(p, q)'
    BY <1>0, <1>1, Holder, StaysApart DEF Process
  <1> QED BY <1>0, <1>1, <1>2, <1>3, OwnStep

LEMMA LookupInv ==
    ASSUME Inv, NEW p \in Procs, Lookup(p)
    PROVE  Inv'
  <1> DEFINE step == IF registry[proc[p].unit] = None THEN "prune" ELSE "drop"
  <1>0. /\ UNCHANGED <<registry, inode, recorded, hosts, reported>>
        /\ proc[p].at = "rm" /\ proc[p].at \in Locked /\ step \in {"prune", "drop"}
    BY DEF Lookup, Locked
  <1>1. proc' = [proc EXCEPT ![p].at = step]
    BY DEF Lookup, Goto
  <1> HIDE DEF step
  <1>2. /\ proc' \in [Procs -> Process]
        /\ \A q \in Procs \ {p} : proc'[q] = proc[q]
        /\ proc'[p] = [proc[p] EXCEPT !.at = step]
    <2>1. [proc[p] EXCEPT !.at = step] \in Process
        BY <1>0, Holder DEF Process, Steps, Locked
    <2>2. proc' = [proc EXCEPT ![p] = [proc[p] EXCEPT !.at = step]]
        BY <1>0, <1>1, Holder DEF Inv, TypeOK, Process
    <2> QED BY <2>1, <2>2 DEF Inv, TypeOK
  <1>3. Current(p)'
    BY <1>0, <1>2, Holder DEF Current, Busy, ApplySteps, RmSteps, Locked, Process
  <1>4. \A q \in Procs \ {p} : Apart(p, q)'
    BY <1>0, <1>2, Holder, StaysApart DEF Process
  <1> QED BY <1>0, <1>2, <1>3, <1>4, OwnStep

\* Under a live lock, saving finds the directory, and changes one unit's entry:
\* what p has seen is what is there.
LEMMA SaveShape ==
    ASSUME Inv, NEW p \in Procs, NEW units, NEW step \in Locked, proc[p].at \in Locked,
           Save(p, units, step)
    PROVE  /\ registry' = units
           /\ UNCHANGED <<inode, recorded, hosts>>
           /\ proc' \in [Procs -> Process]
           /\ \A q \in Procs \ {p} : proc'[q] = proc[q]
           /\ proc'[p] = [proc[p] EXCEPT !.at = step]
  <1>1. inode # None /\ proc[p] \in Process
    BY Holder
  <1>2. registry' = units /\ UNCHANGED <<inode, recorded, hosts>>
    BY <1>1 DEF Save
  <1>3. proc' = [proc EXCEPT ![p].at = step, ![p].made = @ \/ FALSE]
    BY <1>1 DEF Save
  <1>4. proc' = [proc EXCEPT ![p] = [proc[p] EXCEPT !.at = step]]
    BY <1>1, <1>3 DEF Inv, TypeOK, Process
  <1>5. [proc[p] EXCEPT !.at = step] \in Process
    BY <1>1 DEF Process, Steps
  <1> QED BY <1>2, <1>4, <1>5 DEF Inv, TypeOK

LEMMA PutInv ==
    ASSUME Inv, NEW p \in Procs, NEW step \in {"put again", "flush"},
           proc[p].at \in {"save", "save again"},
           Save(p, WithUnit(p), step), UNCHANGED reported
    PROVE  Inv'
  <1> DEFINE n == proc[p].unit
             pair == PortPair(proc[p].port)
  <1>1. /\ proc[p].at \in Locked /\ step \in Locked
        /\ Current(p) /\ proc[p] \in Process /\ n \in Names
    BY Holder DEF Locked
  <1>2. proc[p].seen = registry /\ proc[p].port \in AppPorts /\ proc[p].port # None
    BY <1>1 DEF Current, Process
  <1>3. pair \in Entries /\ pair # None
    BY <1>2, NoPortAssumption DEF Entries
  <1>4. /\ UNCHANGED <<inode, recorded, hosts>>
        /\ proc' \in [Procs -> Process]
        /\ \A q \in Procs \ {p} : proc'[q] = proc[q]
        /\ proc'[p] = [proc[p] EXCEPT !.at = step]
        /\ registry' = [registry EXCEPT ![n] = pair]
    <2>1. registry' = WithUnit(p)
        BY <1>1, SaveShape
    <2> QED BY <1>1, <1>2, <2>1, SaveShape DEF WithUnit
  <1> HIDE DEF pair
  <1>5. registry' \in [Names -> Entries] /\ registry'[n] = pair
    BY <1>1, <1>3, <1>4 DEF Inv, TypeOK
  <1>6. Current(p)'
    <2>1. registry'[n] = PortPair(proc[p].port)
        BY <1>5 DEF pair
    <2> QED BY <1>1, <1>2, <1>4, <2>1 DEF Current, Busy, ApplySteps, RmSteps, Locked, Process
  <1>7. NothingLost' /\ HostsKept' /\ recorded' \in BOOLEAN /\ reported' \subseteq Names
    BY <1>1, <1>3, <1>4 DEF Inv, TypeOK, NothingLost, HostsKept
  <1> QED BY <1>1, <1>4, <1>5, <1>6, <1>7, HolderStep DEF Holding, Process

LEMMA DropInv ==
    ASSUME Inv, NEW p \in Procs, DropSave(p)
    PROVE  Inv'
  <1> DEFINE n == proc[p].unit
  <1>1. /\ proc[p].at \in Locked /\ "prune" \in Locked /\ proc[p].at = "save drop"
        /\ Current(p) /\ proc[p] \in Process /\ n \in Names
    BY Holder DEF Locked, DropSave
  <1>2. proc[p].seen = registry
    BY <1>1 DEF Current
  <1>3. /\ UNCHANGED <<inode, recorded, hosts>>
        /\ proc' \in [Procs -> Process]
        /\ \A q \in Procs \ {p} : proc'[q] = proc[q]
        /\ proc'[p] = [proc[p] EXCEPT !.at = "prune"]
        /\ registry' = [registry EXCEPT ![n] = None]
    <2>1. Save(p, WithoutUnit(p), "prune")
        BY DEF DropSave
    <2>2. registry' = WithoutUnit(p)
        BY <1>1, <2>1, SaveShape
    <2> QED BY <1>1, <1>2, <2>1, <2>2, SaveShape DEF WithoutUnit
  <1>4. registry' \in [Names -> Entries]
    BY <1>3 DEF Inv, TypeOK, Entries
  <1>5. Current(p)'
    BY <1>1, <1>3 DEF Current, Busy, ApplySteps, RmSteps, Locked, Process
  <1>6. NothingLost' /\ HostsKept' /\ recorded' \in BOOLEAN /\ reported' \subseteq Names
    BY <1>1, <1>3 DEF Inv, TypeOK, NothingLost, HostsKept, DropSave
  <1> QED BY <1>1, <1>3, <1>4, <1>5, <1>6, HolderStep DEF Holding, Process

\* Where the directory may go, nobody else is about: rm runs alone.
LEMMA PruneInv ==
    ASSUME Inv, NEW p \in Procs, Prune(p)
    PROVE  Inv'
  <1>1. /\ Holding(p) /\ Busy(p) /\ Current(p) /\ inode # None /\ proc[p] \in Process
        /\ proc[p].verb = "rm"
    BY Holder DEF Prune, Locked, Current, RmSteps
  <1>2. /\ proc' \in [Procs -> Process]
        /\ \A q \in Procs \ {p} : proc'[q] = proc[q]
        /\ proc'[p] = Idle
    BY IdleTyped DEF Prune, Exit, Inv, TypeOK
  <1>3. UNCHANGED <<registry, hosts, reported>> /\ recorded' \in BOOLEAN
    BY <1>1 DEF Prune
  <1>4. Current(p)' /\ ~Busy(p)'
    BY <1>2 DEF Current, Busy, Idle, ApplySteps, RmSteps, Locked
  <1>5. NothingLost'
    BY <1>3 DEF Inv, NothingLost
  <1>6. CASE hosts
    <2>1. ~recorded /\ ~proc[p].made
        BY <1>1, <1>6 DEF Current, Inv, HostsKept
    <2>2. UNCHANGED <<inode, recorded>>
        BY <2>1 DEF Prune, Inv, TypeOK
    <2> QED BY <1>1, <1>2, <1>3, <1>4, <1>5, <1>6, <2>2, HolderStep DEF Inv, TypeOK, HostsKept
  <1>7. CASE ~hosts
    <2>1. \A q \in Procs \ {p} : ~Busy(q)
        BY <1>1, <1>7 DEF Inv, Apart
    <2>2. \A q \in Procs : ~Busy(q)'
        BY <1>2, <1>4, <2>1 DEF Busy
    <2>3. \A q \in Procs : Current(q)'
        BY <1>3, <1>7, <2>2 DEF Current, Busy, ApplySteps, RmSteps, Locked
    <2>4. \A q, r \in Procs : Apart(q, r)'
        BY <2>2 DEF Apart, Holding, Busy, Locked
    <2>5. TypeOK' /\ HostsKept'
        BY <1>2, <1>3, <1>7 DEF Inv, TypeOK, HostsKept, Prune
    <2> QED BY <1>5, <2>3, <2>4, <2>5 DEF Inv
  <1> QED BY <1>6, <1>7

LEMMA FailInv ==
    ASSUME Inv, NEW p \in Procs, Fail(p)
    PROVE  Inv'
  BY ExitInv DEF Fail, Busy

-----------------------------------------------------------------------------

LEMMA InitInv == Init => Inv
  <1> SUFFICES ASSUME Init PROVE Inv
    OBVIOUS
  <1>1. inode \in Inodes \cup {None} /\ (hosts => inode # None)
    <2>1. [q \in Procs |-> None] \in [Procs -> Inodes \cup {None}]
        OBVIOUS
    <2>2. \E i \in Inodes : TRUE
        BY <2>1, InodesAssumption
    <2> QED BY <2>2, InodesAssumption DEF Init
  <1>2. TypeOK
    BY <1>1, IdleTyped DEF Init, TypeOK, Empty, Entries
  <1>3. \A p \in Procs : ~Busy(p) /\ Current(p)
    BY IdleTyped DEF Init, Busy, Current, ApplySteps, RmSteps, Locked, Idle
  <1>4. \A p, q \in Procs : Apart(p, q)
    BY <1>3 DEF Apart, Busy, Holding, Locked
  <1> QED BY <1>1, <1>2, <1>3, <1>4 DEF Inv, Init, NothingLost, HostsKept

LEMMA NextInv ==
    ASSUME OneOperator, Inv, [Next]_vars
    PROVE  Inv'
  <1>1. CASE UNCHANGED vars
    BY <1>1 DEF vars, Inv, TypeOK, NothingLost, HostsKept, Current, Apart, Busy, Holding
  <1>2. ASSUME NEW p \in Procs, Apply(p)
        PROVE  Inv'
    <2>1. PutLoad(p) => Inv'
        BY LoadInv DEF PutLoad
    <2>2. PutLoadAgain(p) => Inv'
        BY LoadInv DEF PutLoadAgain
    <2>3. PutSave(p) => Inv'
        BY PutInv DEF PutSave
    <2>4. PutSaveAgain(p) => Inv'
        BY PutInv DEF PutSaveAgain
    <2> QED BY <1>2, <2>1, <2>2, <2>3, <2>4, AllocateInv, NoChangesInv, FlushInv DEF Apply
  <1>3. ASSUME NEW p \in Procs, Rm(p)
        PROVE  Inv'
    <2>1. DropLoad(p) => Inv'
        BY LoadInv DEF DropLoad
    <2> QED BY <1>3, <2>1, LookupInv, DropInv, PruneInv DEF Rm
  <1> QED BY <1>1, <1>2, <1>3, StartInv, MkDirInv, OpenInv, FlockInv, FailInv DEF Next

LEMMA Invariance == OneOperator => (Spec => []Inv)
  <1> SUFFICES ASSUME OneOperator PROVE Spec => []Inv
    OBVIOUS
  <1> QED BY InitInv, NextInv, PTL DEF Spec

\* Under one operator every entry has ports of its own kind, whatever is read
\* and written back in between (Allocation.TypeOK).
THEOREM AllTyped == OneOperator => (Spec => []TypeOK)
  <1> SUFFICES ASSUME OneOperator PROVE Spec => []TypeOK
    OBVIOUS
  <1>1. Inv => TypeOK
    BY DEF Inv
  <1> QED BY <1>1, Invariance, PTL

\* The lock of System.lock (system.py:204) excludes as long as nobody runs rm
\* beside another command, or the directory is the host's own.
THEOREM Exclusion == OneOperator => (Spec => []MutualExclusion)
  <1> SUFFICES ASSUME OneOperator PROVE Spec => []MutualExclusion
    OBVIOUS
  <1> QED BY Invariance, InvExcludes, PTL

\* Under the same rule, concurrent applies lose no unit (registry.put reads the
\* registry and writes it back whole).
THEOREM UnitsKept == OneOperator => (Spec => []NothingLost)
  <1> SUFFICES ASSUME OneOperator PROVE Spec => []NothingLost
    OBVIOUS
  <1>1. Inv => NothingLost
    BY DEF Inv
  <1> QED BY <1>1, Invariance, PTL

\* The abstract registry and this one go by the same ports.
LEMMA SamePorts ==
    /\ R!Taken(registry) = Taken(registry)
    /\ \A n, taken : R!PortFor(n, taken) = PortFor(n, taken)
    /\ \A p : R!PortPair(p) = PortPair(p)
  <1>1. R!Taken(registry) = Taken(registry)
    BY DEF R!Taken, Taken, R!Registered, Registered, R!AppPorts, AppPorts
  <1>2. \A n, taken : R!PortFor(n, taken) = PortFor(n, taken)
    BY DEF R!PortFor, PortFor, R!FirstFree, FirstFree, R!Probe, Probe
  <1>3. \A p : R!PortPair(p) = PortPair(p)
    BY DEF R!PortPair, PortPair, R!GwPortFor, GwPortFor
  <1> QED BY <1>1, <1>2, <1>3

\* Every step that changes the registry registers one unit, with the first free
\* port, or removes one.
LEMMA AtomicStep ==
    ASSUME Inv, [Next]_vars
    PROVE  [R!Next]_registry
  <1>1. ASSUME NEW p \in Procs, NEW step \in {"put again", "flush"},
               proc[p].at \in {"save", "save again"}, Save(p, WithUnit(p), step)
        PROVE  [R!Next]_registry
    <2> DEFINE n == proc[p].unit
               chosen == proc[p].port
    <2>1. /\ proc[p].at \in Locked /\ step \in Locked
          /\ Current(p) /\ n \in Names
        BY <1>1, Holder DEF Locked
    <2>2. registry' = [registry EXCEPT ![n] = PortPair(chosen)]
        BY <1>1, <2>1, SaveShape DEF WithUnit, Current
    <2>3. CASE proc[p].at = "save again"
        <3>1. registry[n] = PortPair(chosen)
            BY <2>1, <2>3 DEF Current
        <3> QED BY <2>1, <2>2, <3>1 DEF Inv, TypeOK
    <2>4. CASE proc[p].at = "save"
        <3>1. chosen # None /\ chosen = AllocatePorts(n, registry)
            BY <2>1, <2>4 DEF Current
        <3>2. CASE n \in Registered(registry)
            <4>1. PICK x \in AppPorts : registry[n] = PortPair(x)
                BY <2>1, <3>2 DEF Inv, TypeOK, Registered, Entries
            <4>2. registry[n].port = x
                BY <4>1, PairPort
            <4>3. registry[n] = PortPair(chosen)
                BY <3>1, <3>2, <4>1, <4>2 DEF AllocatePorts
            <4> QED BY <2>1, <2>2, <4>3 DEF Inv, TypeOK
        <3>3. CASE n \notin Registered(registry)
            <4> HIDE DEF n, chosen
            <4>1. chosen # None /\ chosen = PortFor(n, Taken(registry)) /\ registry[n] = None
                BY <2>1, <3>1, <3>3 DEF AllocatePorts, Registered
            <4>2. R!Register(n)
                BY <2>2, <4>1, SamePorts DEF R!Register
            <4> QED BY <2>1, <4>2 DEF R!Next, n
        <3> QED BY <3>2, <3>3
    <2> QED BY <1>1, <2>3, <2>4
  <1>2. ASSUME NEW p \in Procs, DropSave(p)
        PROVE  [R!Next]_registry
    <2> DEFINE n == proc[p].unit
    <2>1. /\ proc[p].at \in Locked /\ "prune" \in Locked
          /\ Current(p) /\ n \in Names /\ proc[p].at = "save drop"
        BY <1>2, Holder DEF Locked, DropSave
    <2>2. registry' = [registry EXCEPT ![n] = None]
        BY <1>2, <2>1, SaveShape DEF DropSave, WithoutUnit, Current
    <2>3. CASE registry[n] = None
        BY <2>1, <2>2, <2>3 DEF Inv, TypeOK
    <2>4. CASE registry[n] # None
        BY <2>1, <2>2, <2>4 DEF R!Next, R!Deregister
    <2> QED BY <2>3, <2>4
  <1>3. CASE UNCHANGED registry
    BY <1>3
  <1>4. ASSUME Next PROVE [R!Next]_registry
    <2>1. PICK p \in Procs :
            \/ \E verb \in {"apply", "rm"}, n \in Names : Start(p, verb, n)
            \/ MkDir(p) \/ Open(p) \/ Flock(p)
            \/ Apply(p) \/ Rm(p) \/ Fail(p)
        BY <1>4 DEF Next
    <2>2. \/ UNCHANGED registry
          \/ PutSave(p) \/ PutSaveAgain(p) \/ DropSave(p)
        BY <2>1 DEF Start, MkDir, Open, Flock, Apply, Rm, Fail, Allocate, NoChanges,
                    PutLoad, PutLoadAgain, Flush, Lookup, DropLoad, Prune, Load
    <2> QED BY <1>1, <1>2, <1>3, <2>2 DEF PutSave, PutSaveAgain
  <1> QED BY <1>3, <1>4 DEF vars

\* The registry under the lock is the atomic one of Registry.
THEOREM Implements == OneOperator => (Spec => Atomic)
  <1> SUFFICES ASSUME OneOperator PROVE Spec => Atomic
    OBVIOUS
  <1>1. Init => R!Init
    BY DEF Init, R!Init, Empty
  <1> QED BY <1>1, AtomicStep, Invariance, PTL DEF Spec, Atomic, R!Spec

RP == INSTANCE RegistryProofs

\* So concurrent commands never give one port to two services
\* (specs/smallapp-unit.md:269).
THEOREM NoPortShared == OneOperator => (Spec => []PortsDistinct)
  <1> SUFFICES ASSUME OneOperator PROVE Spec => []PortsDistinct
    OBVIOUS
  <1>1. R!Init => RP!Init
    BY DEF R!Init, RP!Init
  <1>2. [R!Next]_registry => [RP!Next]_registry
    BY DEF R!Next, RP!Next, R!Register, RP!Register, R!Deregister, RP!Deregister,
           R!PortFor, RP!PortFor, R!FirstFree, RP!FirstFree, R!Probe, RP!Probe,
           R!Taken, RP!Taken, R!Registered, RP!Registered, R!AppPorts, RP!AppPorts,
           R!PortPair, RP!PortPair, R!GwPortFor, RP!GwPortFor
  <1>3. RP!PortsDistinct => PortsDistinct
    BY DEF PortsDistinct, R!PortsDistinct, RP!PortsDistinct, R!Registered, RP!Registered
  <1>4. RP!Spec => []RP!PortsDistinct
    <2>1. RP!PortsAssumption
        BY PortsAssumption DEF RP!PortsAssumption
    <2>2. RP!NoPortAssumption
        BY NoPortAssumption DEF RP!NoPortAssumption, RP!AppPorts, AppPorts,
                                RP!PortPair, PortPair, RP!GwPortFor, GwPortFor
    <2> QED BY <2>1, <2>2, RP!NoPortTwice
  <1> QED BY <1>1, <1>2, <1>3, <1>4, Implements, PTL DEF Atomic, R!Spec, RP!Spec
=============================================================================
