---------------------------- MODULE ReportProofs -----------------------------
(***************************************************************************)
(* What a reported apply means beyond the files of its unit.               *)
(***************************************************************************)
EXTENDS DeployProofs

-----------------------------------------------------------------------------
(* The order of a plan.                                                    *)

Restarting == Action(20, "restart caddy", <<"caddy">>)
Reloading == Action(23, "daemon-reload", <<"systemd">>)
Starting(n) == Action(24, "start", <<"service", n>>)
StartingGateway(n) == Action(25, "start", <<"service", Gw[n]>>)
Serving == Action(26, "reload caddy", <<"caddy">>)
Committing(n) == Action(27, "commit", <<"unit", n>>)
Flushing == Action(28, "flush", <<"lib">>)
Printing(n) == Action(29, "print", <<"unit", n>>)

\* The actions that have a place of their own in every plan.
Fixed(n) == {Restarting, Reloading, Starting(n), StartingGateway(n), Serving,
             Committing(n), Flushing, Printing(n)}

Sweeping == "rm temp"
Preparing == {"user", "mkdir", "chmod", "write", "rm", Sweeping, "unmark", "sync", "mark",
              "chgrp", "join", "leave", "chown"}

\* The place of an action of a plan.
Slot(n, s) ==
    \/ s \in Fixed(n)
    \/ /\ s.verb \in Preparing /\ s.at \in 1..22 /\ s.at # 20
       /\ s.verb \in {"user", "mkdir", "chmod"} => s.at \in 1..8
       /\ s.verb = "write" => s = Action(WriteAt(n, s.on), "write", s.on)
       /\ s.verb \in {"rm", Sweeping} => s.at = 14
       /\ s.verb = "unmark" => s.at = 15
       /\ s.verb = "sync" => s.at = 16
       /\ s.verb = "mark" => s.at = 17
       /\ s.verb \in {"join", "leave"} => s.at = 19 /\ s.on = <<"group", n>>
       /\ s.verb \in {"chgrp", "chown"} => s.at \in {18, 21, 22}

\* The places of the fixed actions.
LEMMA FixedPlaces ==
    ASSUME NEW n
    PROVE  /\ Restarting.at = 20 /\ Reloading.at = 23 /\ Starting(n).at = 24
           /\ StartingGateway(n).at = 25 /\ Serving.at = 26 /\ Committing(n).at = 27
           /\ Flushing.at = 28 /\ Printing(n).at = 29
  BY Zenon DEF Restarting, Reloading, Starting, StartingGateway, Serving, Committing, Flushing,
               Printing, Action

\* Their verbs.
LEMMA FixedVerbs ==
    ASSUME NEW n
    PROVE  /\ Restarting.verb = "restart caddy" /\ Reloading.verb = "daemon-reload"
           /\ Starting(n).verb = "start" /\ Starting(n).on[2] = n
           /\ StartingGateway(n).verb = "start" /\ StartingGateway(n).on[2] = Gw[n]
           /\ Serving.verb = "reload caddy" /\ Committing(n).verb = "commit"
           /\ Flushing.verb = "flush" /\ Printing(n).verb = "print"
  <1>1. Starting(n).on[2] = n /\ StartingGateway(n).on[2] = Gw[n]
    BY DEF Starting, StartingGateway, Action
  <1>2. /\ Restarting.verb = "restart caddy" /\ Reloading.verb = "daemon-reload"
        /\ Starting(n).verb = "start"
        /\ StartingGateway(n).verb = "start"
        /\ Serving.verb = "reload caddy" /\ Committing(n).verb = "commit"
        /\ Flushing.verb = "flush" /\ Printing(n).verb = "print"
    BY Zenon DEF Restarting, Reloading, Starting, StartingGateway, Serving, Committing, Flushing,
                 Printing, Action
  <1> QED BY <1>1, <1>2, Zenon

\* None of them prepares the unit.
LEMMA FixedNotPreparing ==
    ASSUME NEW n, NEW s \in Fixed(n)
    PROVE  s.verb \notin Preparing
  <1>1. \A verb \in Preparing : verb \notin {"restart caddy", "daemon-reload", "start", "reload caddy",
                                             "commit", "flush", "print"}
    BY Zenon DEF Preparing, Sweeping
  <1>2. s.verb \in {"restart caddy", "daemon-reload", "start", "reload caddy", "commit", "flush", "print"}
    <2> USE DEF Fixed
    <2>1. \/ s = Restarting \/ s = Reloading \/ s = Starting(n) \/ s = StartingGateway(n)
          \/ s = Serving \/ s = Committing(n) \/ s = Flushing \/ s = Printing(n)
      BY Zenon
    <2> HIDE DEF Fixed
    <2>2. CASE s = Restarting
      <3>1. s.verb = "restart caddy"
        BY <2>2, FixedVerbs, Zenon
      <3> QED BY <3>1, Zenon
    <2>3. CASE s = Reloading
      <3>1. s.verb = "daemon-reload"
        BY <2>3, FixedVerbs, Zenon
      <3> QED BY <3>1, Zenon
    <2>4. CASE s = Starting(n)
      <3>1. s.verb = "start"
        BY <2>4, FixedVerbs, Zenon
      <3> QED BY <3>1, Zenon
    <2>5. CASE s = StartingGateway(n)
      <3>1. s.verb = "start"
        BY <2>5, FixedVerbs, Zenon
      <3> QED BY <3>1, Zenon
    <2>6. CASE s = Serving
      <3>1. s.verb = "reload caddy"
        BY <2>6, FixedVerbs, Zenon
      <3> QED BY <3>1, Zenon
    <2>7. CASE s = Committing(n)
      <3>1. s.verb = "commit"
        BY <2>7, FixedVerbs, Zenon
      <3> QED BY <3>1, Zenon
    <2>8. CASE s = Flushing
      <3>1. s.verb = "flush"
        BY <2>8, FixedVerbs, Zenon
      <3> QED BY <3>1, Zenon
    <2>9. CASE s = Printing(n)
      <3>1. s.verb = "print"
        BY <2>9, FixedVerbs, Zenon
      <3> QED BY <3>1, Zenon
    <2> QED BY <2>1, <2>2, <2>3, <2>4, <2>5, <2>6, <2>7, <2>8, <2>9, Zenon
  <1> QED BY <1>1, <1>2, Zenon

\* What has the place of a fixed action is that action.
LEMMA FixedAlone ==
    ASSUME NEW n, NEW a \in Fixed(n), NEW s, Slot(n, s), s.at = a.at
    PROVE  s = a
  <1>1. \A b \in Fixed(n) : b.at \in {20} \cup 23..29
    BY FixedPlaces DEF Fixed
  <1>2. s \in Fixed(n)
    BY <1>1 DEF Slot
  <1> QED BY <1>2, FixedPlaces DEF Fixed

\* Sweeping is a verb like no other of a plan.
LEMMA SweepingVerb ==
    Sweeping \notin {"plan", "load", "user", "mkdir", "chmod", "write", "rm", "unmark", "sync",
                     "mark", "chgrp", "join", "leave", "chown", "start", "disable", "userdel",
                     "drop", "prune", "commit", "flush", "print"}
  BY Zenon DEF Sweeping

LEMMA SweepStepVerb ==
    ASSUME NEW s, SweepStep(s)
    PROVE  s.verb = Sweeping
  BY Zenon DEF SweepStep, Doing, Sweeping

\* Every action of a plan has its place.
LEMMA BuildSlots ==
    ASSUME NEW n, NEW t, NEW secret
    PROVE  \A s \in Build(n, t, secret) \cup Ending(n) : Slot(n, s)
  <1>1. ASSUME NEW at \in 1..8, NEW verb \in {"user", "mkdir", "chmod"}, NEW on
        PROVE  Slot(n, Action(at, verb, on))
    BY SweepingVerb DEF Slot, Action, Preparing
  <1>2. \A s \in UserActions(n) : Slot(n, s)
    BY <1>1 DEF UserActions, When
  <1>3. \A s \in DirectoryActions(n) : Slot(n, s)
    BY <1>1 DEF DirectoryActions, MkdirActions, When
  <1>4. \A s \in WriteActions(n, t, secret) : Slot(n, s)
    <2>1. \A f : WriteAt(n, f) \in 9..13
      BY DEF WriteAt
    <2>2. \A f : Slot(n, Action(WriteAt(n, f), "write", f))
      <3> SUFFICES ASSUME NEW f PROVE Slot(n, Action(WriteAt(n, f), "write", f))
        OBVIOUS
      <3>1. PICK s : s = Action(WriteAt(n, f), "write", f)
        OBVIOUS
      <3>2. s.verb = "write" /\ s.on = f /\ s.at = WriteAt(n, f)
        BY <3>1 DEF Action
      <3>3. Slot(n, s)
        BY <2>1, <3>1, <3>2, SweepingVerb DEF Slot, Preparing
      <3> QED BY <3>1, <3>3
    <2> QED BY <2>2 DEF WriteActions
  <1>5. \A s \in StaleActions(n, t) : Slot(n, s)
    <2>1. \A verb \in {"rm", Sweeping} : \A on : Slot(n, Action(14, verb, on))
      BY SweepingVerb DEF Slot, Action, Preparing
    <2>2. \A on : Slot(n, Action(14, "rm temp", on)) /\ Slot(n, Action(14, "rm", on))
      BY <2>1, Zenon DEF Sweeping
    <2> QED BY <2>2, Zenon DEF StaleActions
  <1>6. \A s \in DependencyActions(n, t, secret) : Slot(n, s)
    <2>1. /\ Slot(n, Action(15, "unmark", Marker(n))) /\ Slot(n, Action(16, "sync", Cache(n)))
          /\ Slot(n, Action(17, "mark", Marker(n)))
      BY SweepingVerb DEF Slot, Action, Preparing
    <2> QED BY <2>1 DEF DependencyActions, When
  <1>7. \A s \in ChgrpActions(n) \cup ChownActions(n) : Slot(n, s)
    <2>1. \A at \in {18, 21, 22} : \A verb \in {"chgrp", "chown"} : \A on : Slot(n, Action(at, verb, on))
      BY SweepingVerb DEF Slot, Action, Preparing
    <2> QED BY <2>1 DEF ChgrpActions, ChownActions, When
  <1>8. \A s \in GroupActions(n, t) : Slot(n, s)
    <2>1. \A verb \in {"join", "leave"} : Slot(n, Action(19, verb, <<"group", n>>))
      BY SweepingVerb DEF Slot, Action, Preparing
    <2>2. Slot(n, Restarting)
      BY DEF Slot, Fixed
    <2> QED BY <2>1, <2>2, Zenon DEF GroupActions, When, Restarting
  <1>9. \A s \in ServiceActions(n) : Slot(n, s)
    BY Zenon DEF Slot, Fixed, ServiceActions, Reloading, Starting, StartingGateway, Serving
  <1>10. \A s \in Ending(n) : Slot(n, s)
    BY Zenon DEF Slot, Fixed, Ending, Committing, Flushing, Printing
  <1> QED BY <1>2, <1>3, <1>4, <1>5, <1>6, <1>7, <1>8, <1>9, <1>10 DEF Build, Changes, When

-----------------------------------------------------------------------------
(* An apply goes through its plan in order.                                *)

\* What is left comes after k.
After(k) == \A r \in job.todo : k < r.at

\* An action is still to come, or everything left comes after it.
Due(a) == a \in job.todo \/ After(a.at)

Ordered ==
    LET n == job.unit
    IN  /\ \A s \in job.todo : Slot(n, s)
        /\ Due(Reloading) /\ Due(Starting(n)) /\ Due(StartingGateway(n)) /\ Due(Serving)
        /\ Due(Committing(n))
        /\ Printing(n) \in job.todo

\* The last action of a removal.
Pruning == Action(15, "prune", <<"lib">>)

OrderInv ==
    job # None =>
        \/ job.op = "apply" /\ job.todo = {Action(0, "plan", <<"unit", job.unit>>)}
        \/ job.op = "rm" /\ job.todo = {Action(0, "load", <<"unit", job.unit>>)}
        \/ job.op = "apply" /\ Ordered
        \/ job.op = "rm" /\ Pruning \in job.todo

\* The places of a plan are numbers.
LEMMA SlotNumbers ==
    ASSUME NEW n, NEW s, Slot(n, s)
    PROVE  s.at \in 1..29
  BY FixedPlaces DEF Slot, Fixed

\* A fixed action stays due until it is done.
LEMMA StaysDue ==
    ASSUME NEW n, NEW a \in Fixed(n), \A r \in job.todo : Slot(n, r), Due(a),
           NEW s \in job.todo, First(s), job'.todo = job.todo \ {s}
    PROVE  Due(a)'
  <1>1. \A r \in job.todo : r.at \in 1..29 /\ s.at \in 1..29 /\ s.at <= r.at
    BY SlotNumbers DEF First
  <1>2. CASE s = a
    <2>1. \A r \in job'.todo : r.at # a.at
      BY <1>2, FixedAlone
    <2> QED BY <1>1, <1>2, <2>1 DEF Due, After
  <1>3. CASE s # a
    BY <1>3 DEF Due, After
  <1> QED BY <1>2, <1>3

\* An apply that has its plan is one of a registered unit.
LEMMA OrderedApplies ==
    ASSUME Inv, job # None, job.op = "apply", Ordered
    PROVE  Applying
  <1>1. Printing(job.unit) \in job.todo /\ Printing(job.unit).verb = "print"
    BY FixedVerbs DEF Ordered
  <1>2. PICK s \in job.todo : s.verb = "print"
    BY <1>1
  <1> QED BY <1>2, Phases DEF Removing

\* A removal that has its script is one of a unit that was registered.
LEMMA PruningRemoves ==
    ASSUME Inv, job # None, job.op = "rm", Pruning \in job.todo
    PROVE  Removing
  <1>1. PICK s \in job.todo : s.verb = "prune"
    BY DEF Pruning, Action
  <1> QED BY <1>1, Phases DEF Applying

\* How far a command is, by the step that comes first.
LEMMA OrderPhases ==
    ASSUME Inv, OrderInv, job # None, NEW s \in job.todo
    PROVE  \/ job.op = "apply" /\ s.verb = "plan"
           \/ job.op = "rm" /\ s.verb = "load"
           \/ Applying /\ Ordered /\ s.verb \in ApplyVerbs
           \/ Removing /\ Pruning \in job.todo /\ s.verb \in RmVerbs
  <1>1. CASE job.op = "apply" /\ job.todo = {Action(0, "plan", <<"unit", job.unit>>)}
    BY <1>1 DEF Action
  <1>2. CASE job.op = "rm" /\ job.todo = {Action(0, "load", <<"unit", job.unit>>)}
    BY <1>2 DEF Action
  <1>3. CASE job.op = "apply" /\ Ordered
    <2>1. Applying
      BY <1>3, OrderedApplies
    <2>2. s.verb \in ApplyVerbs
      BY <2>1 DEF Applying, ApplyActionOf, ApplyVerbs
    <2> QED BY <1>3, <2>1, <2>2
  <1>4. CASE job.op = "rm" /\ Pruning \in job.todo
    <2>1. Removing
      BY <1>4, PruningRemoves
    <2>2. s.verb \in RmVerbs
      BY <2>1, ScriptFields DEF Removing, RmVerbs
    <2> QED BY <1>4, <2>1, <2>2
  <1> QED BY <1>1, <1>2, <1>3, <1>4 DEF OrderInv

\* A plan is in order when it is made.
LEMMA PutOrdered ==
    ASSUME Inv, NEW s, PutIncomplete(s), job.op = "apply"
    PROVE  /\ Ordered' /\ job'.op = "apply" /\ job'.unit = job.unit
           /\ {Reloading, Starting(job.unit), StartingGateway(job.unit), Serving,
               Committing(job.unit)} \subseteq job'.todo
  <1> DEFINE n == job.unit
  <1>0. job # None /\ n \in Names
    BY DEF PutIncomplete, Doing, First, Inv, Typed
  <1>1. PICK secret \in SecretsFor(n) :
            /\ Build(n, job.target, secret) # {} \/ ~Complete(n)
            /\ job' = [job EXCEPT !.secret = secret, !.fresh = ~Reused(n),
                                  !.todo = Build(n, job.target, secret) \cup Ending(n)]
    BY DEF PutIncomplete
  <1>2. /\ job'.unit = n /\ job'.op = "apply" /\ DOMAIN job' = JobFields
        /\ job'.todo = Build(n, job.target, secret) \cup Ending(n)
    BY <1>0, <1>1 DEF Inv, Typed, JobFields
  <1>3. \A r \in job'.todo : Slot(n, r)
    BY <1>2, BuildSlots
  <1>4. ServiceActions(n) \subseteq job'.todo
    <2>1. Changes(n, job.target, secret) # {} \/ ~Complete(n)
      BY <1>1 DEF Build, When
    <2> QED BY <1>2, <2>1 DEF Build, When
  <1>5. {Reloading, Starting(n), StartingGateway(n), Serving} \subseteq job'.todo
    BY <1>4, Zenon DEF ServiceActions, Reloading, Starting, StartingGateway, Serving
  <1>6. {Committing(n), Printing(n)} \subseteq job'.todo
    BY <1>2, Zenon DEF Ending, Committing, Printing
  <1> QED BY <1>2, <1>3, <1>5, <1>6 DEF Ordered, Due

\* A step that is done leaves the rest of a plan in order.
LEMMA DoneOrdered ==
    ASSUME Inv, Applying, Ordered, NEW s \in job.todo, Done(s), First(s), s.verb # "print"
    PROVE  Ordered' /\ job'.op = "apply" /\ job'.unit = job.unit
  <1> DEFINE n == job.unit
  <1>1. job'.op = "apply" /\ job'.unit = n /\ job'.todo = job.todo \ {s}
    BY DoneJob DEF Inv, Typed, JobTyped, Applying
  <1>2. \A a \in Fixed(n) : Due(a) => Due(a)'
    BY <1>1, StaysDue DEF Ordered
  <1>3. {Reloading, Starting(n), StartingGateway(n), Serving, Committing(n)} \subseteq Fixed(n)
    BY DEF Fixed
  <1>4. \A a \in {Reloading, Starting(n), StartingGateway(n), Serving, Committing(n)} :
            a \in job'.todo \/ \A r \in job'.todo : a.at < r.at
    <2>1. \A a \in {Reloading, Starting(n), StartingGateway(n), Serving, Committing(n)} : Due(a)
      BY DEF Ordered
    <2> QED BY <1>2, <1>3, <2>1 DEF Due, After
  <1>5. Printing(n) \in job'.todo
    <2>1. Printing(n).verb = "print"
      BY FixedVerbs, Zenon
    <2> QED BY <1>1, <2>1 DEF Ordered
  <1>6. \A r \in job'.todo : Slot(n, r)
    BY <1>1 DEF Ordered
  <1>7. PICK u : u = job.unit /\ u = job'.unit
    BY <1>1
  <1>8. \A a \in {Reloading, Starting(u), StartingGateway(u), Serving, Committing(u)} : Due(a)'
    <2> SUFFICES ASSUME NEW a \in {Reloading, Starting(u), StartingGateway(u), Serving, Committing(u)}
                 PROVE  a \in job'.todo \/ \A r \in job'.todo : a.at < r.at
      BY DEF Due, After
    <2> QED BY <1>4, <1>7
  <1>9. /\ Due(Reloading)' /\ Due(Starting(u))' /\ Due(StartingGateway(u))' /\ Due(Serving)'
        /\ Due(Committing(u))' /\ Printing(u) \in job'.todo
        /\ \A r \in job'.todo : Slot(u, r)
    BY <1>5, <1>6, <1>7, <1>8
  <1> QED BY <1>1, <1>7, <1>9 DEF Ordered

\* The steps that are taken off a list, one after another.
Taken(s) == ApplyStep(s) \/ CommitStep(s) \/ RmStep(s) \/ DropStep(s)

\* Such a step is done, and is no first or last step of a command.
LEMMA TakenDone ==
    ASSUME NEW s, Taken(s)
    PROVE  Done(s) /\ First(s) /\ s.verb \notin {"plan", "load", "print", "prune"}
  BY DEF Taken, ApplyStep, RmStep, UserStep, MkdirStep, ChmodStep, WriteStep, StaleStep, SweepStep, UnmarkStep,
         SyncStep, MarkStep, GiveStep, JoinStep, LeaveStep, RestartCaddyStep, DaemonReloadStep,
         StartStep, ReloadCaddyStep, FlushStep, DisableStep, RemoveTreeStep, UserdelStep,
         CommitStep, DropStep, Doing

\* The others begin a command's work, or end it.
Ends(s) == \/ Refuse(s) \/ NoChanges(s) \/ PrintStep(s) \/ Rejected(s) \/ Fault(s)
           \/ NotFound(s) \/ PruneStep(s)

\* Those that end it leave no command, and the registry as it was.
LEMMA EndsJob ==
    ASSUME NEW s, Ends(s)
    PROVE  job' = None /\ UNCHANGED <<registry, file, users, proc>>
  <1>1. job' = None /\ UNCHANGED registry
    BY DEF Ends, Refuse, NoChanges, PrintStep, Rejected, Fault, NotFound, PruneStep, Exit
  <1>2. QuietStep(s)
    BY DEF Ends, QuietStep
  <1> QED BY <1>1, <1>2, QuietSteps

\* A step of a command is of one of these kinds.
LEMMA StepKinds ==
    ASSUME NEW s, ApplyNext(s) \/ RmNext(s) \/ Rejected(s) \/ Fault(s)
    PROVE  Ends(s) \/ PutIncomplete(s) \/ LoadUnit(s) \/ Taken(s)
  BY DEF ApplyNext, RmNext, Ends, Taken, ApplyStep, RmStep

\* Which kind can come when.
LEMMA KindPhases ==
    ASSUME Inv, OrderInv, job # None, NEW s \in job.todo
    PROVE  /\ PutIncomplete(s) \/ NoChanges(s) \/ Refuse(s) => job.op = "apply" /\ s.verb = "plan"
           /\ LoadUnit(s) \/ NotFound(s) => job.op = "rm" /\ s.verb = "load"
           /\ Taken(s) => \/ Applying /\ Ordered /\ (ApplyStep(s) \/ CommitStep(s))
                          \/ Removing /\ Pruning \in job.todo /\ (RmStep(s) \/ DropStep(s))
           /\ PrintStep(s) => Applying /\ Ordered
           /\ PruneStep(s) => Removing /\ Pruning \in job.todo
           /\ Rejected(s) => Applying \/ Removing
  <1>1. PutIncomplete(s) \/ NoChanges(s) \/ Refuse(s) => s.verb = "plan"
    BY DEF PutIncomplete, NoChanges, Refuse, Doing
  <1>2. LoadUnit(s) \/ NotFound(s) => s.verb = "load"
    BY DEF LoadUnit, NotFound, Doing
  <1>3. PrintStep(s) => s.verb = "print"
    BY DEF PrintStep, Doing
  <1>4. /\ PruneStep(s) => s.verb = "prune"
        /\ Rejected(s) => s.verb \notin {"plan", "load"}
    BY DEF Rejected, PruneStep, Doing
  <1>5. ASSUME Taken(s), s.verb \in ApplyVerbs
        PROVE  ApplyStep(s) \/ CommitStep(s)
    BY <1>5 DEF Taken, RmStep, ApplyStep,
                DisableStep, RemoveTreeStep, UserdelStep, DropStep, Doing, ApplyVerbs
  <1>6. ASSUME Taken(s), s.verb \in RmVerbs
        PROVE  RmStep(s) \/ DropStep(s)
    BY <1>6 DEF Taken, ApplyStep, RmStep, UserStep, MkdirStep, ChmodStep, WriteStep, SweepStep,
         UnmarkStep, SyncStep, MarkStep, GiveStep, JoinStep, LeaveStep, RestartCaddyStep, StartStep,
         FlushStep, CommitStep, Doing, RmVerbs
  <1>7. /\ "plan" \notin ApplyVerbs \cup RmVerbs /\ "load" \notin ApplyVerbs \cup RmVerbs
        /\ "print" \notin RmVerbs /\ "disable" \notin ApplyVerbs /\ "prune" \notin ApplyVerbs
    BY Zenon DEF ApplyVerbs, RmVerbs
  <1> QED BY <1>1, <1>2, <1>3, <1>4, <1>5, <1>6, <1>7, TakenDone, OrderPhases

\* Every step of a command leaves what is left of it in order.
LEMMA CommandKeepsOrder ==
    ASSUME Inv, OrderInv, job # None, NEW s \in job.todo, ApplyNext(s) \/ RmNext(s) \/ Rejected(s) \/ Fault(s)
    PROVE  OrderInv'
  <1>1. CASE Ends(s)
    BY <1>1, EndsJob DEF OrderInv
  <1>2. CASE PutIncomplete(s)
    BY <1>2, PutOrdered, KindPhases DEF OrderInv
  <1>3. CASE LoadUnit(s)
    <2>1. /\ job'.op = "rm" /\ job'.unit = job.unit /\ job'.todo = RemovalActions(job.unit)
      BY <1>3, KindPhases DEF LoadUnit, Inv, Typed, JobFields
    <2>2. Pruning \in RemovalScript(job.unit)
      BY Zenon DEF Pruning, RemovalScript
    <2>3. Pruning \notin UserdelActions(job.unit)
      BY DEF Pruning, UserdelActions, Action
    <2> QED BY <2>1, <2>2, <2>3 DEF OrderInv, RemovalActions, When
  <1>4. CASE Taken(s)
    <2>1. CASE Applying /\ Ordered
      BY <1>4, <2>1, TakenDone, DoneOrdered DEF OrderInv
    <2>2. CASE Removing /\ Pruning \in job.todo
      <3>1. Pruning # s
        BY <1>4, TakenDone DEF Pruning, Action
      <3>2. job'.op = "rm" /\ job'.todo = job.todo \ {s}
        BY <1>4, <2>2, TakenDone, DoneJob DEF Inv, Typed, JobTyped, Removing
      <3> QED BY <2>2, <3>1, <3>2 DEF OrderInv
    <2> QED BY <1>4, <2>1, <2>2, KindPhases
  <1> QED BY <1>1, <1>2, <1>3, <1>4, StepKinds

\* So does every step of the specification, and every stutter.
LEMMA NextKeepsOrder == Inv /\ OrderInv /\ [Next]_vars => OrderInv'
  <1> SUFFICES ASSUME Inv, OrderInv, [Next]_vars PROVE OrderInv'
    OBVIOUS
  <1>1. CASE \E n \in Names : BeginRm(n) \/ \E t \in Targets : BeginApply(n, t)
    <2>1. PICK n \in Names : BeginRm(n) \/ \E t \in Targets : BeginApply(n, t)
      BY <1>1
    <2>2. CASE BeginRm(n)
      <3>1. job'.op = "rm" /\ job'.unit = n /\ job'.todo = {Action(0, "load", <<"unit", n>>)}
        BY <2>2 DEF BeginRm, Start_
      <3> QED BY <3>1 DEF OrderInv
    <2>3. CASE \E t \in Targets : BeginApply(n, t)
      <3>1. job'.op = "apply" /\ job'.unit = n /\ job'.todo = {Action(0, "plan", <<"unit", n>>)}
        BY <2>3 DEF BeginApply, Start_
      <3> QED BY <3>1 DEF OrderInv
    <2> QED BY <2>1, <2>2, <2>3
  <1>2. CASE \E s \in Todo : ApplyNext(s) \/ RmNext(s) \/ Rejected(s) \/ Fault(s)
    BY <1>2, CommandKeepsOrder DEF Todo
  <1>3. CASE \/ \E id \in AdminIds : AdminAddsUser(id)
             \/ \E k \in AdminNames : AdminChmods(k)
             \/ \E m \in Writers : AppWrites(m)
             \/ UNCHANGED vars
    <2>1. UNCHANGED job
      BY <1>3 DEF AdminAddsUser, AdminChmods, AppWrites, vars
    <2> QED BY <2>1 DEF OrderInv, Ordered, Due, After
  <1> QED BY <1>1, <1>2, <1>3 DEF Next

-----------------------------------------------------------------------------
(* The steps that have a place of their own.                               *)

Past(a) == After(a.at)

\* An apply that has its plan.
Planned == job # None /\ job.op = "apply" /\ Ordered

\* Steps by their verbs.
LEMMA FixedStepVerbs ==
    ASSUME NEW s
    PROVE  /\ RestartCaddyStep(s) => s.verb = "restart caddy"
           /\ DaemonReloadStep(s) => s.verb = "daemon-reload"
           /\ StartStep(s) => s.verb = "start"
           /\ ReloadCaddyStep(s) => s.verb = "reload caddy"
           /\ CommitStep(s) => s.verb = "commit"
           /\ FlushStep(s) => s.verb = "flush"
  BY Zenon DEF RestartCaddyStep, DaemonReloadStep, StartStep, ReloadCaddyStep, CommitStep, FlushStep,
               Doing

\* The step of a fixed action.
LEMMA FixedSteps ==
    ASSUME NEW n, NEW s \in Fixed(n), ApplyStep(s) \/ CommitStep(s)
    PROVE  \/ s = Restarting /\ RestartCaddyStep(s)
           \/ s = Reloading /\ DaemonReloadStep(s)
           \/ s = Starting(n) /\ s.on[2] = n /\ StartStep(s)
           \/ s = StartingGateway(n) /\ s.on[2] = Gw[n] /\ StartStep(s)
           \/ s = Serving /\ ReloadCaddyStep(s)
           \/ s = Committing(n) /\ CommitStep(s)
           \/ s = Flushing /\ FlushStep(s)
  <1>1. \/ RestartCaddyStep(s) \/ DaemonReloadStep(s) \/ StartStep(s) \/ ReloadCaddyStep(s)
        \/ CommitStep(s) \/ FlushStep(s)
    <2>1. s.verb \notin Preparing
      BY FixedNotPreparing
    <2> QED BY <2>1, SweepStepVerb DEF ApplyStep, UserStep, MkdirStep, ChmodStep, WriteStep, StaleStep,
                        UnmarkStep, SyncStep, MarkStep, GiveStep, JoinStep, LeaveStep, Doing, Preparing
  <1>2. \/ s = Restarting \/ s = Reloading \/ s = Starting(n) \/ s = StartingGateway(n)
        \/ s = Serving \/ s = Committing(n) \/ s = Flushing \/ s = Printing(n)
    BY Zenon DEF Fixed
  <1>3. ASSUME s = Restarting PROVE RestartCaddyStep(s)
    <2>1. s.verb = "restart caddy"
      BY <1>3, FixedVerbs, Zenon
    <2> QED BY <1>1, <2>1, FixedStepVerbs, Zenon
  <1>4. ASSUME s = Reloading PROVE DaemonReloadStep(s)
    <2>1. s.verb = "daemon-reload"
      BY <1>4, FixedVerbs, Zenon
    <2> QED BY <1>1, <2>1, FixedStepVerbs, Zenon
  <1>5. ASSUME s = Starting(n) PROVE s.on[2] = n /\ StartStep(s)
    <2>1. s.verb = "start" /\ s.on[2] = n
      BY <1>5, FixedVerbs, Zenon
    <2> QED BY <1>1, <2>1, FixedStepVerbs, Zenon
  <1>6. ASSUME s = StartingGateway(n) PROVE s.on[2] = Gw[n] /\ StartStep(s)
    <2>1. s.verb = "start" /\ s.on[2] = Gw[n]
      BY <1>6, FixedVerbs, Zenon
    <2> QED BY <1>1, <2>1, FixedStepVerbs, Zenon
  <1>7. ASSUME s = Serving PROVE ReloadCaddyStep(s)
    <2>1. s.verb = "reload caddy"
      BY <1>7, FixedVerbs, Zenon
    <2> QED BY <1>1, <2>1, FixedStepVerbs, Zenon
  <1>8. ASSUME s = Committing(n) PROVE CommitStep(s)
    <2>1. s.verb = "commit"
      BY <1>8, FixedVerbs, Zenon
    <2> QED BY <1>1, <2>1, FixedStepVerbs, Zenon
  <1>9. ASSUME s = Flushing PROVE FlushStep(s)
    <2>1. s.verb = "flush"
      BY <1>9, FixedVerbs, Zenon
    <2> QED BY <1>1, <2>1, FixedStepVerbs, Zenon
  <1>10. s # Printing(n)
    <2>1. ASSUME s.verb = "print" PROVE FALSE
      BY <1>1, <2>1, FixedStepVerbs, Zenon
    <2>2. Printing(n).verb = "print"
      BY FixedVerbs, Zenon
    <2> QED BY <2>1, <2>2
  <1> QED BY <1>2, <1>3, <1>4, <1>5, <1>6, <1>7, <1>8, <1>9, <1>10

\* A fixed action that was due is past only when it has just been done.
LEMMA PastWhenDone ==
    ASSUME NEW n, NEW a \in Fixed(n), Due(a), NEW s, job'.todo = job.todo \ {s},
           \A r \in job'.todo : a.at < r.at
    PROVE  Past(a) \/ s = a
  <1>1. ~(a.at < a.at)
    BY FixedPlaces DEF Fixed
  <1> QED BY <1>1 DEF Due, Past, After

\* A step of an apply on its way: what is past stays so, and is before it.
LEMMA PastBefore ==
    ASSUME NEW a, Past(a), NEW s \in job.todo
    PROVE  a.at < s.at
  BY DEF Past, After

-----------------------------------------------------------------------------
(* Reports.                                                                *)

\* A unit reported as deployed has an entry that says so.
ToldInv ==
    /\ told \in [Names -> {None, Gone} \cup Targets]
    /\ job # None => told[job.unit] = None
    /\ \A n \in Names : Applied(n) => Complete(n)
    /\ Planned /\ Past(Committing(job.unit)) => Complete(job.unit)

\* A command changes no entry but its unit's, and that in three steps of it.
LEMMA RegistrySteps ==
    ASSUME Inv, job # None, NEW s, ApplyNext(s) \/ RmNext(s) \/ Rejected(s) \/ Fault(s), NEW n, n = job.unit
    PROVE  /\ \A m \in Names \ {n} : registry'[m] = registry[m]
           /\ PutIncomplete(s) \/ CommitStep(s) \/ DropStep(s) \/ UNCHANGED registry
           /\ CommitStep(s) /\ Registered(n) => Complete(n)'
           /\ PutIncomplete(s) \/ DropStep(s) => ~Complete(n)'
  <1>0. n \in Names /\ registry \in [Names -> {None} \cup Entries]
    BY DEF Inv, Typed
  <1>1. PutIncomplete(s) \/ CommitStep(s) \/ DropStep(s) \/ UNCHANGED registry
    BY DEF ApplyNext, RmNext, Refuse, NoChanges, PutIncomplete, UserStep, MkdirStep, ChmodStep,
           WriteStep, StaleStep, SweepStep, UnmarkStep, SyncStep, MarkStep, GiveStep, JoinStep, LeaveStep,
           RestartCaddyStep, DaemonReloadStep, StartStep, ReloadCaddyStep, FlushStep, PrintStep,
           NotFound, LoadUnit, DisableStep, Rejected, RemoveTreeStep, UserdelStep, PruneStep,
           Fault
  <1>2. ASSUME PutIncomplete(s)
        PROVE  /\ \A m \in Names \ {n} : registry'[m] = registry[m]
               /\ ~Complete(n)'
    <2>1. PICK made : registry' = [registry EXCEPT ![n] = [createdUser |-> made, complete |-> FALSE]]
      BY <1>2 DEF PutIncomplete
    <2>2. registry'[n] = [createdUser |-> made, complete |-> FALSE]
      BY <1>0, <2>1
    <2>3. ~registry'[n].complete
      BY <2>2
    <2>4. ~Complete(n)'
      BY <2>3, Zenon DEF Complete
    <2>5. \A m \in Names \ {n} : registry'[m] = registry[m]
      BY <1>0, <2>1
    <2> QED BY <2>4, <2>5
  <1>3. ASSUME DropStep(s)
        PROVE  /\ \A m \in Names \ {n} : registry'[m] = registry[m]
               /\ ~Complete(n)'
    <2>1. registry' = [registry EXCEPT ![n] = None]
      BY <1>3 DEF DropStep
    <2>2. registry'[n] = None
      BY <1>0, <2>1
    <2>3. ~Complete(n)'
      BY <2>2, Zenon DEF Complete, Registered
    <2>4. \A m \in Names \ {n} : registry'[m] = registry[m]
      BY <1>0, <2>1
    <2> QED BY <2>3, <2>4
  <1>4. ASSUME CommitStep(s)
        PROVE  /\ \A m \in Names \ {n} : registry'[m] = registry[m]
               /\ Registered(n) => Complete(n)'
    <2>1. registry' = [registry EXCEPT ![n].complete = TRUE]
      BY <1>4 DEF CommitStep
    <2>2. ASSUME Registered(n) PROVE Complete(n)'
      <3>1. registry[n] \in Entries
        BY <1>0, <2>2 DEF Registered
      <3>2. registry'[n] = [registry[n] EXCEPT !.complete = TRUE]
        BY <1>0, <2>1
      <3>3. registry'[n] \in Entries
        BY <3>1, <3>2 DEF Entries
      <3>4. registry'[n].complete
        BY <3>1, <3>2 DEF Entries
      <3>5. registry'[n] # None
        BY <3>3, NoEntry
      <3> QED BY <3>4, <3>5, Zenon DEF Complete, Registered
    <2> QED BY <1>0, <2>1, <2>2
  <1> QED BY <1>1, <1>2, <1>3, <1>4

\* The last step of an apply comes after everything else.
LEMMA PrintIsLast ==
    ASSUME Inv, OrderInv, job # None, NEW s \in job.todo, PrintStep(s)
    PROVE  /\ Planned /\ Applying /\ s = Printing(job.unit)
           /\ \A a \in Fixed(job.unit) \ {s} : Past(a)
           /\ \A r \in job.todo : 29 <= r.at
  <1> DEFINE n == job.unit
  <1>1. Applying /\ Ordered
    BY KindPhases
  <1>2. s.verb = "print" /\ First(s)
    BY DEF PrintStep, Doing
  <1>3. s \in Fixed(n)
    <2>1. s.verb \notin Preparing
      BY <1>2, SweepingVerb DEF Preparing
    <2> QED BY <1>1, <2>1 DEF Ordered, Slot
  <1>4. s = Printing(n)
    <2>1. \/ s = Restarting \/ s = Reloading \/ s = Starting(n) \/ s = StartingGateway(n)
          \/ s = Serving \/ s = Committing(n) \/ s = Flushing \/ s = Printing(n)
      BY <1>3, Zenon DEF Fixed
    <2>2. s # Restarting
      <3>1. Restarting.verb = "restart caddy"
        BY FixedVerbs, Zenon
      <3> QED BY <1>2, <3>1, Zenon
    <2>3. s # Reloading
      <3>1. Reloading.verb = "daemon-reload"
        BY FixedVerbs, Zenon
      <3> QED BY <1>2, <3>1, Zenon
    <2>4. s # Starting(n) /\ s # StartingGateway(n)
      <3>1. Starting(n).verb = "start" /\ StartingGateway(n).verb = "start"
        BY FixedVerbs, Zenon
      <3> QED BY <1>2, <3>1
    <2>5. s # Serving
      <3>1. Serving.verb = "reload caddy"
        BY FixedVerbs, Zenon
      <3> QED BY <1>2, <3>1, Zenon
    <2>6. s # Committing(n) /\ s # Flushing
      <3>1. Committing(n).verb = "commit" /\ Flushing.verb = "flush"
        BY FixedVerbs, Zenon
      <3> QED BY <1>2, <3>1
    <2> QED BY <2>1, <2>2, <2>3, <2>4, <2>5, <2>6
  <1>5. \A r \in job.todo : 29 <= r.at
    BY <1>2, <1>4, FixedPlaces DEF First
  <1>6. \A a \in Fixed(n) \ {Printing(n)} : a.at \in 0..28
    BY FixedPlaces DEF Fixed
  <1>7. \A r \in job.todo : r.at \in 1..29
    BY <1>1, SlotNumbers DEF Ordered
  <1>8. \A a \in Fixed(n) \ {Printing(n)} : Past(a)
    BY <1>5, <1>6, <1>7 DEF Past, After
  <1> QED BY <1>1, <1>4, <1>5, <1>8 DEF Planned, Applying

\* Every step of a command keeps that.
LEMMA CommandKeepsTold ==
    ASSUME Inv, OrderInv, ToldInv, job # None, NEW s \in job.todo,
           ApplyNext(s) \/ RmNext(s) \/ Rejected(s) \/ Fault(s)
    PROVE  ToldInv'
  <1>a. PICK n : n = job.unit
    OBVIOUS
  <1> USE <1>a
  <1>0. n = job.unit /\ n \in Names /\ told[n] = None /\ None \notin Targets /\ Gone \notin Targets
    BY <1>a, ReportsAssumption DEF Inv, Typed, ToldInv
  <1>1. \A m \in Names \ {n} : registry'[m] = registry[m]
    BY <1>0, RegistrySteps
  <1>2. CASE Ends(s)
    <2>1. job' = None /\ UNCHANGED registry
      BY <1>2, EndsJob
    <2>2. PICK report \in {None, Gone} \cup Targets :
              /\ told' = [told EXCEPT ![n] = report]
              /\ report \in Targets => Complete(n)
      <3>1. CASE Refuse(s) \/ Rejected(s) \/ Fault(s)
        <4>1. told' = [told EXCEPT ![n] = None]
          BY <1>0, <3>1 DEF Refuse, Rejected, Fault, ToldInv
        <4> QED BY <1>0, <4>1
      <3>2. CASE NotFound(s) \/ PruneStep(s)
        BY <1>0, <3>2 DEF NotFound, PruneStep
      <3>3. CASE NoChanges(s)
        <4>1. job.target \in Targets
          BY <3>3, KindPhases DEF Inv, Typed
        <4> QED BY <3>3, <4>1 DEF NoChanges
      <3>4. CASE PrintStep(s)
        <4>1. job.target \in Targets
          BY <3>4, PrintIsLast DEF Applying, Inv, Typed
        <4>2. Committing(n) \in Fixed(n) \ {Printing(n)}
          BY FixedPlaces DEF Fixed
        <4>3. Complete(n)
          BY <3>4, <4>2, PrintIsLast DEF ToldInv
        <4> QED BY <3>4, <4>1, <4>3 DEF PrintStep
      <3> QED BY <1>2, <3>1, <3>2, <3>3, <3>4 DEF Ends
    <2>3. told' \in [Names -> {None, Gone} \cup Targets]
      BY <2>2 DEF ToldInv
    <2>4. \A m \in Names : told'[m] \in Targets => Complete(m)
      BY <1>0, <2>2 DEF ToldInv, Applied
    <2>5. \A m \in Names : Complete(m)' <=> Complete(m)
      BY <2>1 DEF Complete, Registered
    <2> QED BY <2>1, <2>3, <2>4, <2>5 DEF ToldInv, Applied, Planned
  <1>3. ASSUME UNCHANGED told, job'.unit = n,
               Planned' /\ (\A r \in job'.todo : Committing(n).at < r.at) => Complete(n)'
        PROVE  ToldInv'
    <2>1. \A m \in Names : told'[m] \in Targets => Complete(m)'
      BY <1>0, <1>1, <1>3 DEF ToldInv, Applied, Complete, Registered
    <2>2. PICK u : u = n /\ u = job'.unit
      BY <1>3
    <2>3. Planned' /\ Past(Committing(u))' => Complete(u)'
      BY <1>3, <2>2 DEF Past, After
    <2> QED BY <1>0, <1>3, <2>1, <2>2, <2>3 DEF ToldInv, Applied
  <1>4. CASE PutIncomplete(s)
    <2>1. /\ job'.unit = n /\ Committing(n) \in job'.todo
      BY <1>4, KindPhases, PutOrdered
    <2>2. UNCHANGED told /\ ~(27 < 27)
      BY <1>4 DEF PutIncomplete
    <2> QED BY <1>3, <2>1, <2>2, FixedPlaces
  <1>5. CASE LoadUnit(s)
    <2>1. job'.unit = n /\ job'.op = "rm" /\ UNCHANGED told
      BY <1>5, KindPhases DEF LoadUnit, Inv, Typed, JobFields
    <2> QED BY <1>3, <2>1 DEF Planned
  <1>6. CASE Taken(s)
    <2>1. Done(s) /\ First(s)
      BY <1>6, TakenDone
    <2>2. job'.unit = n /\ job'.op = job.op /\ job'.todo = job.todo \ {s} /\ UNCHANGED told
      BY <2>1, DoneJob DEF Inv, Typed, JobTyped, Done
    <2>3. CASE Applying /\ Ordered /\ (ApplyStep(s) \/ CommitStep(s))
      <3>1. Committing(n) \in Fixed(n) /\ Due(Committing(n))
        BY <2>3 DEF Fixed, Ordered
      <3>2. ASSUME \A r \in job'.todo : Committing(n).at < r.at
            PROVE  Past(Committing(n)) \/ s = Committing(n)
        BY <2>2, <3>1, <3>2, PastWhenDone
      <3>3. ASSUME Past(Committing(n))
            PROVE  Complete(n)'
        <4>1. Complete(n)
          BY <2>3, <3>3 DEF ToldInv, Planned, Applying
        <4>2. CASE CommitStep(s)
          BY <2>3, <4>2, RegistrySteps DEF Applying
        <4>3. CASE ApplyStep(s)
          <5>1. UNCHANGED registry
            BY <4>3 DEF ApplyStep, UserStep, MkdirStep, ChmodStep, WriteStep, StaleStep, SweepStep, UnmarkStep,
                   SyncStep, MarkStep, GiveStep, JoinStep, LeaveStep, RestartCaddyStep,
                   DaemonReloadStep, StartStep, ReloadCaddyStep, FlushStep
          <5> QED BY <4>1, <5>1, Zenon DEF Complete, Registered
        <4> QED BY <2>3, <4>2, <4>3
      <3>4. ASSUME s = Committing(n)
            PROVE  Complete(n)'
        <4>1. CommitStep(s)
          <5>1. s.at = 27
            BY <3>4, FixedPlaces
          <5>2. s \in Fixed(n)
            BY <3>1, <3>4
          <5> QED BY <2>3, <5>1, <5>2, FixedSteps, FixedPlaces
        <4> QED BY <2>3, <4>1, RegistrySteps DEF Applying
      <3> QED BY <1>3, <2>2, <3>2, <3>3, <3>4
    <2>4. CASE Removing
      BY <1>3, <2>2, <2>4 DEF Removing, Planned
    <2> QED BY <1>6, <2>3, <2>4, KindPhases
  <1> QED BY <1>2, <1>4, <1>5, <1>6, StepKinds

\* So does every step of the specification, and every stutter.
LEMMA NextKeepsTold == Inv /\ OrderInv /\ ToldInv /\ [Next]_vars => ToldInv'
  <1> SUFFICES ASSUME Inv, OrderInv, ToldInv, [Next]_vars PROVE ToldInv'
    OBVIOUS
  <1>1. CASE \E n \in Names : BeginRm(n) \/ \E t \in Targets : BeginApply(n, t)
    <2>0. PICK n \in Names : BeginRm(n) \/ \E t \in Targets : BeginApply(n, t)
      BY <1>1
    <2>1. PICK verb \in {"plan", "load"} :
              /\ told' = [told EXCEPT ![n] = None]
              /\ job'.unit = n /\ job'.todo = {Action(0, verb, <<"unit", n>>)}
              /\ UNCHANGED registry
      <3>1. CASE BeginRm(n)
        BY <3>1 DEF BeginRm, Start_
      <3>2. CASE \E t \in Targets : BeginApply(n, t)
        BY <3>2 DEF BeginApply, Start_
      <3> QED BY <2>0, <3>1, <3>2
    <2>2. told' \in [Names -> {None, Gone} \cup Targets]
      BY <2>1 DEF ToldInv
    <2>3. told'[n] = None
      BY <2>1 DEF ToldInv
    <2>4. \A m \in Names : told'[m] \in Targets => Complete(m)'
      BY <2>1, ReportsAssumption DEF ToldInv, Applied, Complete, Registered
    <2>5. ~Planned'
      <3>1. \A r \in job'.todo : r.verb # "print"
        BY <2>1 DEF Action
      <3>2. \A u : Printing(u).verb = "print"
        BY FixedVerbs, Zenon
      <3>3. \A u : Printing(u) \notin job'.todo
        BY <3>1, <3>2
      <3> QED BY <3>3 DEF Planned, Ordered
    <2> QED BY <2>1, <2>2, <2>3, <2>4, <2>5 DEF ToldInv, Applied
  <1>2. CASE \E s \in Todo : ApplyNext(s) \/ RmNext(s) \/ Rejected(s) \/ Fault(s)
    BY <1>2, CommandKeepsTold DEF Todo
  <1>3. CASE \/ \E id \in AdminIds : AdminAddsUser(id)
             \/ \E k \in AdminNames : AdminChmods(k)
             \/ \E m \in Writers : AppWrites(m)
             \/ UNCHANGED vars
    <2>1. UNCHANGED <<job, told, registry>>
      BY <1>3 DEF AdminAddsUser, AdminChmods, AppWrites, vars
    <2> QED BY <2>1 DEF ToldInv, Applied, Complete, Registered, Planned, Ordered, Due, Past, After
  <1> QED BY <1>1, <1>2, <1>3 DEF Next

-----------------------------------------------------------------------------
(* Types: directories.                                                     *)

TreeTyped ==
    /\ dirs \subseteq Dirs /\ Host \in dirs
    /\ loose \subseteq dirs
    /\ owned \subseteq Dirs \cup Files
    /\ created \subseteq Dirs /\ recorded \subseteq Dirs

\* The directories files are in, and those directories are in.
LEMMA DirTypes ==
    /\ \A d \in Dirs : Parent(d) \in Dirs
    /\ \A f \in Files : DirOf(f) \in Dirs
    /\ \A n \in Names : OwnDirs(n) \subseteq Dirs \ Shared /\ OwnFiles(n) \subseteq Files
    /\ Host \in Shared /\ Lib \in Shared /\ Shared \subseteq Dirs
  <1>1. \A n \in Names : n \in Ids /\ Gw[n] \in Ids /\ IdsOf(n) \subseteq Ids
    BY NamesAssumption DEF IdsOf
  <1>2. Host \in Shared /\ Lib \in Shared /\ Opt \in Shared /\ Sites \in Shared /\ Etc \in Shared
    BY DEF Shared
  <1>3. Shared \subseteq Dirs
    BY DEF Dirs
  <1>4. \A d \in Dirs : Parent(d) \in Dirs
    BY <1>2, <1>3 DEF Parent
  <1>5. \A n \in Names : App(n) \in Dirs
    BY DEF Dirs
  <1>6. \A id \in Ids : State(id) \in Dirs
    BY DEF Dirs
  <1>7. \A f \in Files : DirOf(f) \in Dirs
    <2> SUFFICES ASSUME NEW f \in Files PROVE DirOf(f) \in Dirs
      OBVIOUS
    <2> USE <1>1, <1>2, <1>3, <1>5, <1>6 DEF DirOf
    <2>1. CASE f \in {Vhost(n) : n \in Names} BY <2>1 DEF Vhost
    <2>2. CASE f \in {Env(n) : n \in Names} BY <2>2 DEF Env
    <2>3. CASE f \in {Service(id) : id \in Ids} BY <2>3 DEF Service
    <2>4. CASE f \in {Page(n, p) : n \in Names, p \in Pages} BY <2>4 DEF Page
    <2>5. CASE f \in {Cache(n) : n \in Names} BY <2>5 DEF Cache
    <2>6. CASE f \in {Marker(n) : n \in Names} BY <2>6 DEF Marker
    <2>7. CASE f \in {Data(n) : n \in Names} BY <2>7 DEF Data
    <2> QED BY <2>1, <2>2, <2>3, <2>4, <2>5, <2>6, <2>7 DEF Files
  <1>8. \A n \in Names : OwnDirs(n) \subseteq Dirs \ Shared
    <2>1. \A x : App(x) \notin Shared
      BY DEF App, Shared, Host, Opt, Lib, Etc, Sites
    <2>2. \A x : State(x) \notin Shared
      BY DEF State, Shared, Host, Opt, Lib, Etc, Sites
    <2> QED BY <1>1, <1>5, <1>6, <2>1, <2>2 DEF OwnDirs
  <1>9. \A n \in Names : OwnFiles(n) \subseteq Files
    <2> SUFFICES ASSUME NEW n \in Names, NEW f \in OwnFiles(n) PROVE f \in Files
      OBVIOUS
    <2>1. CASE f \in {Vhost(n), Env(n), Marker(n), Cache(n)}
      BY <2>1 DEF Files
    <2>2. CASE \E id \in IdsOf(n) : f = Service(id)
      BY <1>1, <2>2 DEF Files
    <2>3. CASE \E p \in Pages : f = Page(n, p)
      BY <2>3 DEF Files
    <2> QED BY <2>1, <2>2, <2>3 DEF OwnFiles
  <1> QED BY <1>2, <1>3, <1>4, <1>7, <1>8, <1>9

\* What a tree or a file of a unit is given away, made or removed stays typed.
LEMMA MkdirTyped ==
    ASSUME TreeTyped, NEW d \in Dirs, MkdirP(d)
    PROVE  /\ dirs' \subseteq Dirs /\ Host \in dirs' /\ dirs \subseteq dirs'
           /\ created' \subseteq Dirs /\ recorded' \subseteq Dirs
  BY DirTypes DEF TreeTyped, MkdirP

\* What is pruned was there.
LEMMA PruneTyped ==
    ASSUME PreInv, TreeTyped, NEW registered \in BOOLEAN, PruneCreated(registered)
    PROVE  TreeTyped'
  <1> DEFINE known == recorded \cup created
             empty == {d \in known : Hollow(d, registered)}
             below == {d \in dirs : Parent(d) \in known /\ Hollow(d, registered)}
  <1>1. PICK gone \in SUBSET (empty \cup below) :
            /\ dirs' = dirs \ gone
            /\ loose' = loose \ gone
            /\ owned' = owned \ gone
            /\ recorded' = IF Lib \in dirs \ gone THEN known \ empty ELSE {}
            /\ created' = {}
    BY DEF PruneCreated
  <1>2. Host \notin gone
    BY DEF Hollow
  <1>3. recorded' \subseteq Dirs
    BY <1>1 DEF TreeTyped
  <1> QED BY <1>1, <1>2, <1>3 DEF TreeTyped

\* The directory or file a step of a command is about is its unit's.
LEMMA StepTyped ==
    ASSUME Inv, job # None, NEW s \in job.todo
    PROVE  /\ s.verb \in {"mkdir", "chmod", "chgrp", "chown"} => s.on \in OwnDirs(job.unit)
           /\ s.verb = "rm tree" => s.on \in OwnDirs(job.unit)
           /\ s.verb \in {"write", "rm", "unmark", "sync", "mark"} => s.on \in OwnFiles(job.unit)
           /\ s.verb \in {"start", "disable"} => s.on[2] \in IdsOf(job.unit)
           /\ s.verb \in {"user", "userdel"} => s.on[2] \in IdsOf(job.unit)
  <1>1. CASE Applying
    <2>1. /\ s.verb = "user" => s.on \in {<<"user", id>> : id \in IdsOf(job.unit)}
          /\ s.verb \in {"mkdir", "chmod", "chgrp", "chown"} => s.on \in OwnDirs(job.unit)
          /\ s.verb \in {"write", "rm", "unmark", "mark", "sync"} => s.on \in OwnFiles(job.unit)
          /\ s.verb = "start" => s.on \in {<<"service", id>> : id \in IdsOf(job.unit)}
          /\ s.verb \in ApplyVerbs
      BY <1>1, StepShape DEF Applying, ApplyActionOf, ApplyVerbs
    <2>2. s.verb \notin {"rm tree", "disable", "userdel"}
      BY <2>1, Zenon DEF ApplyVerbs
    <2>3. s.verb = "user" \/ s.verb = "start" => s.on[2] \in IdsOf(job.unit)
      <3>1. CASE s.verb = "user"
        <4>1. PICK id \in IdsOf(job.unit) : s.on = <<"user", id>>
          BY <2>1, <3>1
        <4> QED BY <4>1
      <3>2. CASE s.verb = "start"
        <4>1. PICK id \in IdsOf(job.unit) : s.on = <<"service", id>>
          BY <2>1, <3>2
        <4> QED BY <4>1
      <3> QED BY <3>1, <3>2
    <2>4. s.verb # "rm tree" /\ s.verb # "disable" /\ s.verb # "userdel"
      BY <2>2, Zenon
    <2> QED BY <2>1, <2>3, <2>4, Zenon
  <1>2. CASE Removing
    <2>1. s \in RemovalScript(job.unit)
      BY <1>2 DEF Removing
    <2>2. s.verb = "rm tree" => s.on \in OwnDirs(job.unit)
      BY <2>1, ScriptFields
    <2>3. s.verb = "rm" => s.on \in OwnFiles(job.unit)
      BY <2>1, ScriptFields
    <2>4. ASSUME s.verb = "disable" PROVE s.on[2] \in IdsOf(job.unit)
      <3>1. PICK id \in IdsOf(job.unit) : s.on = <<"service", id>>
        BY <2>1, <2>4, ScriptFields
      <3> QED BY <3>1
    <2>5. ASSUME s.verb = "userdel" PROVE s.on[2] \in IdsOf(job.unit)
      <3>1. PICK id \in IdsOf(job.unit) : s.on = <<"user", id>>
        BY <2>1, <2>5, ScriptFields
      <3> QED BY <3>1
    <2>6. s.verb \notin {"mkdir", "chmod", "chgrp", "chown", "write", "unmark", "sync", "mark",
                         "start", "user"}
      BY <2>1, ScriptFields
    <2> QED BY <2>2, <2>3, <2>4, <2>5, <2>6
  <1>3. CASE s.verb \in {"plan", "load"}
    BY <1>3
  <1> QED BY <1>1, <1>2, <1>3, Phases

\* Every step of a command keeps the directories typed.
LEMMA CommandKeepsTree ==
    ASSUME Inv, PreInv, TreeTyped, job # None, NEW s \in job.todo,
           ApplyNext(s) \/ RmNext(s) \/ Rejected(s) \/ Fault(s)
    PROVE  TreeTyped'
  <1>1. PICK n \in Names : n = job.unit
    BY DEF Inv, Typed
  <1>2. OwnDirs(n) \subseteq Dirs \ {Host} /\ OwnFiles(n) \subseteq Files
    BY DirTypes
  <1>3. CASE NotFound(s) \/ PruneStep(s)
    <2>1. PruneCreated(AnyRegistered(registry)) /\ AnyRegistered(registry) \in BOOLEAN
      BY <1>3 DEF NotFound, PruneStep, AnyRegistered
    <2> QED BY <2>1, PruneTyped
  <1>4. CASE Refuse(s) \/ NoChanges(s) \/ PrintStep(s) \/ Rejected(s)
    <2>1. UNCHANGED <<dirs, loose, owned, recorded>> /\ created' = {}
      BY <1>4 DEF Refuse, NoChanges, PrintStep, Rejected, Exit, tree
    <2> QED BY <2>1 DEF TreeTyped
  <1>14. CASE Fault(s)
    <2>1. UNCHANGED <<loose, owned, recorded>> /\ created' = {}
      BY <1>14 DEF Fault, Exit
    <2>2. dirs \subseteq dirs' /\ dirs' \subseteq Dirs
      <3>1. \A f \in Torn : DirOf(f) \in Dirs /\ Parent(DirOf(f)) \in Dirs
        BY DirTypes, BoundsAssumption
      <3> QED BY <1>14, <3>1 DEF Fault, CutOff, TreeTyped
    <2> QED BY <2>1, <2>2 DEF TreeTyped
  <1>5. CASE \/ PutIncomplete(s) \/ LoadUnit(s) \/ CommitStep(s) \/ DropStep(s)
             \/ UserStep(s) \/ JoinStep(s) \/ LeaveStep(s) \/ RestartCaddyStep(s)
             \/ DaemonReloadStep(s) \/ ReloadCaddyStep(s) \/ DisableStep(s) \/ UserdelStep(s)
    <2>1. UNCHANGED <<dirs, loose, owned, created, recorded>>
      BY <1>5 DEF PutIncomplete, LoadUnit, CommitStep, DropStep, UserStep, JoinStep, LeaveStep,
             RestartCaddyStep, DaemonReloadStep, ReloadCaddyStep, DisableStep, UserdelStep,
             host, tree, record
    <2> QED BY <2>1 DEF TreeTyped
  <1>6. CASE MkdirStep(s)
    <2>1. s.on \in Dirs
      BY <1>1, <1>2, <1>6, StepTyped DEF MkdirStep, Doing
    <2>2. MkdirP(s.on) /\ loose' \subseteq loose \cup {s.on} /\ s.on \in dirs' /\ owned' = owned
      BY <1>6 DEF MkdirStep, Mkdir, MkdirP
    <2> QED BY <2>1, <2>2, MkdirTyped DEF TreeTyped
  <1>7. CASE ChmodStep(s)
    BY <1>7 DEF ChmodStep, Chmod, record, TreeTyped
  <1>8. CASE WriteStep(s) \/ SyncStep(s) \/ MarkStep(s)
    <2>1. s.on \in Files /\ DirOf(s.on) \in Dirs
      BY <1>1, <1>2, <1>8, StepTyped, DirTypes DEF WriteStep, SyncStep, MarkStep, Doing
    <2>2. MkdirP(DirOf(s.on)) /\ owned' = owned \ {s.on} /\ loose' = loose
      BY <1>8 DEF WriteStep, SyncStep, MarkStep, Write
    <2> QED BY <2>1, <2>2, MkdirTyped DEF TreeTyped
  <1>9. CASE StaleStep(s) \/ SweepStep(s) \/ UnmarkStep(s)
    BY <1>9 DEF StaleStep, SweepStep, UnmarkStep, Remove, RemoveTemp, record, TreeTyped
  <1>10. CASE GiveStep(s)
    <2>1. s.on \in Dirs
      BY <1>1, <1>2, <1>10, StepTyped DEF GiveStep, Doing
    <2>2. owned' \subseteq owned \cup {s.on} \cup Files /\ UNCHANGED <<dirs, loose, created, recorded>>
      BY <1>10 DEF GiveStep, GiveTree, FilesIn, record
    <2> QED BY <2>1, <2>2 DEF TreeTyped
  <1>11. CASE StartStep(s)
    <2>1. PICK dir \in Dirs : dir = State(s.on[2])
      <3>1. s.on[2] \in IdsOf(n)
        BY <1>1, <1>11, StepTyped DEF StartStep, Doing
      <3> QED BY <1>2, <3>1 DEF OwnDirs
    <2>2. /\ dirs' = dirs \cup {dir} /\ loose' \subseteq loose \cup {dir}
          /\ owned' \subseteq owned \cup {dir} \cup Files
          /\ UNCHANGED <<created, recorded>>
      BY <1>11, <2>1 DEF StartStep, Start, FilesIn, record
    <2> QED BY <2>2 DEF TreeTyped
  <1>12. CASE FlushStep(s)
    BY <1>12 DEF FlushStep, FlushCreated, tree, TreeTyped
  <1>13. CASE RemoveTreeStep(s)
    <2>1. s.on # Host
      BY <1>1, <1>2, <1>13, StepTyped, Zenon DEF RemoveTreeStep, Doing
    <2> QED BY <1>13, <2>1 DEF RemoveTreeStep, RemoveTree, record, TreeTyped
  <1> QED BY <1>3, <1>4, <1>5, <1>6, <1>7, <1>8, <1>9, <1>10, <1>11, <1>12, <1>13, <1>14
          DEF ApplyNext, RmNext

\* So does every step of the specification, and every stutter.
LEMMA NextKeepsTree == Inv /\ PreInv /\ TreeTyped /\ [Next]_vars => TreeTyped'
  <1> SUFFICES ASSUME Inv, PreInv, TreeTyped, [Next]_vars PROVE TreeTyped'
    OBVIOUS
  <1>1. CASE \E n \in Names : BeginRm(n) \/ \E t \in Targets : BeginApply(n, t)
    <2>1. MkdirP(Lib) /\ UNCHANGED <<loose, owned>>
      BY <1>1 DEF BeginRm, BeginApply, Start_
    <2> QED BY <2>1, DirTypes, MkdirTyped DEF TreeTyped
  <1>2. CASE \E s \in Todo : ApplyNext(s) \/ RmNext(s) \/ Rejected(s) \/ Fault(s)
    BY <1>2, CommandKeepsTree DEF Todo
  <1>3. CASE \E m \in Writers : AppWrites(m)
    <2>1. PICK m \in Names : /\ owned' = owned \cup {Data(m)}
                             /\ UNCHANGED <<dirs, loose, created, recorded>>
      BY <1>3, BoundsAssumption DEF AppWrites, record
    <2>2. Data(m) \in Files
      BY DEF Files
    <2> QED BY <2>1, <2>2 DEF TreeTyped
  <1>4. CASE (\E id \in AdminIds : AdminAddsUser(id)) \/ (\E k \in AdminNames : AdminChmods(k)) \/ UNCHANGED vars
    <2>1. UNCHANGED <<dirs, owned, created, recorded>> /\ loose' \subseteq loose
      BY <1>4 DEF AdminAddsUser, AdminChmods, vars, host, tree, record
    <2> QED BY <2>1 DEF TreeTyped
  <1> QED BY <1>1, <1>2, <1>3, <1>4 DEF Next

-----------------------------------------------------------------------------
(* Types: files.                                                           *)

\* What a file can hold.
Contents(f) ==
    CASE f[1] = "vhost" -> {Site(t) : t \in Targets}
      [] f[1] = "env" -> Tokens
      [] f[1] = "service" -> ServiceDefs
      [] f[1] \in {"page", "cache"} -> Versions
      [] OTHER -> {Present}

FilesTyped == DOMAIN file = Files /\ \A f \in Files : file[f] \in {None} \cup Contents(f)

\* A command knows a secret, or none yet, and only tokens are shown.
SecretsTyped ==
    /\ job # None => job.secret \in {None} \cup Tokens /\ job.fresh \in BOOLEAN
    /\ shown \subseteq Tokens
    /\ faults \in 0 .. MaxFaults

\* The files by their names.
LEMMA ContentsOf ==
    ASSUME NEW n
    PROVE  /\ Contents(Vhost(n)) = {Site(t) : t \in Targets}
           /\ Contents(Env(n)) = Tokens
           /\ Contents(Service(n)) = ServiceDefs
           /\ \A p : Contents(Page(n, p)) = Versions
           /\ Contents(Cache(n)) = Versions
           /\ Contents(Marker(n)) = {Present}
           /\ Contents(Data(n)) = {Present}
  <1> USE DEF Contents
  <1>1. Contents(Vhost(n)) = {Site(t) : t \in Targets}
    BY DEF Vhost
  <1>2. Contents(Env(n)) = Tokens
    BY DEF Env
  <1>3. Contents(Service(n)) = ServiceDefs
    BY DEF Service
  <1>4. \A p : Contents(Page(n, p)) = Versions
    BY DEF Page
  <1>5. Contents(Cache(n)) = Versions
    BY DEF Cache
  <1>6. Contents(Marker(n)) = {Present}
    BY DEF Marker
  <1>7. Contents(Data(n)) = {Present}
    BY DEF Data
  <1> HIDE DEF Contents
  <1> QED BY <1>1, <1>2, <1>3, <1>4, <1>5, <1>6, <1>7

\* The files of the host by their names.
LEMMA FilesOfHost ==
    /\ \A n \in Names : /\ Vhost(n) \in Files /\ Env(n) \in Files /\ Cache(n) \in Files
                        /\ Marker(n) \in Files /\ Data(n) \in Files
                        /\ Service(n) \in Files /\ Service(Gw[n]) \in Files
                        /\ \A p \in Pages : Page(n, p) \in Files
    /\ \A id \in Ids : Service(id) \in Files
  <1>1. \A id \in Ids : Service(id) \in Files
    BY DEF Files
  <1>2. \A n \in Names : n \in Ids /\ Gw[n] \in Ids
    BY NamesAssumption
  <1>3. \A n \in Names : /\ Vhost(n) \in Files /\ Env(n) \in Files /\ Cache(n) \in Files
                         /\ Marker(n) \in Files /\ Data(n) \in Files
    BY DEF Files
  <1>4. \A n \in Names : \A p \in Pages : Page(n, p) \in Files
    BY DEF Files
  <1> QED BY <1>1, <1>2, <1>3, <1>4

\* A unit's files are distinct.
LEMMA RenderedEach ==
    ASSUME NEW n, NEW t, NEW secret
    PROVE  /\ Rendered(n, t, secret, Vhost(n)) = Site(t)
           /\ Rendered(n, t, secret, Env(n)) = secret
           /\ Gw[n] # n => Rendered(n, t, secret, Service(n)) = AppService(n, t)
           /\ Gw[n] # n => Rendered(n, t, secret, Service(Gw[n])) = GatewayService(n)
  <1>1. /\ Vhost(n) # Env(n) /\ Vhost(n) # Service(n) /\ Vhost(n) # Service(Gw[n])
        /\ Env(n) # Service(n) /\ Env(n) # Service(Gw[n])
        /\ Gw[n] # n => Service(n) # Service(Gw[n])
    BY DEF Vhost, Env, Service
  <1>2. Rendered(n, t, secret, Vhost(n)) = Site(t)
    BY <1>1 DEF Rendered
  <1>3. Rendered(n, t, secret, Env(n)) = secret
    BY RenderedEnv
  <1>4. Gw[n] # n => Rendered(n, t, secret, Service(n)) = AppService(n, t)
    BY <1>1 DEF Rendered
  <1>5. Gw[n] # n => Rendered(n, t, secret, Service(Gw[n])) = GatewayService(n)
    BY <1>1 DEF Rendered
  <1> QED BY <1>2, <1>3, <1>4, <1>5

\* Its pages are those of the target.
LEMMA RenderedPage ==
    ASSUME NEW n, NEW t, NEW secret, NEW p
    PROVE  Rendered(n, t, secret, Page(n, p)) = t.pages[p]
  <1>1. /\ Page(n, p) # Vhost(n) /\ Page(n, p) # Env(n) /\ Page(n, p) # Service(n)
        /\ Page(n, p) # Service(Gw[n])
    BY DEF Vhost, Env, Service, Page
  <1>2. Rendered(n, t, secret, Page(n, p)) = t.pages[Page(n, p)[3]]
    BY <1>1 DEF Rendered
  <1>3. Page(n, p)[3] = p
    BY DEF Page
  <1> QED BY <1>2, <1>3

\* A unit renders to what its files can hold.
LEMMA RenderedTyped ==
    ASSUME NEW n \in Names, NEW t \in Targets, NEW secret \in Tokens, NEW f \in RenderedFiles(n, t)
    PROVE  Rendered(n, t, secret, f) \in Contents(f)
  <1>0. Gw[n] # n
    BY NamesAssumption
  <1>1. CASE f = Vhost(n)
    BY <1>1, RenderedEach, ContentsOf
  <1>2. CASE f = Env(n)
    BY <1>2, RenderedEach, ContentsOf
  <1>3. CASE f = Service(n)
    <2>1. AppService(n, t) \in ServiceDefs
      BY DEF ServiceDefs
    <2> QED BY <1>0, <1>3, <2>1, RenderedEach, ContentsOf
  <1>4. CASE f = Service(Gw[n])
    <2>1. GatewayService(n) \in ServiceDefs
      BY DEF ServiceDefs
    <2>2. Contents(Service(Gw[n])) = ServiceDefs
      BY ContentsOf
    <2>3. Rendered(n, t, secret, Service(Gw[n])) = GatewayService(n)
      BY <1>0, RenderedEach
    <2> QED BY <1>4, <2>1, <2>2, <2>3
  <1>5. CASE \E p \in DOMAIN t.pages : f = Page(n, p)
    <2>1. PICK p \in DOMAIN t.pages : f = Page(n, p)
      BY <1>5
    <2>2. t.pages[p] \in Versions
      BY <2>1, TargetsAssumption
    <2>3. Contents(Page(n, p)) = Versions
      BY ContentsOf, Zenon
    <2>4. Rendered(n, t, secret, Page(n, p)) = t.pages[p]
      BY RenderedPage
    <2> QED BY <2>1, <2>2, <2>3, <2>4
  <1> QED BY <1>1, <1>2, <1>3, <1>4, <1>5 DEF RenderedFiles, PagesOf

\* An apply that has its plan is under way.
LEMMA PlannedUnderway ==
    ASSUME UnderwayInv, Planned
    PROVE  Underway
  <1>1. Printing(job.unit) \in job.todo /\ Printing(job.unit).verb = "print"
    BY FixedVerbs, Zenon DEF Planned, Ordered
  <1>2. Printing(job.unit).verb # "plan"
    BY <1>1
  <1> QED BY <1>1, <1>2 DEF Planned, UnderwayInv

\* Secrets are tokens.
LEMMA SecretTypes ==
    ASSUME FilesTyped, NEW n \in Names
    PROVE  SecretsFor(n) \subseteq Tokens
  <1>1. file[Env(n)] \in {None} \cup Tokens
    BY FilesOfHost, ContentsOf DEF FilesTyped
  <1> QED BY <1>1 DEF SecretsFor, Reused, Exists

\* Every step of a command keeps the secrets typed.
LEMMA CommandKeepsSecrets ==
    ASSUME Inv, OrderInv, UnderwayInv, FilesTyped, SecretsTyped, job # None, NEW s \in job.todo,
           ApplyNext(s) \/ RmNext(s) \/ Rejected(s) \/ Fault(s)
    PROVE  SecretsTyped'
  <1>1. CASE Refuse(s) \/ NoChanges(s) \/ Rejected(s) \/ NotFound(s) \/ PruneStep(s)
    <2>1. job' = None /\ UNCHANGED <<shown, faults>>
      BY <1>1 DEF Refuse, NoChanges, Rejected, NotFound, PruneStep, Exit
    <2> QED BY <2>1 DEF SecretsTyped
  <1>2. CASE Fault(s)
    <2>1. job' = None /\ UNCHANGED shown /\ faults < MaxFaults /\ faults' = faults + 1
      BY <1>2 DEF Fault, Exit
    <2> QED BY <2>1, BoundsAssumption DEF SecretsTyped
  <1>3. CASE PrintStep(s)
    <2>1. job.secret \in Tokens
      BY <1>3, PrintIsLast, PlannedUnderway DEF Underway, SecretsTyped
    <2>2. job' = None /\ shown' \subseteq shown \cup {job.secret} /\ UNCHANGED faults
      BY <1>3 DEF PrintStep, Exit
    <2> QED BY <2>1, <2>2 DEF SecretsTyped
  <1>4. CASE PutIncomplete(s)
    <2>1. PICK n \in Names : n = job.unit
      BY DEF Inv, Typed
    <2>2. PICK secret, todo :
              /\ secret \in SecretsFor(n)
              /\ job' = [job EXCEPT !.secret = secret, !.fresh = ~Reused(n), !.todo = todo]
              /\ shown' = IF Reused(n) THEN shown ELSE shown \ {secret}
      BY <1>4, <2>1 DEF PutIncomplete
    <2>3. job'.secret = secret /\ job'.fresh = ~Reused(n)
      BY <2>2 DEF Inv, Typed, JobFields
    <2>a. secret \in SecretsFor(n)
      BY <2>2
    <2>4. job'.secret \in Tokens /\ job'.fresh \in BOOLEAN
      BY <2>1, <2>a, <2>3, SecretTypes
    <2>5. shown' \subseteq shown /\ UNCHANGED faults
      BY <1>4, <2>2 DEF PutIncomplete
    <2> QED BY <2>4, <2>5 DEF SecretsTyped
  <1>5. CASE LoadUnit(s)
    <2>1. job'.secret = job.secret /\ job'.fresh = job.fresh /\ UNCHANGED <<shown, faults>>
      BY <1>5 DEF LoadUnit, Inv, Typed, JobFields
    <2> QED BY <2>1 DEF SecretsTyped
  <1>6. CASE Taken(s)
    <2>1. Done(s)
      BY <1>6, TakenDone
    <2>2. job'.secret = job.secret /\ job'.fresh = job.fresh /\ UNCHANGED <<shown, faults>>
      BY <2>1 DEF Done, Inv, Typed, JobFields
    <2> QED BY <2>2 DEF SecretsTyped
  <1> QED BY <1>1, <1>2, <1>3, <1>4, <1>5, <1>6, StepKinds DEF Ends

\* Every step of a command keeps the files typed.
LEMMA CommandKeepsFiles ==
    ASSUME Inv, OrderInv, UnderwayInv, FilesTyped, SecretsTyped, job # None, NEW s \in job.todo,
           ApplyNext(s) \/ RmNext(s) \/ Rejected(s) \/ Fault(s)
    PROVE  FilesTyped'
  <1>0. PICK n \in Names : n = job.unit
    BY DEF Inv, Typed
  <1>1. CASE QuietStep(s) \/ UserStep(s) \/ UserdelStep(s) \/ StartStep(s) \/ DisableStep(s)
    <2>1. UNCHANGED file
      BY <1>1, QuietSteps DEF UserStep, UserdelStep, StartStep, DisableStep, Start, tree
    <2> QED BY <2>1 DEF FilesTyped, Contents
  <1>2. ASSUME NEW f \in Files, NEW content \in {None} \cup Contents(f),
               file' = [file EXCEPT ![f] = content]
        PROVE  FilesTyped'
    BY <1>2 DEF FilesTyped, Contents
  <1>3. CASE FileStep(s)
    <2>1. s.on \in Files
      BY <1>0, <1>3, FileStepOwn, DirTypes
    <2>2. CASE WriteStep(s)
      <3>1. Applying /\ Ordered
        <4>1. Taken(s) /\ s.verb = "write" /\ ~(RmStep(s) \/ DropStep(s))
          BY <2>2 DEF WriteStep, Doing, Taken, ApplyStep, RmStep, DropStep, DisableStep,
                      RemoveTreeStep, StaleStep, UserdelStep, DaemonReloadStep, ReloadCaddyStep
        <4> QED BY <4>1, KindPhases
      <3>2. Underway /\ job.target \in Targets
        BY <3>1, PlannedUnderway DEF Planned, Applying, Inv, Typed
      <3>3. job.secret \in Tokens /\ s.on \in RenderedFiles(n, job.target)
        BY <1>0, <2>2, <3>2 DEF Underway, SecretsTyped, WriteStep, Doing
      <3>4. file' = [file EXCEPT ![s.on] = Rendered(n, job.target, job.secret, s.on)]
        BY <1>0, <2>2 DEF WriteStep, Write
      <3> QED BY <1>2, <2>1, <3>2, <3>3, <3>4, RenderedTyped
    <2>3. CASE StaleStep(s) \/ UnmarkStep(s)
      BY <1>2, <2>1, <2>3 DEF StaleStep, SweepStep, UnmarkStep, Remove
    <2>4. CASE SyncStep(s)
      <3>1. s.on = Cache(n)
        <4>1. s.verb = "sync"
          BY <2>4 DEF SyncStep, Doing
        <4> QED BY <1>0, <4>1, Phases DEF Applying, ApplyActionOf, RmVerbs
      <3>2. file[Page(n, Entry)] \in {None} \cup Versions
        BY FilesOfHost, ContentsOf, NamesAssumption DEF FilesTyped
      <3>3. Contents(s.on) = Versions
        BY <3>1, ContentsOf
      <3> QED BY <1>0, <1>2, <2>1, <2>4, <3>2, <3>3 DEF SyncStep, Write
    <2>5. CASE MarkStep(s)
      <3>1. s.on = Marker(n)
        <4>1. s.verb = "mark"
          BY <2>5 DEF MarkStep, Doing
        <4> QED BY <1>0, <4>1, Phases DEF Applying, ApplyActionOf, RmVerbs
      <3>2. Contents(s.on) = {Present}
        BY <3>1, ContentsOf
      <3> QED BY <1>2, <2>1, <2>5, <3>2 DEF MarkStep, Write
    <2> QED BY <1>3, <2>2, <2>3, <2>4, <2>5 DEF FileStep
  <1>4. CASE RemoveTreeStep(s)
    BY <1>4 DEF RemoveTreeStep, RemoveTree, FilesTyped, Contents
  <1> QED BY <1>1, <1>3, <1>4 DEF ApplyNext, RmNext, QuietStep, FileStep

\* So does every step of the specification, and every stutter.
LEMMA NextKeepsFiles ==
    Inv /\ OrderInv /\ UnderwayInv /\ FilesTyped /\ SecretsTyped /\ [Next]_vars
        => FilesTyped' /\ SecretsTyped'
  <1> SUFFICES ASSUME Inv, OrderInv, UnderwayInv, FilesTyped, SecretsTyped, [Next]_vars
               PROVE  FilesTyped' /\ SecretsTyped'
    OBVIOUS
  <1>1. CASE \E n \in Names : BeginRm(n) \/ \E t \in Targets : BeginApply(n, t)
    <2>1. job'.secret = None /\ job'.fresh = FALSE /\ UNCHANGED <<file, shown, faults>>
      BY <1>1 DEF BeginRm, BeginApply, Start_
    <2> QED BY <2>1 DEF FilesTyped, SecretsTyped, Contents
  <1>2. CASE \E s \in Todo : ApplyNext(s) \/ RmNext(s) \/ Rejected(s) \/ Fault(s)
    BY <1>2, CommandKeepsFiles, CommandKeepsSecrets DEF Todo
  <1>3. CASE \E m \in Writers : AppWrites(m)
    <2>1. PICK m \in Names : /\ file' = [file EXCEPT ![Data(m)] = Present]
                             /\ UNCHANGED <<job, shown, faults>>
      BY <1>3, BoundsAssumption DEF AppWrites
    <2>2. Data(m) \in Files /\ Contents(Data(m)) = {Present}
      BY FilesOfHost, ContentsOf
    <2>3. FilesTyped'
      BY <2>1, <2>2 DEF FilesTyped, Contents
    <2> QED BY <2>1, <2>3 DEF SecretsTyped
  <1>4. CASE (\E id \in AdminIds : AdminAddsUser(id)) \/ (\E k \in AdminNames : AdminChmods(k)) \/ UNCHANGED vars
    <2>1. UNCHANGED <<file, job, shown, faults>>
      BY <1>4 DEF AdminAddsUser, AdminChmods, vars, host, tree
    <2> QED BY <2>1 DEF FilesTyped, SecretsTyped, Contents
  <1> QED BY <1>1, <1>2, <1>3, <1>4 DEF Next

-----------------------------------------------------------------------------
(* Types: systemd and Caddy.                                               *)

DaemonsTyped ==
    /\ groups \subseteq Ids /\ caddyGroups \subseteq Ids
    /\ freed \in Nat /\ reissued \subseteq Ids
    /\ loaded \in [Ids -> {None} \cup ServiceDefs]
    /\ proc \in [Ids -> {None} \cup Processes]
    /\ served \in [Names -> {None} \cup {Site(t) : t \in Targets}]

\* A new group takes an id that is free.
LEMMA GidTaken ==
    ASSUME NEW id \in Ids, TakeGid(id), caddyGroups \subseteq Ids, freed \in Nat, reissued \subseteq Ids
    PROVE  caddyGroups' = caddyGroups /\ freed' \in Nat /\ reissued' \subseteq Ids
  BY DEF TakeGid, gids

\* What a service reads when it is started.
LEMMA StartedTyped ==
    ASSUME FilesTyped, NEW def \in ServiceDefs
    PROVE  Started(def) \in Processes
  <1>1. \A m \in Names : /\ file[Env(m)] \in {None} \cup Tokens
                         /\ file[Page(m, Entry)] \in {None} \cup Versions
                         /\ file[Cache(m)] \in {None} \cup Versions
    <2> SUFFICES ASSUME NEW m \in Names
                 PROVE  /\ file[Env(m)] \in {None} \cup Tokens
                        /\ file[Page(m, Entry)] \in {None} \cup Versions
                        /\ file[Cache(m)] \in {None} \cup Versions
      OBVIOUS
    <2> QED BY FilesOfHost, ContentsOf, NamesAssumption DEF FilesTyped
  <1>2. def.name \in Names
    BY DEF ServiceDefs, AppService, GatewayService
  <1>3. <<file[Env(def.name)]>> \in Readings
    BY <1>1, <1>2 DEF Readings
  <1>4. <<file[Page(def.name, Entry)]>> \in Readings
    BY <1>1, <1>2 DEF Readings
  <1>5. <<file[Page(def.name, Entry)], file[Cache(def.name)]>> \in Readings
    BY <1>1, <1>2 DEF Readings
  <1>6. <<>> \in Readings
    BY DEF Readings
  <1>7. Reads(def) \in Readings
    BY <1>3, <1>4, <1>5, <1>6 DEF Reads
  <1> QED BY <1>7 DEF Started, Processes

\* Once an apply is past its writes, what it renders is on disk.
LEMMA Written ==
    ASSUME UnderwayInv, Planned, \A r \in job.todo : 13 < r.at
    PROVE  \A f \in RenderedFiles(job.unit, job.target) :
               file[f] = Rendered(job.unit, job.target, job.secret, f)
  <1>1. Underway
    BY PlannedUnderway
  <1>2. \A f : WriteAt(job.unit, f) \in 9..13
    BY DEF WriteAt
  <1>3. ASSUME NEW r \in job.todo PROVE r.verb # "write"
    <2>1. SUFFICES ASSUME r.verb = "write" PROVE FALSE
      OBVIOUS
    <2>2. r \notin Fixed(job.unit)
      BY <2>1, FixedNotPreparing DEF Preparing
    <2>3. r = Action(WriteAt(job.unit, r.on), "write", r.on)
      BY <2>1, <2>2, <1>3 DEF Planned, Ordered, Slot
    <2>4. r.at = WriteAt(job.unit, r.on)
      BY <2>3 DEF Action
    <2>5. r.at \in 9..13 /\ 13 < r.at
      BY <1>2, <1>3, <2>4
    <2> QED BY <2>5
  <1> QED BY <1>1, <1>3 DEF Underway, Pending

\* A service is started by an apply, in its place.
LEMMA StartPhase ==
    ASSUME Inv, OrderInv, job # None, NEW s \in job.todo, StartStep(s)
    PROVE  /\ Planned /\ Applying
           /\ \/ s = Starting(job.unit) /\ s.on[2] = job.unit
              \/ s = StartingGateway(job.unit) /\ s.on[2] = Gw[job.unit]
           /\ \A r \in job.todo : 23 < r.at
  <1>0. s.verb = "start" /\ First(s)
    BY DEF StartStep, Doing
  <1>1. Applying /\ Ordered
    <2>1. ~(RmStep(s) \/ DropStep(s))
      <3>1. ~(DisableStep(s) \/ StaleStep(s) \/ UserdelStep(s) \/ DropStep(s))
        BY <1>0 DEF DisableStep, StaleStep, UserdelStep, DropStep, Doing
      <3>2. ~(RemoveTreeStep(s) \/ DaemonReloadStep(s) \/ ReloadCaddyStep(s))
        BY <1>0, Zenon DEF RemoveTreeStep, DaemonReloadStep, ReloadCaddyStep, Doing
      <3> QED BY <3>1, <3>2 DEF RmStep
    <2> QED BY <2>1, KindPhases DEF Taken, ApplyStep
  <1>2. s \in Fixed(job.unit)
    <2>1. s.verb \notin Preparing
      BY <1>0, SweepingVerb DEF Preparing
    <2> QED BY <1>1, <2>1 DEF Ordered, Slot
  <1>3. \/ s = Restarting /\ RestartCaddyStep(s)
        \/ s = Reloading /\ DaemonReloadStep(s)
        \/ s = Starting(job.unit) /\ s.on[2] = job.unit /\ StartStep(s)
        \/ s = StartingGateway(job.unit) /\ s.on[2] = Gw[job.unit] /\ StartStep(s)
        \/ s = Serving /\ ReloadCaddyStep(s)
        \/ s = Committing(job.unit) /\ CommitStep(s)
        \/ s = Flushing /\ FlushStep(s)
    BY <1>2, FixedSteps DEF ApplyStep
  <1>4. ~(RestartCaddyStep(s) \/ DaemonReloadStep(s) \/ ReloadCaddyStep(s) \/ CommitStep(s) \/ FlushStep(s))
    BY <1>0, Zenon DEF RestartCaddyStep, DaemonReloadStep, ReloadCaddyStep, CommitStep, FlushStep, Doing
  <1>5. \/ s = Starting(job.unit) /\ s.on[2] = job.unit
        \/ s = StartingGateway(job.unit) /\ s.on[2] = Gw[job.unit]
    BY <1>3, <1>4
  <1>6. s.at \in {24, 25}
    BY <1>5, FixedPlaces
  <1>7. \A r \in job.todo : 23 < r.at
    BY <1>0, <1>1, <1>6, SlotNumbers DEF First, Ordered
  <1> QED BY <1>1, <1>5, <1>7 DEF Planned, Applying

\* And has its definition on disk by then.
LEMMA StartDefined ==
    ASSUME Inv, OrderInv, UnderwayInv, FilesTyped, SecretsTyped, job # None, NEW s \in job.todo,
           StartStep(s)
    PROVE  s.on[2] \in IdsOf(job.unit) /\ file[Service(s.on[2])] \in ServiceDefs
  <1>1. PICK n \in Names, t \in Targets : n = job.unit /\ t = job.target
    BY StartPhase DEF Applying, Inv, Typed
  <1>2. s.on[2] \in IdsOf(n)
    BY <1>1, StartPhase DEF IdsOf
  <1>3. Service(s.on[2]) \in RenderedFiles(n, t)
    BY <1>2 DEF IdsOf, RenderedFiles
  <1>4. \A r \in job.todo : 13 < r.at
    <2>1. \A r \in job.todo : 23 < r.at /\ r.at \in 1..29
      BY StartPhase, SlotNumbers DEF Planned, Ordered
    <2> QED BY <2>1
  <1>5. file[Service(s.on[2])] = Rendered(n, t, job.secret, Service(s.on[2]))
    BY <1>1, <1>3, <1>4, StartPhase, Written
  <1>6. job.secret \in Tokens
    BY StartPhase, PlannedUnderway DEF Underway, SecretsTyped
  <1> QED BY <1>1, <1>2, <1>3, <1>5, <1>6, RenderedTyped, ContentsOf

\* Every step of a command keeps the daemons typed.
LEMMA CommandKeepsDaemons ==
    ASSUME Inv, OrderInv, UnderwayInv, FilesTyped, SecretsTyped, DaemonsTyped, job # None,
           NEW s \in job.todo, ApplyNext(s) \/ RmNext(s) \/ Rejected(s) \/ Fault(s)
    PROVE  DaemonsTyped'
  <1>0. PICK n \in Names : n = job.unit
    BY DEF Inv, Typed
  <1>1. n \in Ids /\ IdsOf(n) \subseteq Ids
    BY NamesAssumption DEF IdsOf
  <1>2. /\ Vhosts \in [Names -> {None} \cup {Site(t) : t \in Targets}]
        /\ [id \in Ids |-> file[Service(id)]] \in [Ids -> {None} \cup ServiceDefs]
    <2>1. \A m \in Names : file[Vhost(m)] \in {None} \cup {Site(t) : t \in Targets}
      BY FilesOfHost, ContentsOf DEF FilesTyped
    <2>2. \A id \in Ids : file[Service(id)] \in {None} \cup ServiceDefs
      BY FilesOfHost, ContentsOf DEF FilesTyped
    <2> QED BY <2>1, <2>2 DEF Vhosts
  <1>3. CASE \/ Refuse(s) \/ NoChanges(s) \/ PrintStep(s) \/ Rejected(s) \/ Fault(s)
             \/ NotFound(s) \/ PruneStep(s) \/ PutIncomplete(s) \/ LoadUnit(s) \/ DropStep(s)
             \/ MkdirStep(s) \/ ChmodStep(s) \/ FileStep(s) \/ SweepStep(s) \/ GiveStep(s)
             \/ CommitStep(s) \/ FlushStep(s) \/ RemoveTreeStep(s)
    <2>1. UNCHANGED <<groups, caddyGroups, freed, reissued, loaded, proc, served>>
      BY <1>3 DEF Refuse, NoChanges, PrintStep, Rejected, Fault, NotFound, PruneStep,
             PutIncomplete, LoadUnit, DropStep, MkdirStep, ChmodStep, FileStep,
             WriteStep, StaleStep, SweepStep, UnmarkStep, SyncStep, MarkStep, GiveStep, CommitStep, FlushStep,
             RemoveTreeStep, host, accounts, daemons, gids
    <2> QED BY <2>1 DEF DaemonsTyped
  <1>12. CASE UserStep(s)
    <2>1. s.on[2] \in Ids
      BY <1>0, <1>1, <1>12, StepTyped DEF UserStep, Doing
    <2>2. TakeGid(s.on[2]) /\ UNCHANGED <<groups, loaded, proc, served>>
      BY <1>12 DEF UserStep, CreateUser
    <2> QED BY <2>1, <2>2, GidTaken DEF DaemonsTyped
  <1>4. CASE JoinStep(s)
    <2>1. s.on[2] = n
      <3>1. s.verb = "join"
        BY <1>4 DEF JoinStep, Doing
      <3>2. s.on = <<"group", n>>
        BY <1>0, <3>1, Phases DEF Applying, ApplyActionOf, RmVerbs
      <3> QED BY <3>2
    <2> QED BY <1>1, <1>4, <2>1 DEF JoinStep, AddGroupMember, daemons, gids, DaemonsTyped
  <1>5. CASE LeaveStep(s)
    BY <1>5 DEF LeaveStep, RemoveGroupMember, daemons, gids, DaemonsTyped
  <1>6. CASE RestartCaddyStep(s)
    BY <1>2, <1>6 DEF RestartCaddyStep, CaddyRestart, accounts, DaemonsTyped
  <1>7. CASE ReloadCaddyStep(s)
    BY <1>2, <1>7 DEF ReloadCaddyStep, CaddyReload, accounts, gids, DaemonsTyped
  <1>8. CASE DaemonReloadStep(s)
    BY <1>2, <1>8 DEF DaemonReloadStep, DaemonReload, accounts, gids, DaemonsTyped
  <1>9. CASE StartStep(s)
    <2>1. PICK id \in Ids : id = s.on[2]
      BY <1>0, <1>1, <1>9, StartDefined
    <2>2. PICK def \in ServiceDefs : def = IF loaded[id] = None THEN file[Service(id)] ELSE loaded[id]
      BY <1>9, <2>1, StartDefined DEF DaemonsTyped
    <2>3. /\ proc' = [proc EXCEPT ![id] = Started(def)] /\ loaded' = [loaded EXCEPT ![id] = def]
          /\ UNCHANGED <<groups, caddyGroups, freed, reissued, served>>
      BY <1>9, <2>1, <2>2 DEF StartStep, Start, accounts, gids
    <2> QED BY <2>3, StartedTyped DEF DaemonsTyped
  <1>10. CASE DisableStep(s)
    BY <1>10 DEF DisableStep, Disable, accounts, gids, DaemonsTyped
  <1>11. CASE UserdelStep(s)
    <2>1. /\ groups' \subseteq groups /\ caddyGroups' \subseteq caddyGroups
          /\ reissued' \subseteq reissued /\ freed' \in {freed, freed + 1}
          /\ UNCHANGED <<loaded, proc, served>>
      BY <1>11 DEF UserdelStep, DeleteUser, gids
    <2> QED BY <2>1 DEF DaemonsTyped
  <1> QED BY <1>3, <1>4, <1>5, <1>6, <1>7, <1>8, <1>9, <1>10, <1>11, <1>12
          DEF ApplyNext, RmNext, FileStep

\* So does every step of the specification, and every stutter.
LEMMA NextKeepsDaemons ==
    Inv /\ OrderInv /\ UnderwayInv /\ FilesTyped /\ SecretsTyped /\ DaemonsTyped /\ [Next]_vars
        => DaemonsTyped'
  <1> SUFFICES ASSUME Inv, OrderInv, UnderwayInv, FilesTyped, SecretsTyped, DaemonsTyped,
                      [Next]_vars
               PROVE  DaemonsTyped'
    OBVIOUS
  <1>1. CASE \E s \in Todo : ApplyNext(s) \/ RmNext(s) \/ Rejected(s) \/ Fault(s)
    BY <1>1, CommandKeepsDaemons DEF Todo
  <1>2. CASE \/ \E n \in Names : BeginRm(n) \/ \E t \in Targets : BeginApply(n, t)
             \/ \E m \in Writers : AppWrites(m)
             \/ \E k \in AdminNames : AdminChmods(k)
             \/ UNCHANGED vars
    <2>1. UNCHANGED <<groups, caddyGroups, freed, reissued, loaded, proc, served>>
      BY <1>2 DEF BeginRm, BeginApply, Start_, AppWrites, AdminChmods, vars, host, accounts, daemons, gids
    <2> QED BY <2>1 DEF DaemonsTyped
  <1>3. CASE \E id \in AdminIds : AdminAddsUser(id)
    <2>1. PICK id \in Ids : TakeGid(id) /\ UNCHANGED <<groups, loaded, proc, served>>
      BY <1>3, BoundsAssumption DEF AdminAddsUser
    <2> QED BY <2>1, GidTaken DEF DaemonsTyped
  <1> QED BY <1>1, <1>2, <1>3 DEF Next

-----------------------------------------------------------------------------
(* Types: commands.                                                        *)

JobsTyped == job # None => job \in Jobs

PlainVerbs == {"plan", "load", "user", "mkdir", "chmod", "write", "rm", "unmark", "sync", "mark",
               "chgrp", "chown", "join", "leave", "start", "commit", "flush", "print", "disable",
               "userdel", "drop", "prune"}

LEMMA VerbNames ==
    /\ PlainVerbs \subseteq Verbs
    /\ "restart caddy" \in Verbs /\ "daemon-reload" \in Verbs
    /\ "reload caddy" \in Verbs /\ "rm tree" \in Verbs
  BY Zenon DEF PlainVerbs, Verbs

LEMMA AnyActionTyped ==
    ASSUME NEW at \in 0..29, NEW verb \in Verbs, NEW on \in Things
    PROVE  Action(at, verb, on) \in Actions
  BY DEF Action, Actions

LEMMA ActionTyped ==
    ASSUME NEW at \in 0..29, NEW verb \in PlainVerbs, NEW on \in Things
    PROVE  Action(at, verb, on) \in Actions
  <1>1. PlainVerbs \subseteq Verbs
    BY VerbNames, Zenon
  <1> QED BY <1>1, AnyActionTyped

\* Everything a unit has is something a command can act on.
LEMMA UnitThings ==
    ASSUME NEW n \in Names
    PROVE  /\ OwnDirs(n) \cup OwnFiles(n) \subseteq Things
           /\ \A id \in IdsOf(n) : <<"user", id>> \in Things /\ <<"service", id>> \in Things
           /\ <<"group", n>> \in Things /\ <<"unit", n>> \in Things
           /\ <<"systemd">> \in Things /\ <<"caddy">> \in Things /\ <<"lib">> \in Things
  <1>1. n \in Ids /\ IdsOf(n) \subseteq Ids
    BY NamesAssumption DEF IdsOf
  <1>2. \A kind \in {"user", "group", "unit"}, id \in Ids : <<kind, id>> \in Things
    BY DEF Things
  <1>3. \A id \in Ids : <<"service", id>> \in Things
    BY DEF Things, Files, Service
  <1>4. <<"systemd">> \in Things /\ <<"caddy">> \in Things /\ <<"lib">> \in Things
    BY DEF Things, Dirs, Shared, Lib
  <1>5. OwnDirs(n) \cup OwnFiles(n) \subseteq Things
    BY DirTypes DEF Things
  <1> QED BY <1>1, <1>2, <1>3, <1>4, <1>5

LEMMA GroupShape ==
    ASSUME NEW n, NEW t
    PROVE  GroupActions(n, t) \subseteq {Action(19, "join", <<"group", n>>),
                                         Action(19, "leave", <<"group", n>>), Restarting}
  BY DEF GroupActions, When, Restarting

LEMMA ServiceShape ==
    ASSUME NEW n
    PROVE  ServiceActions(n) = {Reloading, Starting(n), StartingGateway(n), Serving}
  BY DEF ServiceActions, Reloading, Starting, StartingGateway, Serving

\* A plan is made of actions.
LEMMA BuildActions ==
    ASSUME NEW n \in Names, NEW t \in Targets, NEW secret
    PROVE  Build(n, t, secret) \cup Ending(n) \subseteq Actions
  <1>a. n \in IdsOf(n) /\ Gw[n] \in IdsOf(n)
    BY DEF IdsOf
  <1>0. /\ OwnDirs(n) \cup OwnFiles(n) \subseteq Things
        /\ <<"user", n>> \in Things /\ <<"service", n>> \in Things
        /\ <<"user", Gw[n]>> \in Things /\ <<"service", Gw[n]>> \in Things
        /\ <<"group", n>> \in Things /\ <<"unit", n>> \in Things
        /\ <<"systemd">> \in Things /\ <<"caddy">> \in Things /\ <<"lib">> \in Things
    BY <1>a, UnitThings
  <1> USE <1>0, ActionTyped DEF PlainVerbs
  <1>1. UserActions(n) \subseteq Actions
    BY DEF UserActions, When
  <1>2. DirectoryActions(n) \subseteq Actions
    <2>1. \A at \in {3, 5, 7} : \A d \in OwnDirs(n) : MkdirActions(at, d) \subseteq Actions
      <3> SUFFICES ASSUME NEW at \in {3, 5, 7}, NEW d \in OwnDirs(n)
                   PROVE  MkdirActions(at, d) \subseteq Actions
        OBVIOUS
      <3>1. d \in Things /\ at \in 0..29 /\ at + 1 \in 0..29
        OBVIOUS
      <3>2. Action(at, "mkdir", d) \in Actions /\ Action(at + 1, "chmod", d) \in Actions
        BY <3>1
      <3> QED BY <3>2 DEF MkdirActions, When
    <2> QED BY <1>a, <2>1 DEF DirectoryActions, OwnDirs
  <1>3. WriteActions(n, t, secret) \subseteq Actions
    <2>1. \A f : WriteAt(n, f) \in 0..29
      BY DEF WriteAt
    <2>2. ToWrite(n, t, secret) \subseteq OwnFiles(n)
      BY RenderedNames DEF ToWrite
    <2> QED BY <2>1, <2>2 DEF WriteActions
  <1>4. StaleActions(n, t) \subseteq Actions
    <2>1. Stale(n, t) \subseteq Files /\ Files \subseteq Things
      <3>1. ASSUME NEW f \in Files PROVE f \in Things
        BY ONLY f \in Files, SMT DEF Things
      <3> QED BY <3>1 DEF Stale, FilesIn
    <2>2. TempsIn(App(n)) \subseteq Files
      BY DEF TempsIn, FilesIn
    <2>3. \A f \in Things : Action(14, "rm temp", f) \in Actions
      <3>1. 14 \in 0..29
        OBVIOUS
      <3>2. "rm temp" \in Verbs
        BY ONLY Zenon DEF Verbs
      <3> QED BY ONLY <3>1, <3>2, AnyActionTyped, Zenon
    <2>4. \A f \in Stale(n, t) : Action(14, "rm", f) \in Actions
      BY <2>1
    <2> QED BY ONLY <2>1, <2>2, <2>3, <2>4, Zenon DEF StaleActions
  <1>5. DependencyActions(n, t, secret) \subseteq Actions
    <2>1. Marker(n) \in Things /\ Cache(n) \in Things
      BY DEF OwnFiles
    <2> QED BY <2>1 DEF DependencyActions, When
  <1>6. ChgrpActions(n) \cup ChownActions(n) \subseteq Actions
    <2>1. App(n) \in Things /\ State(n) \in Things /\ State(Gw[n]) \in Things
      BY <1>a DEF OwnDirs
    <2> QED BY <2>1 DEF ChgrpActions, ChownActions, When
  <1>7. Restarting \in Actions /\ Reloading \in Actions /\ Serving \in Actions
    <2>1. <<"systemd">> \in Things /\ <<"caddy">> \in Things
      OBVIOUS
    <2>2. 20 \in 0..29 /\ 23 \in 0..29 /\ 26 \in 0..29
      OBVIOUS
    <2> QED BY ONLY <2>1, <2>2, VerbNames, AnyActionTyped, Zenon DEF Restarting, Reloading, Serving
  <1>8. GroupActions(n, t) \subseteq Actions
    BY <1>7, GroupShape
  <1>9. ServiceActions(n) \subseteq Actions
    BY <1>7, ServiceShape DEF Starting, StartingGateway
  <1>10. Ending(n) \subseteq Actions
    BY DEF Ending
  <1> QED BY <1>1, <1>2, <1>3, <1>4, <1>5, <1>6, <1>8, <1>9, <1>10 DEF Build, Changes, When

\* So is what rm has to remove.
LEMMA ScriptActions ==
    ASSUME NEW n \in Names
    PROVE  RemovalActions(n) \subseteq Actions
  <1>a. n \in IdsOf(n) /\ Gw[n] \in IdsOf(n)
    BY DEF IdsOf
  <1>0. /\ OwnDirs(n) \cup OwnFiles(n) \subseteq Things
        /\ <<"user", n>> \in Things /\ <<"service", n>> \in Things
        /\ <<"user", Gw[n]>> \in Things /\ <<"service", Gw[n]>> \in Things
        /\ <<"group", n>> \in Things /\ <<"unit", n>> \in Things
        /\ <<"systemd">> \in Things /\ <<"caddy">> \in Things /\ <<"lib">> \in Things
    BY <1>a, UnitThings
  <1> USE <1>0, ActionTyped DEF PlainVerbs
  <1>1. /\ App(n) \in Things /\ State(n) \in Things /\ State(Gw[n]) \in Things
        /\ Env(n) \in Things /\ Service(n) \in Things /\ Service(Gw[n]) \in Things
        /\ Vhost(n) \in Things
    BY <1>a DEF OwnDirs, OwnFiles
  <1>2. UserdelActions(n) \subseteq Actions
    BY DEF UserdelActions
  <1>3. \A d \in {App(n), State(n), State(Gw[n])}, at \in 0..29 :
            Action(at, "rm tree", d) \in Actions
    <2>1. "rm tree" \in Verbs
      BY VerbNames, Zenon
    <2> QED BY ONLY <1>1, <2>1, AnyActionTyped, Zenon
  <1>4. \A at \in 0..29 : /\ Action(at, "daemon-reload", <<"systemd">>) \in Actions
                          /\ Action(at, "reload caddy", <<"caddy">>) \in Actions
    <2>1. "daemon-reload" \in Verbs /\ "reload caddy" \in Verbs
      BY VerbNames, Zenon
    <2> QED BY ONLY <1>0, <2>1, AnyActionTyped, Zenon
  <1>5. RemovalScript(n) \subseteq Actions
    <2>1. ASSUME NEW s \in RemovalScript(n), s \notin UserdelActions(n)
          PROVE  \/ \E at \in {1, 2}, id \in IdsOf(n) : s = Action(at, "disable", <<"service", id>>)
                 \/ \E at \in {3, 4, 5}, d \in {App(n), State(n), State(Gw[n])} :
                        s = Action(at, "rm tree", d)
                 \/ \E at \in {6, 7, 8, 9}, f \in OwnFiles(n) : s = Action(at, "rm", f)
                 \/ s = Action(12, "daemon-reload", <<"systemd">>)
                 \/ s = Action(13, "reload caddy", <<"caddy">>)
                 \/ s = Action(14, "drop", <<"unit", n>>)
                 \/ s = Action(15, "prune", <<"lib">>)
      <3>1. /\ Env(n) \in OwnFiles(n) /\ Service(n) \in OwnFiles(n)
            /\ Service(Gw[n]) \in OwnFiles(n) /\ Vhost(n) \in OwnFiles(n)
        BY <1>a DEF OwnFiles
      <3> QED BY ONLY <1>a, <2>1, <3>1, s \in RemovalScript(n), Zenon DEF RemovalScript
    <2> SUFFICES ASSUME NEW s \in RemovalScript(n), s \notin UserdelActions(n)
                 PROVE  s \in Actions
      BY <1>2
    <2>2. CASE \E at \in {1, 2}, id \in IdsOf(n) : s = Action(at, "disable", <<"service", id>>)
      <3>1. \A id \in IdsOf(n) : <<"service", id>> \in Things
        BY <1>0 DEF IdsOf
      <3> QED BY <2>2, <3>1
    <2>3. CASE \E at \in {3, 4, 5}, d \in {App(n), State(n), State(Gw[n])} :
                   s = Action(at, "rm tree", d)
      <3>1. \A at \in {3, 4, 5} : at \in 0..29
        OBVIOUS
      <3> QED BY ONLY <1>3, <2>3, <3>1, Zenon
    <2>4. CASE \E at \in {6, 7, 8, 9}, f \in OwnFiles(n) : s = Action(at, "rm", f)
      BY <1>0, <2>4
    <2>5. CASE s = Action(12, "daemon-reload", <<"systemd">>) \/ s = Action(13, "reload caddy", <<"caddy">>)
      <3>1. 12 \in 0..29 /\ 13 \in 0..29
        OBVIOUS
      <3> QED BY ONLY <1>4, <2>5, <3>1, Zenon
    <2>6. CASE s = Action(14, "drop", <<"unit", n>>) \/ s = Action(15, "prune", <<"lib">>)
      BY <2>6
    <2> QED BY <2>1, <2>2, <2>3, <2>4, <2>5, <2>6, Zenon
  <1> QED BY <1>5 DEF RemovalActions

\* A command with something else on its list is still a command.
LEMMA StillAJob ==
    ASSUME JobsTyped, job # None, NEW secret \in Tokens \cup {None}, NEW fresh \in BOOLEAN,
           NEW todo \in SUBSET Actions,
           job' = [job EXCEPT !.secret = secret, !.fresh = fresh, !.todo = todo]
    PROVE  job' \in Jobs /\ job' # None
  BY JobAssumption DEF JobsTyped, Jobs

LEMMA GoesOn ==
    ASSUME JobsTyped, job # None, NEW todo \in SUBSET Actions, job' = [job EXCEPT !.todo = todo]
    PROVE  job' \in Jobs /\ job' # None
  BY JobAssumption DEF JobsTyped, Jobs

\* The steps of a command that do not end it.
LEMMA CommandGoesOn ==
    ASSUME Inv, OrderInv, FilesTyped, JobsTyped, job # None, NEW s \in job.todo,
           PutIncomplete(s) \/ LoadUnit(s) \/ Taken(s)
    PROVE  job' \in Jobs /\ job' # None
  <1>a. PICK n : n = job.unit
    OBVIOUS
  <1>0. n \in Names
    BY <1>a DEF Inv, Typed
  <1>1. CASE PutIncomplete(s)
    <2>1. PICK t : t = job.target
      OBVIOUS
    <2>2. t \in Targets
      BY <1>1, <2>1, KindPhases DEF Inv, Typed
    <2>3. PICK secret \in SecretsFor(n) :
              job' = [job EXCEPT !.secret = secret, !.fresh = ~Reused(n),
                                 !.todo = Build(n, t, secret) \cup Ending(n)]
      BY <1>1, <1>a, <2>1 DEF PutIncomplete
    <2>4. secret \in Tokens
      BY <1>0, SecretTypes
    <2>5. PICK todo : todo = Build(n, t, secret) \cup Ending(n)
      OBVIOUS
    <2>6. todo \in SUBSET Actions
      BY <1>0, <2>2, <2>5, BuildActions
    <2>7. PICK fresh \in BOOLEAN : fresh = ~Reused(n)
      OBVIOUS
    <2> QED BY <2>3, <2>4, <2>5, <2>6, <2>7, StillAJob
  <1>2. CASE LoadUnit(s)
    <2>1. job' = [job EXCEPT !.todo = RemovalActions(n)]
      BY <1>2, <1>a DEF LoadUnit
    <2>2. PICK todo : todo = RemovalActions(n)
      OBVIOUS
    <2> QED BY <1>0, <2>1, <2>2, ScriptActions, GoesOn
  <1>3. CASE Taken(s)
    <2>1. job' = [job EXCEPT !.todo = job.todo \ {s}]
      BY <1>3, TakenDone DEF Done
    <2>2. job.todo \in SUBSET Actions
      BY DEF JobsTyped, Jobs
    <2>3. PICK todo : todo = job.todo \ {s}
      OBVIOUS
    <2> QED BY <2>1, <2>2, <2>3, GoesOn
  <1> QED BY <1>1, <1>2, <1>3

\* What a command begins with.
LEMMA BeginsTyped ==
    ASSUME NEW n \in Names, BeginRm(n) \/ \E t \in Targets : BeginApply(n, t)
    PROVE  job' \in Jobs /\ job' # None
  <1>1. PICK op \in {"apply", "rm"}, t \in Targets \cup {None}, verb \in {"plan", "load"} :
            Start_(op, n, t, verb)
    BY DEF BeginRm, BeginApply
  <1>2. PICK todo : todo = {Action(0, verb, <<"unit", n>>)}
    OBVIOUS
  <1>3. todo \in SUBSET Actions
    <2>1. <<"unit", n>> \in Things
      BY UnitThings
    <2>2. Action(0, verb, <<"unit", n>>) \in Actions
      BY <2>1, ActionTyped DEF PlainVerbs
    <2> QED BY <1>2, <2>2
  <1>4. job' = [op |-> op, unit |-> n, target |-> t, secret |-> None, fresh |-> FALSE,
                todo |-> todo]
    BY <1>1, <1>2 DEF Start_
  <1>5. job' \in Jobs
    BY <1>3, <1>4 DEF Jobs
  <1> QED BY <1>5, JobAssumption

LEMMA NextKeepsJobs == Inv /\ OrderInv /\ FilesTyped /\ JobsTyped /\ [Next]_vars => JobsTyped'
  <1> SUFFICES ASSUME Inv, OrderInv, FilesTyped, JobsTyped, [Next]_vars PROVE JobsTyped'
    OBVIOUS
  <1>1. ASSUME NEW s \in Todo, ApplyNext(s) \/ RmNext(s) \/ Rejected(s) \/ Fault(s)
        PROVE  JobsTyped'
    <2>0. job # None /\ s \in job.todo
      BY DEF Todo
    <2>1. CASE Ends(s)
      BY <2>1, EndsJob DEF JobsTyped
    <2>2. CASE PutIncomplete(s) \/ LoadUnit(s) \/ Taken(s)
      BY <2>0, <2>2, CommandGoesOn DEF JobsTyped
    <2> QED BY <1>1, <2>1, <2>2, StepKinds
  <1>2. ASSUME NEW n \in Names, BeginRm(n) \/ \E t \in Targets : BeginApply(n, t)
        PROVE  JobsTyped'
    BY <1>2, BeginsTyped DEF JobsTyped
  <1>3. CASE \/ \E m \in Writers : AppWrites(m)
             \/ \E id \in AdminIds : AdminAddsUser(id)
             \/ \E k \in AdminNames : AdminChmods(k)
             \/ UNCHANGED vars
    BY <1>3 DEF AppWrites, AdminAddsUser, AdminChmods, vars, JobsTyped
  <1> QED BY <1>1, <1>2, <1>3 DEF Next

\* A temporary file is left only where a write can be cut off.
TornInv == temps \subseteq Torn
LEMMA NextKeepsTorn == TornInv /\ [Next]_vars => TornInv'
  <1> SUFFICES ASSUME temps \subseteq Torn, [Next]_vars PROVE temps' \subseteq Torn
    BY DEF TornInv
  <1>1. CASE \E s \in Todo : ApplyNext(s) \/ RmNext(s) \/ Rejected(s)
    BY <1>1, TempsShrink
  <1>2. CASE \E s \in Todo : Fault(s)
    BY <1>2 DEF Fault, CutOff
  <1>3. CASE \/ \E n \in Names : BeginRm(n) \/ \E t \in Targets : BeginApply(n, t)
             \/ \E m \in Writers : AppWrites(m)
             \/ \E id \in AdminIds : AdminAddsUser(id)
             \/ \E k \in AdminNames : AdminChmods(k)
             \/ UNCHANGED vars
    BY <1>3 DEF BeginRm, BeginApply, Start_, AppWrites, AdminAddsUser, AdminChmods, vars, host, tree
  <1> QED BY <1>1, <1>2, <1>3 DEF Next

\* What has been proved of the types, put together.
LEMMA TypesTogether ==
    ASSUME Inv, OrderInv, ToldInv, TreeTyped, FilesTyped, SecretsTyped, DaemonsTyped,
           JobsTyped, TornInv
    PROVE  TypeOK
  <1>1. \A n \in Names :
            /\ file[Vhost(n)] \in {None} \cup {Site(t) : t \in Targets}
            /\ file[Env(n)] \in {None} \cup Tokens
            /\ file[Cache(n)] \in {None} \cup Versions
            /\ file[Marker(n)] \in {None, Present}
            /\ file[Data(n)] \in {None, Present}
    BY FilesOfHost, ContentsOf DEF FilesTyped
  <1>2. \A n \in Names : \A p \in Pages : file[Page(n, p)] \in {None} \cup Versions
    BY FilesOfHost, ContentsOf DEF FilesTyped
  <1>3. \A id \in Ids : file[Service(id)] \in {None} \cup ServiceDefs
    BY FilesOfHost, ContentsOf DEF FilesTyped
  <1>4. ASSUME job # None
        PROVE  /\ job \in Jobs
               /\ job.op = "apply" => job.target \in Targets
               /\ job.todo # {}
    BY <1>4 DEF OrderInv, Ordered, Inv, Typed, JobsTyped
  <1>5. /\ users \in [Ids -> {"none", "smallapp", "foreign"}]
        /\ registry \in [Names -> {None} \cup Entries]
        /\ DOMAIN file = Files
    BY DEF Inv, Typed
  <1>6. told \in [Names -> {None, Gone} \cup Targets]
    BY DEF ToldInv
  <1> QED BY <1>1, <1>2, <1>3, <1>4, <1>5, <1>6
          DEF TypeOK, TreeTyped, SecretsTyped, DaemonsTyped, TornInv

\* The host, the registry and the command in progress are always of their types
\* (Promises.TypeOK): a command that has begun always has something left to do,
\* and no service is started before its definition is on disk.
THEOREM AlwaysTyped == Spec => []TypeOK
  <1>1. ASSUME Init
        PROVE  /\ OrderInv /\ UnderwayInv /\ ToldInv /\ TreeTyped /\ FilesTyped
               /\ SecretsTyped /\ DaemonsTyped /\ JobsTyped /\ TornInv
    <2>1. job = None /\ \A n \in Names : told[n] = None
      BY <1>1 DEF Init
    <2>2. OrderInv /\ UnderwayInv /\ SecretsTyped /\ JobsTyped
      BY <1>1, <2>1, BoundsAssumption DEF OrderInv, UnderwayInv, SecretsTyped, JobsTyped, Init
    <2>3. ToldInv
      BY <1>1, <2>1, ReportsAssumption DEF ToldInv, Init, Applied, Planned
    <2>4. TreeTyped
      BY <1>1, PreDirsAssumption, DirTypes DEF TreeTyped, Init, SystemInit
    <2>5. FilesTyped /\ DaemonsTyped /\ TornInv
      BY <1>1 DEF TornInv, FilesTyped, DaemonsTyped, Init, SystemInit
    <2> QED BY <2>2, <2>3, <2>4, <2>5
  <1>2. Init => PreInv
    BY PreDirsAssumption DEF Init, SystemInit, PreInv, PreexistingKept
  <1> QED BY <1>1, <1>2, InitInv, NextInv, NextKeepsPre, NextKeepsOrder, NextKeepsUnderway,
             NextKeepsTold, NextKeepsTree, NextKeepsFiles, NextKeepsDaemons, NextKeepsJobs,
             NextKeepsTorn, TypesTogether, PTL DEF Spec

-----------------------------------------------------------------------------
(* What runs is what is on disk.                                           *)

\* A service of unit n runs its definition and what that reads, as they are on disk.
RunsAs(n, id) ==
    /\ Exists(Service(id)) /\ file[Service(id)].name = n
    /\ proc[id] = Started(file[Service(id)])

Current(n) ==
    /\ Exists(Vhost(n)) => served[n] = file[Vhost(n)]
    /\ \A id \in IdsOf(n) : proc[id] # None => RunsAs(n, id)

\* What an apply has brought about when its fixed steps are past.
Effects(n) ==
    /\ Past(Reloading) => \A id \in IdsOf(n) : loaded[id] = file[Service(id)]
    /\ Past(Starting(n)) => RunsAs(n, n)
    /\ Past(StartingGateway(n)) => RunsAs(n, Gw[n])
    /\ Past(Serving) => served[n] = file[Vhost(n)]

CurrentInv ==
    /\ \A n \in Names : Complete(n) => Current(n)
    /\ Planned => Effects(job.unit)

\* A service runs on as it was while neither it nor what it reads changes.
LEMMA RunsOn ==
    ASSUME NEW n, NEW id, RunsAs(n, id), proc'[id] = proc[id],
           \A f \in {Service(id), Env(n), Page(n, Entry), Cache(n)} : file'[f] = file[f]
    PROVE  RunsAs(n, id)'
  <1>1. PICK def : def = file[Service(id)]
    OBVIOUS
  <1>2. def.name = n /\ proc[id] = Started(def)
    BY <1>1 DEF RunsAs
  <1>3. Reads(def)' = Reads(def)
    BY <1>2 DEF Reads
  <1>4. Started(def)' = Started(def)
    BY <1>3 DEF Started
  <1>5. file'[Service(id)] = def /\ def # None
    BY <1>1 DEF RunsAs, Exists
  <1>6. proc'[id] = Started(def)'
    BY <1>2, <1>4
  <1> QED BY <1>2, <1>5, <1>6 DEF RunsAs, Exists

\* The steps of an apply that come after its preparations.
LEMMA LateSteps ==
    ASSUME Inv, Planned, NEW s \in job.todo, ApplyStep(s) \/ CommitStep(s), NEW n, n = job.unit,
           ~(s.at \in 1..22)
    PROVE  /\ s \in Fixed(n) /\ UNCHANGED file
           /\ \/ s = Reloading /\ DaemonReload
              \/ s = Starting(n) /\ Start(n)
              \/ s = StartingGateway(n) /\ Start(Gw[n])
              \/ s = Serving /\ CaddyReload
              \/ s \in {Committing(n), Flushing} /\ UNCHANGED daemons
  <1>1. s \in Fixed(n)
    BY DEF Planned, Ordered, Slot
  <1>2. s # Restarting
    BY FixedPlaces
  <1>3. \/ s = Reloading /\ DaemonReloadStep(s)
        \/ s = Starting(n) /\ s.on[2] = n /\ StartStep(s)
        \/ s = StartingGateway(n) /\ s.on[2] = Gw[n] /\ StartStep(s)
        \/ s = Serving /\ ReloadCaddyStep(s)
        \/ s = Committing(n) /\ CommitStep(s)
        \/ s = Flushing /\ FlushStep(s)
    BY <1>1, <1>2, FixedSteps
  <1>4. CASE s = Reloading /\ DaemonReloadStep(s)
    BY <1>1, <1>4 DEF DaemonReloadStep, tree
  <1>5. CASE s = Starting(n) /\ s.on[2] = n /\ StartStep(s)
    BY <1>1, <1>5 DEF StartStep, Start
  <1>6. CASE s = StartingGateway(n) /\ s.on[2] = Gw[n] /\ StartStep(s)
    BY <1>1, <1>6 DEF StartStep, Start
  <1>7. CASE s = Serving /\ ReloadCaddyStep(s)
    BY <1>1, <1>7 DEF ReloadCaddyStep, tree
  <1>8. CASE s = Committing(n) /\ CommitStep(s)
    BY <1>1, <1>8 DEF CommitStep, host, tree
  <1>9. CASE s = Flushing /\ FlushStep(s)
    BY <1>1, <1>9 DEF FlushStep, tree
  <1> QED BY <1>3, <1>4, <1>5, <1>6, <1>7, <1>8, <1>9

\* What a service of the unit is started with is its definition on disk.
LEMMA StartsIt ==
    ASSUME Inv, UnderwayInv, FilesTyped, SecretsTyped, DaemonsTyped, Planned, Effects(job.unit),
           NEW n \in Names, n = job.unit, NEW id \in IdsOf(n), Start(id),
           \A r \in job.todo : 23 < r.at
    PROVE  /\ RunsAs(n, id)'
           /\ loaded' = [loaded EXCEPT ![id] = file[Service(id)]]
           /\ proc' = [proc EXCEPT ![id] = Started(file[Service(id)])]
           /\ file[Service(id)] \in ServiceDefs
  <1>0. id \in Ids /\ Gw[n] # n
    BY NamesAssumption DEF IdsOf
  <1>1. Past(Reloading)
    BY FixedPlaces DEF Past, After
  <1>2. loaded[id] = file[Service(id)]
    BY <1>1 DEF Effects
  <1>3. PICK t \in Targets : t = job.target
    BY DEF Planned, Inv, Typed
  <1>4. \A r \in job.todo : 13 < r.at
    BY SlotNumbers DEF Planned, Ordered
  <1>5. file[Service(id)] = Rendered(n, t, job.secret, Service(id))
    <2>1. Service(id) \in RenderedFiles(n, t)
      BY DEF IdsOf, RenderedFiles
    <2> QED BY <1>3, <1>4, <2>1, Written
  <1>6. PICK def : def = file[Service(id)]
    OBVIOUS
  <1>7. def \in ServiceDefs /\ def.name = n
    <2>1. CASE id = n
      <3>1. def = AppService(n, t)
        BY <1>0, <1>5, <1>6, <2>1, RenderedEach
      <3> QED BY <3>1 DEF AppService, ServiceDefs
    <2>2. CASE id = Gw[n]
      <3>1. def = GatewayService(n)
        BY <1>0, <1>5, <1>6, <2>2, RenderedEach
      <3>2. GatewayService(n) \in ServiceDefs
        BY DEF ServiceDefs
      <3>3. def.name = n
        BY <3>1 DEF GatewayService
      <3> QED BY <3>1, <3>2, <3>3
    <2> QED BY <2>1, <2>2 DEF IdsOf
  <1>8. def # None
    BY <1>7, NothingAssumption
  <1>9. loaded' = [loaded EXCEPT ![id] = def] /\ proc' = [proc EXCEPT ![id] = Started(def)]
        /\ UNCHANGED file
    BY <1>2, <1>6 DEF Start
  <1>10. Started(def)' = Started(def)
    BY <1>9 DEF Started, Reads
  <1>11. proc'[id] = Started(def)' /\ file'[Service(id)] = def
    BY <1>0, <1>6, <1>9, <1>10 DEF DaemonsTyped
  <1> QED BY <1>6, <1>7, <1>8, <1>9, <1>11 DEF RunsAs, Exists

\* The steps of an apply bring that about, and keep it.
LEMMA EffectsOfSteps ==
    ASSUME Inv, UnderwayInv, FilesTyped, SecretsTyped, DaemonsTyped, Planned, Applying,
           Effects(job.unit), NEW n \in Names, n = job.unit, NEW s \in job.todo,
           ApplyStep(s) \/ CommitStep(s), job'.todo = job.todo \ {s}
    PROVE  Effects(n)'
  <1> USE DEF Past, After
  <1>0. n \in Ids /\ Gw[n] \in Ids /\ Gw[n] # n /\ IdsOf(n) = {n, Gw[n]}
    BY NamesAssumption DEF IdsOf
  <1>1. First(s)
    BY TakenDone DEF Taken
  <1>2. \A r \in job.todo : r.at \in 1..29 /\ s.at <= r.at /\ s.at \in 1..29
    BY <1>1, SlotNumbers DEF First, Planned, Ordered
  <1>3. Effects(n)
    OBVIOUS
  <1>4. ASSUME NEW a \in {Reloading, Starting(n), StartingGateway(n), Serving},
               \A r \in job'.todo : a.at < r.at
        PROVE  Past(a) \/ s = a
    BY <1>4, PastWhenDone DEF Planned, Ordered, Fixed
  <1>5. ASSUME \A r \in job'.todo : Reloading.at < r.at
        PROVE  \A id \in IdsOf(n) : loaded'[id] = file'[Service(id)]
    <2>1. CASE s = Reloading
      <3>1. DaemonReload /\ UNCHANGED file
        BY <2>1, FixedPlaces, LateSteps
      <3> QED BY <1>0, <3>1 DEF DaemonReload
    <2>2. CASE Past(Reloading)
      <3>1. 23 < s.at /\ \A r \in job.todo : 23 < r.at
        BY <2>2, FixedPlaces
      <3>2. \A id \in IdsOf(n) : loaded[id] = file[Service(id)]
        BY <1>3, <2>2 DEF Effects
      <3>3. UNCHANGED file /\ (UNCHANGED loaded \/ \E id \in IdsOf(n) : Start(id))
        <4>1. ~(s.at \in 1..22) /\ s # Reloading
          BY <3>1, FixedPlaces
        <4> QED BY <1>0, <4>1, LateSteps DEF CaddyReload, daemons
      <3>4. CASE UNCHANGED loaded
        BY <3>2, <3>3, <3>4
      <3>5. CASE \E id \in IdsOf(n) : Start(id)
        <4>1. PICK id \in IdsOf(n) : Start(id)
          BY <3>5
        <4>2. loaded' = [loaded EXCEPT ![id] = file[Service(id)]]
          BY <3>1, <4>1, StartsIt
        <4> QED BY <1>0, <3>2, <3>3, <4>2 DEF DaemonsTyped
      <3> QED BY <3>3, <3>4, <3>5
    <2> QED BY <1>4, <1>5, <2>1, <2>2
  <1>6. ASSUME \A r \in job'.todo : Starting(n).at < r.at
        PROVE  RunsAs(n, n)'
    <2>1. CASE s = Starting(n)
      <3>1. Start(n) /\ \A r \in job.todo : 23 < r.at
        BY <1>2, <2>1, FixedPlaces, LateSteps
      <3> QED BY <1>0, <3>1, StartsIt
    <2>2. CASE Past(Starting(n))
      <3>1. 24 < s.at
        BY <2>2, FixedPlaces
      <3>2. UNCHANGED file /\ proc'[n] = proc[n]
        <4>1. ~(s.at \in 1..22) /\ s # Reloading /\ s # Starting(n)
          BY <3>1, FixedPlaces
        <4> QED BY <1>0, <4>1, LateSteps DEF CaddyReload, daemons, Start, DaemonsTyped
      <3> QED BY <1>3, <2>2, <3>2, RunsOn DEF Effects
    <2> QED BY <1>4, <1>6, <2>1, <2>2
  <1>7. ASSUME \A r \in job'.todo : StartingGateway(n).at < r.at
        PROVE  RunsAs(n, Gw[n])'
    <2>1. CASE s = StartingGateway(n)
      <3>1. Start(Gw[n]) /\ \A r \in job.todo : 23 < r.at
        BY <1>2, <2>1, FixedPlaces, LateSteps
      <3> QED BY <1>0, <3>1, StartsIt
    <2>2. CASE Past(StartingGateway(n))
      <3>1. 25 < s.at
        BY <2>2, FixedPlaces
      <3>2. UNCHANGED file /\ proc' = proc
        <4>1. ~(s.at \in 1..22) /\ s # Reloading /\ s # Starting(n) /\ s # StartingGateway(n)
          BY <3>1, FixedPlaces
        <4> QED BY <4>1, LateSteps DEF CaddyReload, daemons
      <3> QED BY <1>3, <2>2, <3>2, RunsOn DEF Effects
    <2> QED BY <1>4, <1>7, <2>1, <2>2
  <1>8. ASSUME \A r \in job'.todo : Serving.at < r.at
        PROVE  served'[n] = file'[Vhost(n)]
    <2>1. CASE s = Serving
      <3>1. CaddyReload /\ UNCHANGED file
        BY <2>1, FixedPlaces, LateSteps
      <3> QED BY <3>1 DEF CaddyReload, Vhosts
    <2>2. CASE Past(Serving)
      <3>1. 26 < s.at
        BY <2>2, FixedPlaces
      <3>2. UNCHANGED <<file, served>>
        <4>1. /\ ~(s.at \in 1..22) /\ s # Reloading /\ s # Starting(n) /\ s # StartingGateway(n)
              /\ s # Serving
          BY <3>1, FixedPlaces
        <4> QED BY <4>1, LateSteps DEF daemons
      <3> QED BY <1>3, <2>2, <3>2 DEF Effects
    <2> QED BY <1>4, <1>8, <2>1, <2>2
  <1> QED BY <1>5, <1>6, <1>7, <1>8 DEF Effects

\* What a command has begun with is no plan yet.
LEMMA Begun ==
    ASSUME NEW n, BeginRm(n) \/ \E t \in Targets : BeginApply(n, t)
    PROVE  /\ job = None /\ ~Planned'
           /\ job'.unit = n /\ told' = [told EXCEPT ![n] = None] /\ MkdirP(Lib)
           /\ UNCHANGED <<accounts, loose, owned, file, temps, daemons, registry, shown, faults>>
  <1>1. PICK verb \in {"plan", "load"} :
            /\ job = None /\ told' = [told EXCEPT ![n] = None] /\ MkdirP(Lib)
            /\ job'.unit = n /\ job'.todo = {Action(0, verb, <<"unit", n>>)}
            /\ UNCHANGED <<accounts, loose, owned, file, temps, daemons, registry, shown, faults>>
    <2>1. CASE BeginRm(n)
      BY <2>1 DEF BeginRm, Start_
    <2>2. CASE \E t \in Targets : BeginApply(n, t)
      BY <2>2 DEF BeginApply, Start_
    <2> QED BY <2>1, <2>2
  <1>2. \A r \in job'.todo : r.verb # "print"
    BY <1>1 DEF Action
  <1>3. \A u : Printing(u).verb = "print"
    BY FixedVerbs, Zenon
  <1>4. \A u : Printing(u) \notin job'.todo
    BY <1>2, <1>3
  <1> QED BY <1>1, <1>4 DEF Planned, Ordered

\* Caddy's configuration is left alone, or is what is on disk.
LEMMA ServedSteps ==
    ASSUME NEW s, ApplyNext(s) \/ RmNext(s) \/ Rejected(s) \/ Fault(s)
    PROVE  UNCHANGED served \/ (served' = Vhosts /\ UNCHANGED file)
  <1>1. CASE Ends(s) \/ PutIncomplete(s) \/ LoadUnit(s)
    BY <1>1 DEF Ends, Refuse, NoChanges, PrintStep, Rejected, Fault, NotFound, PruneStep,
           PutIncomplete, LoadUnit, daemons, host
  <1>2. CASE RestartCaddyStep(s) \/ ReloadCaddyStep(s)
    BY <1>2 DEF RestartCaddyStep, CaddyRestart, ReloadCaddyStep, CaddyReload, tree
  <1>3. CASE ApplyStep(s) /\ ~RestartCaddyStep(s) /\ ~ReloadCaddyStep(s)
    BY <1>3 DEF ApplyStep, UserStep, MkdirStep, ChmodStep, WriteStep, StaleStep, SweepStep, UnmarkStep,
           SyncStep, MarkStep, GiveStep, JoinStep, LeaveStep,
           DaemonReloadStep, DaemonReload, StartStep, Start, FlushStep, daemons
  <1>4. CASE RmStep(s) \/ CommitStep(s) \/ DropStep(s)
    BY <1>2, <1>4 DEF RmStep, DisableStep, Disable, RemoveTreeStep, StaleStep, UserdelStep, DeleteUser,
           DaemonReloadStep, DaemonReload, CommitStep, DropStep, daemons, host
  <1> QED BY <1>1, <1>2, <1>3, <1>4, StepKinds DEF Taken

\* A unit whose files and services are left alone stays as current as it was.
LEMMA StaysCurrent ==
    ASSUME NEW n \in Names, Current(n), UNCHANGED served \/ (served' = Vhosts /\ UNCHANGED file),
           \A f \in Files : file'[f] # file[f] => f[2] \notin IdsOf(n) \/ \E m : f = Data(m),
           \A id \in IdsOf(n) : proc'[id] = proc[id]
    PROVE  Current(n)'
  <1>1. /\ \A id \in IdsOf(n) : Service(id) \in Files /\ Service(id)[2] \in IdsOf(n)
        /\ \A f \in {Vhost(n), Env(n), Page(n, Entry), Cache(n)} : f \in Files /\ f[2] \in IdsOf(n)
    BY FilesOfHost, NamesAssumption DEF IdsOf, Service, Vhost, Env, Page, Cache
  <1>2. \A m, id : \A f \in {Service(id), Vhost(n), Env(n), Page(n, Entry), Cache(n)} : f # Data(m)
    BY DEF Service, Vhost, Env, Page, Cache, Data
  <1>3. /\ \A id \in IdsOf(n) : file'[Service(id)] = file[Service(id)]
        /\ \A f \in {Vhost(n), Env(n), Page(n, Entry), Cache(n)} : file'[f] = file[f]
    BY <1>1, <1>2
  <1>4. Exists(Vhost(n))' => served'[n] = file'[Vhost(n)]
    BY <1>3 DEF Current, Exists, Vhosts
  <1>5. ASSUME NEW id \in IdsOf(n), proc'[id] # None
        PROVE  RunsAs(n, id)'
    <2>1. RunsAs(n, id) /\ proc'[id] = proc[id]
      BY <1>5 DEF Current
    <2>2. \A f \in {Service(id), Env(n), Page(n, Entry), Cache(n)} : file'[f] = file[f]
      BY <1>3
    <2> QED BY <2>1, <2>2, RunsOn
  <1> QED BY <1>4, <1>5 DEF Current

\* Where names are apart, what a command does to its unit is no other unit's.
LEMMA OthersAlone ==
    ASSUME Apart, NEW k \in Names, OnlyOwn(k), NEW n \in Names \ {k}
    PROVE  /\ \A f \in Files : file'[f] # file[f] => f[2] \notin IdsOf(n)
           /\ \A id \in IdsOf(n) : users'[id] = users[id] /\ proc'[id] = proc[id]
  <1>1. IdsOf(n) \cap IdsOf(k) = {} /\ IdsOf(n) \subseteq Ids
    BY NamesAssumption DEF Apart, IdsOf
  <1> QED BY <1>1 DEF OnlyOwn

\* Once the services are disabled, rm has none of the unit's running.
LEMMA DisabledBefore ==
    ASSUME Removing, NEW s \in job.todo, First(s), s.verb \in {"rm tree", "rm"}
    PROVE  \A id \in IdsOf(job.unit) : proc[id] = None
  <1>1. s.at \in {3, 4, 5, 6, 7, 8, 9}
    BY ScriptFields DEF Removing
  <1>2. \A r \in job.todo : s.at <= r.at
    BY DEF First
  <1>3. ASSUME NEW r \in job.todo, r.verb = "disable"
        PROVE  FALSE
    <2>1. r.at \in {1, 2}
      BY <1>3, ScriptFields DEF Removing
    <2> QED BY ONLY <1>1, <1>2, <2>1, r \in job.todo
  <1> QED BY <1>3 DEF Removing, RemovalPending

\* A unit that is being removed is as current as it was: what runs of it still runs
\* what is on disk.
LEMMA RemovalCurrent ==
    ASSUME Inv, Removing, NEW n \in Names, n = job.unit, Current(n), NEW s \in job.todo,
           RmStep(s) \/ DropStep(s)
    PROVE  Current(n)'
  <1>0. UNCHANGED served \/ (served' = Vhosts /\ UNCHANGED file)
    BY ServedSteps DEF ApplyNext, RmNext, RmStep
  <1>1. CASE UserdelStep(s) \/ DaemonReloadStep(s) \/ ReloadCaddyStep(s) \/ DropStep(s)
    <2>1. UNCHANGED <<file, proc>>
      BY <1>1 DEF UserdelStep, DaemonReloadStep, DaemonReload, ReloadCaddyStep, CaddyReload, DropStep,
             tree, host, daemons
    <2> QED BY <1>0, <2>1, StaysCurrent
  <1>2. CASE DisableStep(s)
    <2>1. PICK d : proc' = [proc EXCEPT ![d] = None] /\ UNCHANGED <<file, served>>
      BY <1>2 DEF DisableStep, Disable, tree
    <2>2. ASSUME NEW id \in IdsOf(n), proc'[id] # None
          PROVE  RunsAs(n, id)'
      <3>1. proc'[id] = proc[id]
        BY <2>1, <2>2, NamesAssumption DEF Inv, Typed, IdsOf
      <3> QED BY <2>1, <2>2, <3>1, RunsOn DEF Current
    <2> QED BY <2>1, <2>2 DEF Current, Exists
  <1>3. CASE RemoveTreeStep(s) \/ StaleStep(s)
    <2>1. First(s) /\ s.verb \in {"rm tree", "rm"} /\ UNCHANGED <<proc, served>>
      BY <1>3 DEF RemoveTreeStep, StaleStep, Doing, daemons
    <2>2. \A f \in Files : file'[f] \in {None, file[f]}
      BY <1>3 DEF RemoveTreeStep, RemoveTree, StaleStep, Remove, Inv, Typed
    <2>3. \A id \in IdsOf(n) : proc'[id] = None
      BY <2>1, DisabledBefore
    <2> QED BY <2>1, <2>2, <2>3, FilesOfHost DEF Current, Exists
  <1> QED BY <1>1, <1>2, <1>3 DEF RmStep

\* When only the report is left, the unit is current.
LEMMA CommitsCurrent ==
    ASSUME Inv, Planned, NEW n \in Names, n = job.unit, Effects(job.unit),
           \A r \in job.todo : 27 <= r.at
    PROVE  Current(n)
  <1>1. \A r \in job.todo : 27 <= r.at /\ r.at \in 1..29
    BY SlotNumbers DEF Planned, Ordered
  <1>2. \A k \in {23, 24, 25, 26} : \A r \in job.todo : k < r.at
    BY ONLY <1>1
  <1>3. Past(Reloading) /\ Past(Starting(n)) /\ Past(StartingGateway(n)) /\ Past(Serving)
    BY <1>2, FixedPlaces DEF Past, After
  <1> QED BY <1>3 DEF Effects, Current, IdsOf

\* An apply whose entry is complete has only to write its record and to report.
LEMMA CompleteFlushes ==
    ASSUME Inv, ClosingInv, Planned, Applying, Complete(job.unit), NEW s \in job.todo, ApplyStep(s)
    PROVE  s = Flushing /\ FlushStep(s)
  <1>a. PICK n : n = job.unit
    OBVIOUS
  <1>1. s.verb \notin {"plan", "load", "print", "prune"}
    BY TakenDone DEF Taken
  <1>2. s \in Closing(n)
    BY <1>a, <1>1 DEF ClosingInv, Applying
  <1>3. s = Flushing
    <2>1. s.verb # "print"
      BY <1>1
    <2>2. Printing(n).verb = "print"
      BY FixedVerbs
    <2> QED BY <1>2, <2>1, <2>2 DEF Closing, Flushing, Printing
  <1>4. s \in Fixed(n) /\ s.at = 28
    BY <1>3, FixedPlaces DEF Fixed
  <1> QED BY <1>3, <1>4, FixedSteps, FixedPlaces

\* A step of an apply whose entry is complete is the last but one; one that completes
\* it comes when the services have been restarted and Caddy reloaded.
LEMMA ApplyCurrent ==
    ASSUME Inv, ClosingInv, Planned, Applying, Effects(job.unit), NEW n \in Names, n = job.unit,
           Complete(n) => Current(n), NEW s \in job.todo, ApplyStep(s) \/ CommitStep(s),
           Complete(n)'
    PROVE  Current(n)'
  <1>1. CASE CommitStep(s)
    <2>1. s \in Ending(n) /\ s.verb = "commit" /\ \A r \in job.todo : s.at <= r.at
      <3>1. s.verb = "commit" /\ First(s)
        BY <1>1 DEF CommitStep, Doing
      <3>2. s.verb # "plan"
        BY <3>1
      <3>3. Placed(n, s)
        BY <3>2 DEF ClosingInv, Applying
      <3> QED BY <3>1, <3>3 DEF Placed, First
    <2>2. s.at = 27
      BY <2>1 DEF Ending, Action
    <2>3. Current(n)
      BY <2>1, <2>2, CommitsCurrent
    <2>4. UNCHANGED <<file, proc, served>>
      BY <1>1 DEF CommitStep, host, tree, daemons
    <2> QED BY <2>3, <2>4, StaysCurrent
  <1>2. CASE ApplyStep(s)
    <2>1. UNCHANGED registry
      BY <1>2 DEF ApplyStep, UserStep, MkdirStep, ChmodStep, WriteStep, StaleStep, SweepStep, UnmarkStep,
             SyncStep, MarkStep, GiveStep, JoinStep, LeaveStep, RestartCaddyStep,
             DaemonReloadStep, StartStep, ReloadCaddyStep, FlushStep
    <2>2. Complete(n)
      BY <2>1, Zenon DEF Complete, Registered
    <2>6. UNCHANGED <<file, proc, served>>
      BY <1>2, <2>2, CompleteFlushes DEF FlushStep, tree, daemons
    <2> QED BY <2>2, <2>6, StaysCurrent
  <1> QED BY <1>1, <1>2

\* A step of a command keeps what runs what is on disk, for every finished unit.
LEMMA CommandKeepsCurrent ==
    ASSUME Apart, Inv, OrderInv, ClosingInv, UnderwayInv, FilesTyped, SecretsTyped, DaemonsTyped,
           CurrentInv, job # None, NEW s \in job.todo, ApplyNext(s) \/ RmNext(s) \/ Rejected(s) \/ Fault(s)
    PROVE  CurrentInv'
  <1>a. PICK n : n = job.unit
    OBVIOUS
  <1> USE <1>a
  <1>0. n \in Names
    BY DEF Inv, Typed
  <1>1. UNCHANGED served \/ (served' = Vhosts /\ UNCHANGED file)
    BY ServedSteps
  <1>2. ASSUME NEW m \in Names \ {n}, Complete(m)'
        PROVE  Current(m)'
    <2>1. Complete(m)
      <3>1. registry'[m] = registry[m]
        BY RegistrySteps
      <3> QED BY <1>2, <3>1, Zenon DEF Complete, Registered
    <2>2. Current(m) /\ OnlyOwn(n)
      BY <2>1, CommandOwn DEF CurrentInv
    <2> QED BY <1>0, <1>1, <2>2, OthersAlone, StaysCurrent
  <1>3. ASSUME Complete(n)' => Current(n)', Planned' => job'.unit = n /\ Effects(n)'
        PROVE  CurrentInv'
    <2>1. \A m \in Names : Complete(m)' => Current(m)'
      BY <1>2, <1>3
    <2>2. PICK u : u = job'.unit
      OBVIOUS
    <2>3. Planned' => Effects(u)'
      BY <1>3, <2>2
    <2> QED BY <2>1, <2>2, <2>3 DEF CurrentInv
  <1>4. CASE Ends(s)
    <2>1. job' = None /\ UNCHANGED <<registry, file, proc>>
      BY <1>4, EndsJob
    <2>2. Complete(n)' => Complete(n)
      BY <2>1, Zenon DEF Complete, Registered
    <2>3. Complete(n) => Current(n)'
      BY <1>0, <1>1, <2>1, StaysCurrent DEF CurrentInv
    <2> QED BY <1>3, <2>1, <2>2, <2>3 DEF Planned
  <1>5. CASE PutIncomplete(s)
    <2>1. ~Complete(n)'
      BY <1>5, RegistrySteps
    <2>2. job'.unit = n
          /\ {Reloading, Starting(n), StartingGateway(n), Serving} \subseteq job'.todo
      BY <1>5, KindPhases, PutOrdered
    <2>3. \A a : a \in job'.todo /\ a.at \in Nat => ~Past(a)'
      <3> SUFFICES ASSUME NEW a, a \in job'.todo, a.at \in Nat, \A r \in job'.todo : a.at < r.at
                   PROVE  FALSE
        BY DEF Past, After
      <3> QED OBVIOUS
    <2>4. Effects(n)'
      BY <2>2, <2>3, FixedPlaces DEF Effects
    <2> QED BY <1>3, <2>1, <2>2, <2>4
  <1>6. CASE LoadUnit(s)
    <2>1. job'.op = "rm" /\ UNCHANGED <<registry, file, proc, served>>
      BY <1>6, KindPhases DEF LoadUnit, Inv, Typed, JobFields, host, tree, daemons
    <2>2. Complete(n)' => Complete(n)
      BY <2>1, Zenon DEF Complete, Registered
    <2>3. Complete(n) => Current(n)'
      BY <1>0, <2>1, StaysCurrent DEF CurrentInv
    <2> QED BY <1>3, <2>1, <2>2, <2>3 DEF Planned
  <1>7. CASE Taken(s)
    <2>1. job'.unit = n /\ job'.op = job.op /\ job'.todo = job.todo \ {s}
      BY <1>7, TakenDone, DoneJob DEF Inv, Typed, JobTyped
    <2>2. CASE Applying /\ Ordered /\ (ApplyStep(s) \/ CommitStep(s))
      <3>1. Planned /\ Effects(job.unit) /\ (Complete(n) => Current(n))
        BY <1>0, <2>2 DEF Planned, Applying, CurrentInv
      <3>2. Effects(n)'
        BY <1>0, <2>1, <2>2, <3>1, EffectsOfSteps
      <3>3. Complete(n)' => Current(n)'
        BY <1>0, <2>2, <3>1, ApplyCurrent
      <3> QED BY <1>3, <2>1, <3>2, <3>3
    <2>3. CASE Removing /\ (RmStep(s) \/ DropStep(s))
      <3>1. Complete(n)' => Complete(n)
        <4>1. CASE DropStep(s)
          BY <4>1, RegistrySteps
        <4>2. CASE RmStep(s)
          <5>1. UNCHANGED registry
            BY <4>2 DEF RmStep, DisableStep, RemoveTreeStep, StaleStep, UserdelStep, DaemonReloadStep,
                   ReloadCaddyStep
          <5> QED BY <5>1, Zenon DEF Complete, Registered
        <4> QED BY <2>3, <4>1, <4>2
      <3>2. Complete(n) => Current(n)'
        BY <1>0, <2>3, RemovalCurrent DEF CurrentInv
      <3> QED BY <1>3, <2>1, <2>3, <3>1, <3>2 DEF Planned, Removing
    <2> QED BY <1>7, <2>2, <2>3, KindPhases
  <1> QED BY <1>4, <1>5, <1>6, <1>7, StepKinds

\* So does every step of the specification, and every stutter.
LEMMA NextKeepsCurrent ==
    ASSUME Apart, Inv, OrderInv, ClosingInv, UnderwayInv, FilesTyped, SecretsTyped, DaemonsTyped,
           CurrentInv, [Next]_vars
    PROVE  CurrentInv'
  <1>1. CASE \E s \in Todo : ApplyNext(s) \/ RmNext(s) \/ Rejected(s) \/ Fault(s)
    BY <1>1, CommandKeepsCurrent DEF Todo
  <1>2. CASE \/ \E n \in Names : BeginRm(n) \/ \E t \in Targets : BeginApply(n, t)
             \/ \E m \in Writers : AppWrites(m)
             \/ \E id \in AdminIds : AdminAddsUser(id)
             \/ \E k \in AdminNames : AdminChmods(k)
             \/ UNCHANGED vars
    <2>1. /\ UNCHANGED <<registry, proc, served>>
          /\ \A f \in Files : file'[f] # file[f] => \E m : f = Data(m)
      <3>1. CASE \E n \in Names : BeginRm(n) \/ \E t \in Targets : BeginApply(n, t)
        BY <3>1, Begun DEF daemons
      <3>2. CASE \E m \in Writers : AppWrites(m)
        BY <3>2 DEF AppWrites, daemons, Inv, Typed
      <3>3. CASE (\E id \in AdminIds : AdminAddsUser(id)) \/ (\E k \in AdminNames : AdminChmods(k)) \/ UNCHANGED vars
        BY <3>3 DEF AdminAddsUser, AdminChmods, vars, host, tree, daemons
      <3> QED BY <1>2, <3>1, <3>2, <3>3
    <2>2. \A n \in Names : Complete(n)' => Current(n)'
      <3> SUFFICES ASSUME NEW n \in Names, Complete(n)' PROVE Current(n)'
        OBVIOUS
      <3>1. Complete(n)
        BY <2>1, Zenon DEF Complete, Registered
      <3>2. Current(n)
        BY <3>1 DEF CurrentInv
      <3> QED BY <2>1, <3>2, StaysCurrent
    <2>3. Planned' => Effects(job.unit)'
      <3>1. CASE \E n \in Names : BeginRm(n) \/ \E t \in Targets : BeginApply(n, t)
        BY <3>1, Begun
      <3>2. CASE (\E id \in AdminIds : AdminAddsUser(id)) \/ (\E k \in AdminNames : AdminChmods(k))
        BY <3>2 DEF AdminAddsUser, AdminChmods, Planned
      <3>3. CASE (\E m \in Writers : AppWrites(m)) \/ UNCHANGED vars
        <4>1. UNCHANGED <<proc, served, loaded, job>>
          BY <3>3 DEF AppWrites, vars, host, tree, daemons
        <4>2. PICK n : n = job.unit
          OBVIOUS
        <4>3. /\ Planned' => Planned
              /\ \A a : Past(a)' => Past(a)
          BY <4>1 DEF Planned, Ordered, Due, Past, After
        <4>4. ASSUME Planned, n \in Names PROVE Effects(n)'
          <5>1. Effects(n)
            BY <4>2, <4>4 DEF CurrentInv
          <5>2. /\ \A id \in IdsOf(n) : file'[Service(id)] = file[Service(id)]
                /\ \A f \in {Vhost(n), Env(n), Page(n, Entry), Cache(n)} : file'[f] = file[f]
            <6>1. \A id \in IdsOf(n) : id \in Ids
              BY <4>4, NamesAssumption DEF IdsOf
            <6>2. \A m, id : \A f \in {Service(id), Vhost(n), Env(n), Page(n, Entry), Cache(n)} :
                      f # Data(m)
              BY DEF Service, Vhost, Env, Page, Cache, Data
            <6>3. Page(n, Entry) \in Files
              BY <4>4, FilesOfHost, NamesAssumption
            <6> QED BY <2>1, <4>4, <6>1, <6>2, <6>3, FilesOfHost
          <5>3. \A id \in IdsOf(n) : RunsAs(n, id) => RunsAs(n, id)'
            <6> SUFFICES ASSUME NEW id \in IdsOf(n), RunsAs(n, id) PROVE RunsAs(n, id)'
              OBVIOUS
            <6>1. \A f \in {Service(id), Env(n), Page(n, Entry), Cache(n)} : file'[f] = file[f]
              BY <5>2
            <6> QED BY <4>1, <6>1, RunsOn
          <5>4. n \in IdsOf(n) /\ Gw[n] \in IdsOf(n)
            BY DEF IdsOf
          <5> QED BY <4>1, <4>3, <5>1, <5>2, <5>3, <5>4 DEF Effects
        <4>5. Planned => n \in Names
          BY <4>2 DEF Planned, Inv, Typed
        <4> QED BY <4>1, <4>2, <4>3, <4>4, <4>5
      <3> QED BY <1>2, <3>1, <3>2, <3>3
    <2> QED BY <2>2, <2>3 DEF CurrentInv
  <1> QED BY <1>1, <1>2 DEF Next

\* What has been proved of the units' state, as a report needs it.
LEMMA CurrentReports ==
    ASSUME ToldInv, CurrentInv, FilesDeployed
    PROVE  NothingOutdated
  <1> SUFFICES ASSUME NEW n \in Names, Applied(n)
               PROVE  /\ served[n] = file[Vhost(n)]
                      /\ \A id \in IdsOf(n) : proc[id] # None => proc[id] = Started(file[Service(id)])
    BY DEF NothingOutdated
  <1>1. Current(n)
    BY DEF ToldInv, CurrentInv
  <1>2. PICK t \in Targets : t = told[n]
    BY DEF Applied
  <1>3. file[Vhost(n)] = Rendered(n, t, file[Env(n)], Vhost(n))
    <2>1. Vhost(n) \in RenderedFiles(n, t)
      BY DEF RenderedFiles
    <2> QED BY <1>2, <2>1 DEF FilesDeployed
  <1>4. file[Vhost(n)] = Site(t)
    BY <1>3, RenderedEach
  <1>5. Exists(Vhost(n))
    BY <1>2, <1>4, NothingAssumption DEF Exists
  <1> QED BY <1>1, <1>5 DEF Current, RunsAs

\* All of this together, as the theorems start from it.
CommonInv ==
    /\ Inv /\ OrderInv /\ ClosingInv /\ UnderwayInv /\ ToldInv
    /\ FilesTyped /\ SecretsTyped /\ DaemonsTyped /\ JobsTyped /\ CurrentInv

LEMMA InitCommon == Init => CommonInv
  <1> SUFFICES ASSUME Init PROVE CommonInv
    OBVIOUS
  <1>1. job = None /\ \A n \in Names : told[n] = None
    BY DEF Init
  <1>2. OrderInv /\ ClosingInv /\ UnderwayInv /\ SecretsTyped
    BY <1>1, BoundsAssumption DEF OrderInv, ClosingInv, UnderwayInv, SecretsTyped, Init
  <1>3. ToldInv
    BY <1>1, ReportsAssumption DEF ToldInv, Init, Applied, Planned
  <1>4. FilesTyped /\ DaemonsTyped /\ JobsTyped
    BY <1>1 DEF FilesTyped, DaemonsTyped, JobsTyped, Init, SystemInit
  <1>5. CurrentInv
    BY <1>1 DEF CurrentInv, Complete, Registered, Init, Planned
  <1> QED BY <1>2, <1>3, <1>4, <1>5, InitInv DEF CommonInv

LEMMA NextKeepsCommon ==
    ASSUME Apart, CommonInv, [Next]_vars
    PROVE  CommonInv'
  <1> USE DEF CommonInv
  <1>1. Inv' /\ OrderInv' /\ ClosingInv' /\ UnderwayInv' /\ ToldInv'
    BY NextInv, NextKeepsOrder, NextKeepsClosing, NextKeepsUnderway, NextKeepsTold
  <1>2. FilesTyped' /\ SecretsTyped' /\ DaemonsTyped' /\ JobsTyped' /\ CurrentInv'
    BY NextKeepsFiles, NextKeepsDaemons, NextKeepsJobs, NextKeepsCurrent
  <1> QED BY <1>1, <1>2

\* Where no gateway has the name of another unit: after a reported apply no service
\* runs, and Caddy serves no vhost, that is not the one on disk, whatever failed and
\* whatever was applied or removed meanwhile (Promises.NothingOutdated).
THEOREM NoneOutdated == Apart => (Spec => []NothingOutdated)
  <1> SUFFICES ASSUME Apart PROVE Spec => []NothingOutdated
    OBVIOUS
  <1>1. CommonInv /\ [Next]_vars => CommonInv'
    BY NextKeepsCommon
  <1>2. CommonInv /\ FilesDeployed => NothingOutdated
    BY CurrentReports DEF CommonInv
  <1>3. Spec => []FilesDeployed
    BY Deployed
  <1> QED BY <1>1, <1>2, <1>3, InitCommon, PTL DEF Spec

-----------------------------------------------------------------------------
(* Both services are up.                                                   *)

Up(n) == \A id \in IdsOf(n) : proc[id] # None

\* A removal that stopped has taken away what an apply looks for.
Gutted(n) == App(n) \notin dirs \/ \E id \in IdsOf(n) : ~Exists(Service(id))
BeingRemoved(n) == job # None /\ job.op = "rm" /\ job.unit = n /\ Pruning \in job.todo

UpInv ==
    /\ \A n \in Names : Complete(n) => Up(n) \/ Gutted(n) \/ BeingRemoved(n)
    /\ \A n \in Names : Applied(n) => Up(n)

\* rm fails neither while it disables the services nor while it removes directories.
RemovesUnits == FaultVerbs \cap {"disable", "rm tree"} = {}

\* A command reports on its own unit, and calls it deployed in two places only.
LEMMA ToldSteps ==
    ASSUME Inv, ToldInv, job # None, NEW s \in job.todo, ApplyNext(s) \/ RmNext(s) \/ Rejected(s) \/ Fault(s),
           NEW n, n = job.unit
    PROVE  /\ \A m \in Names \ {n} : told'[m] = told[m]
           /\ Applied(n)' => (PrintStep(s) \/ NoChanges(s)) /\ told'[n] = job.target
  <1>1. n \in Names /\ told[n] = None /\ None \notin Targets /\ Gone \notin Targets
    BY ReportsAssumption DEF Inv, Typed, ToldInv
  <1>2. CASE Refuse(s) \/ Rejected(s) \/ Fault(s) \/ PutIncomplete(s) \/ LoadUnit(s) \/ Taken(s)
    <2>1. UNCHANGED told
      BY <1>2, TakenDone DEF Refuse, Rejected, Fault, PutIncomplete, LoadUnit, Done
    <2> QED BY <1>1, <2>1 DEF Applied
  <1>3. CASE NotFound(s) \/ PruneStep(s)
    <2>1. told' = [told EXCEPT ![n] = Gone]
      BY <1>3 DEF NotFound, PruneStep
    <2> QED BY <1>1, <2>1 DEF Applied, ToldInv
  <1>4. CASE PrintStep(s) \/ NoChanges(s)
    <2>1. told' = [told EXCEPT ![n] = job.target]
      BY <1>4 DEF PrintStep, NoChanges
    <2> QED BY <1>1, <1>4, <2>1 DEF Applied, ToldInv
  <1> QED BY <1>2, <1>3, <1>4, StepKinds DEF Ends

\* Only its commit completes an entry.
LEMMA CompleteSteps ==
    ASSUME Inv, job # None, NEW s, ApplyNext(s) \/ RmNext(s) \/ Rejected(s) \/ Fault(s), NEW n, n = job.unit
    PROVE  /\ \A m \in Names \ {n} : Complete(m)' <=> Complete(m)
           /\ Complete(n)' => Complete(n) \/ CommitStep(s)
           /\ PutIncomplete(s) \/ DropStep(s) => ~Complete(n)'
  <1>1. \A m \in Names : registry'[m] = registry[m] => (Complete(m)' <=> Complete(m))
    BY Zenon DEF Complete, Registered
  <1> QED BY <1>1, RegistrySteps DEF Inv, Typed

\* A command that commits has nothing but its report left to do.
LEMMA CommitIsLate ==
    ASSUME Inv, ClosingInv, Planned, Applying, NEW s \in job.todo, CommitStep(s)
    PROVE  \A r \in job.todo : 27 <= r.at
  <1>1. s.verb = "commit" /\ First(s)
    BY DEF CommitStep, Doing
  <1>2. Placed(job.unit, s)
    BY <1>1 DEF ClosingInv, Applying
  <1>3. s \in Ending(job.unit)
    BY <1>1, <1>2 DEF Placed
  <1>4. s.at = 27
    BY <1>1, <1>3 DEF Ending, Action
  <1> QED BY <1>1, <1>4 DEF First

\* A write that is cut off is one of an apply, to a file of its unit.
LEMMA CutOffOwn ==
    ASSUME Inv, job # None, NEW s \in job.todo, Fault(s), ~UNCHANGED <<dirs, temps>>
    PROVE  /\ Applying /\ s.verb \in {"write", "mark"} /\ s.on \in OwnFiles(job.unit)
           /\ CutOff(s.on)
  <1>1. s.verb \in {"write", "mark"} /\ CutOff(s.on)
    BY DEF Fault
  <1>2. Applying
    BY <1>1, Phases DEF RmVerbs
  <1> QED BY <1>1, <1>2, StepTyped

\* Its entry says that it is unfinished.
LEMMA CutOffUnfinished ==
    ASSUME Inv, ClosingInv, job # None, NEW s \in job.todo, Fault(s), ~UNCHANGED <<dirs, temps>>
    PROVE  ~Complete(job.unit)
  <1>1. Applying /\ s.verb \in {"write", "mark"}
    BY CutOffOwn
  <1>2. s \notin Closing(job.unit)
    BY <1>1 DEF Closing, Action
  <1> QED BY <1>1, <1>2 DEF ClosingInv, Applying

\* A command makes no payload directory but its unit's.
LEMMA AppsMade ==
    ASSUME Inv, job # None, NEW s \in job.todo, ApplyNext(s) \/ RmNext(s) \/ Rejected(s) \/ Fault(s),
           NEW n, n = job.unit
    PROVE  /\ \A m \in Names \ {n} : App(m) \in dirs' => App(m) \in dirs
           /\ \A id \in Ids \ IdsOf(n) : State(id) \in dirs' => State(id) \in dirs
  <1>0. n \in Names
    BY DEF Inv, Typed
  <1>1. CASE MkdirStep(s) \/ WriteStep(s) \/ SyncStep(s) \/ MarkStep(s)
    <2>1. s.verb \in {"mkdir", "write", "sync", "mark"}
      BY <1>1 DEF MkdirStep, WriteStep, SyncStep, MarkStep, Doing
    <2>2. MkdirP(s.on) \/ MkdirP(DirOf(s.on))
      BY <1>1 DEF MkdirStep, Mkdir, WriteStep, SyncStep, MarkStep, Write
    <2>3. \/ s.on \in OwnDirs(n) /\ MkdirP(s.on)
          \/ s.on \in OwnFiles(n) /\ MkdirP(DirOf(s.on))
      <3>1. CASE MkdirStep(s)
        <4>1. s.verb = "mkdir" /\ MkdirP(s.on)
          BY <3>1 DEF MkdirStep, Mkdir, Doing
        <4> QED BY <4>1, StepTyped
      <3>2. CASE WriteStep(s) \/ SyncStep(s) \/ MarkStep(s)
        <4>1. s.verb \in {"write", "sync", "mark"} /\ MkdirP(DirOf(s.on))
          BY <3>2 DEF WriteStep, SyncStep, MarkStep, Write, Doing
        <4> QED BY <4>1, StepTyped
      <3> QED BY <1>1, <3>1, <3>2
    <2>4. \E d \in OwnDirs(n) \cup Shared : MkdirP(d)
      BY <1>0, <2>3, FileDirs
    <2> QED BY <1>0, <2>4, MkdirGrows
  <1>2. CASE StartStep(s)
    <2>1. s.verb = "start"
      BY <1>2 DEF StartStep, Doing
    <2>2. PICK id \in IdsOf(n) : id = s.on[2]
      BY <2>1, StepTyped
    <2>3. dirs' = dirs \cup {State(id)}
      BY <1>2, <2>2 DEF StartStep, Start
    <2>4. /\ \A m : App(m) # State(id)
          /\ \A i \in Ids \ IdsOf(n) : State(i) # State(id)
      BY <2>2 DEF App, State
    <2> QED BY <2>3, <2>4
  <1>3. CASE RemoveTreeStep(s)
    BY <1>3 DEF RemoveTreeStep, RemoveTree
  <1>4. CASE NotFound(s) \/ PruneStep(s)
    BY <1>4 DEF NotFound, PruneStep, PruneCreated
  <1>5. CASE \/ Refuse(s) \/ NoChanges(s) \/ PrintStep(s) \/ Rejected(s)
             \/ PutIncomplete(s) \/ LoadUnit(s) \/ CommitStep(s) \/ DropStep(s)
    <2>1. UNCHANGED dirs
      BY <1>5 DEF Refuse, NoChanges, PrintStep, Rejected, PutIncomplete, LoadUnit,
             CommitStep, DropStep, host, tree
    <2> QED BY <2>1
  <1>7. CASE Fault(s)
    <2>1. CASE UNCHANGED <<dirs, temps>>
      BY <2>1
    <2>2. CASE ~UNCHANGED <<dirs, temps>>
      <3>1. s.on \in OwnFiles(n) /\ CutOff(s.on)
        BY <1>7, <2>2, CutOffOwn
      <3> QED BY <1>0, <3>1, FileDirs, DirsGrowOwn DEF CutOff
    <2> QED BY <2>1, <2>2
  <1>6. CASE \/ UserStep(s) \/ ChmodStep(s) \/ StaleStep(s) \/ SweepStep(s) \/ UnmarkStep(s)
             \/ GiveStep(s)
             \/ JoinStep(s) \/ LeaveStep(s) \/ RestartCaddyStep(s) \/ DaemonReloadStep(s)
             \/ ReloadCaddyStep(s) \/ FlushStep(s) \/ DisableStep(s) \/ UserdelStep(s)
    <2>1. UNCHANGED dirs
      BY <1>6 DEF UserStep, ChmodStep, Chmod, StaleStep, SweepStep, UnmarkStep, Remove, RemoveTemp,
             GiveStep, GiveTree,
             JoinStep, LeaveStep, RestartCaddyStep, DaemonReloadStep, ReloadCaddyStep, FlushStep,
             DisableStep, UserdelStep, tree
    <2> QED BY <2>1
  <1> QED BY <1>1, <1>2, <1>3, <1>4, <1>5, <1>6, <1>7, StepKinds
          DEF Ends, Taken, ApplyStep, RmStep

\* A service that was started runs.
LEMMA RunsUp ==
    ASSUME FilesTyped, NEW n, NEW id \in Ids, RunsAs(n, id)
    PROVE  proc[id] # None
  <1>1. PICK def : def = file[Service(id)]
    OBVIOUS
  <1>2. def \in ServiceDefs
    BY <1>1, FilesOfHost, ContentsOf DEF FilesTyped, RunsAs, Exists
  <1>3. Started(def) \in Processes /\ proc[id] = Started(def)
    BY <1>1, <1>2, StartedTyped DEF RunsAs
  <1> QED BY <1>3, NothingAssumption DEF Processes

\* A plan with nothing to do finds the payload directory and the services' files.
LEMMA NoChangesWhole ==
    ASSUME Inv, FilesTyped, job # None, NEW s \in job.todo, NoChanges(s)
    PROVE  ~Gutted(job.unit)
  <1>a. PICK n : n = job.unit
    OBVIOUS
  <1>b. PICK t : t = job.target
    OBVIOUS
  <1>1. n \in Names
    BY <1>a DEF Inv, Typed
  <1>2. PICK secret : Build(n, t, secret) = {}
    BY <1>a, <1>b DEF NoChanges
  <1>3. Changes(n, t, secret) = {}
    BY <1>2 DEF Build
  <1>4. MkdirActions(3, App(n)) = {} /\ WriteActions(n, t, secret) = {}
    BY <1>3 DEF Changes, DirectoryActions
  <1>5. App(n) \in dirs
    BY <1>4 DEF MkdirActions, When
  <1>6. \A f \in RenderedFiles(n, t) : file[f] = Rendered(n, t, secret, f)
    BY <1>4 DEF WriteActions, ToWrite
  <1>7. /\ Service(n) \in RenderedFiles(n, t) /\ Service(Gw[n]) \in RenderedFiles(n, t)
        /\ Gw[n] # n
    BY <1>1, NamesAssumption DEF RenderedFiles
  <1>8. file[Service(n)] = AppService(n, t) /\ file[Service(Gw[n])] = GatewayService(n)
    BY <1>6, <1>7, RenderedEach
  <1>9. AppService(n, t) \in ServiceDefs /\ GatewayService(n) \in ServiceDefs
    <2>1. t \in Targets
      BY <1>b, NoChangesDeployed
    <2> QED BY <1>1, <2>1 DEF ServiceDefs
  <1> QED BY <1>a, <1>5, <1>8, <1>9, NothingAssumption DEF Gutted, Exists, IdsOf

\* The steps of a removal after those that rm must not fail in.
LEMMA RemovedApp ==
    ASSUME Removing, NEW s \in job.todo, First(s), s.verb \notin {"disable", "rm tree"}
    PROVE  App(job.unit) \notin dirs
  <1>1. s.at \in {6, 7, 8, 9, 10, 11, 12, 13, 14, 15}
    BY ScriptFields DEF Removing
  <1>2. \A r \in job.todo : s.at <= r.at
    BY DEF First
  <1>3. ASSUME NEW r \in job.todo, r.verb = "rm tree"
        PROVE  FALSE
    <2>1. r.at \in {3, 4, 5}
      BY <1>3, ScriptFields DEF Removing
    <2> QED BY ONLY <1>1, <1>2, <2>1, r \in job.todo
  <1> QED BY <1>3 DEF Removing, RemovalPending

\* While the files and directories of a unit are left alone, so is what has been gutted.
LEMMA StaysUp ==
    ASSUME NEW n \in Names, Up(n) \/ Gutted(n), App(n) \in dirs' => App(n) \in dirs,
           \A f \in Files : file'[f] # file[f] => f[2] \notin IdsOf(n) \/ \E m : f = Data(m),
           \A id \in IdsOf(n) : proc'[id] = proc[id]
    PROVE  /\ Up(n)' \/ Gutted(n)'
           /\ Up(n) => Up(n)'
  <1>1. ASSUME NEW id \in IdsOf(n)
        PROVE  file'[Service(id)] = file[Service(id)]
    <2>1. Service(id) \in Files /\ Service(id)[2] \in IdsOf(n) /\ \A m : Service(id) # Data(m)
      BY FilesOfHost, NamesAssumption DEF IdsOf, Service, Data
    <2> QED BY <2>1
  <1> QED BY <1>1 DEF Up, Gutted, Exists

\* A step of an apply whose entry is complete leaves the services alone; one that
\* completes it comes when they have been started.
LEMMA ApplyUp ==
    ASSUME Inv, ClosingInv, FilesTyped, Planned, Applying, Effects(job.unit),
           NEW n \in Names, n = job.unit, Complete(n) => Up(n) \/ Gutted(n),
           NEW s \in job.todo, ApplyStep(s) \/ CommitStep(s), Complete(n)'
    PROVE  Up(n)' \/ Gutted(n)'
  <1>0. n \in Ids /\ Gw[n] \in Ids
    BY NamesAssumption
  <1>1. CASE CommitStep(s)
    <2>1. \A r \in job.todo : 27 <= r.at /\ r.at \in 1..29
      BY <1>1, CommitIsLate, SlotNumbers DEF Planned, Ordered
    <2>2. \A k \in {24, 25} : \A r \in job.todo : k < r.at
      BY ONLY <2>1
    <2>3. RunsAs(n, n) /\ RunsAs(n, Gw[n])
      BY <2>2, FixedPlaces DEF Past, After, Effects
    <2>4. Up(n) /\ UNCHANGED proc
      BY <1>0, <1>1, <2>3, RunsUp DEF Up, IdsOf, CommitStep, host, daemons
    <2> QED BY <2>4 DEF Up
  <1>2. CASE ApplyStep(s)
    <2>1. UNCHANGED registry
      BY <1>2 DEF ApplyStep, UserStep, MkdirStep, ChmodStep, WriteStep, StaleStep, SweepStep, UnmarkStep,
             SyncStep, MarkStep, GiveStep, JoinStep, LeaveStep, RestartCaddyStep,
             DaemonReloadStep, StartStep, ReloadCaddyStep, FlushStep
    <2>2. Complete(n)
      BY <2>1, Zenon DEF Complete, Registered
    <2>3. FlushStep(s)
      BY <1>2, <2>2, CompleteFlushes
    <2>4. UNCHANGED <<dirs, file, proc>>
      BY <2>3 DEF FlushStep, tree, daemons
    <2> QED BY <2>2, <2>4, StaysUp
  <1> QED BY <1>1, <1>2

\* A step of a command keeps the services of every finished unit up, or leaves the
\* unit where an apply finds something to do.
LEMMA CommandKeepsUp ==
    ASSUME Apart, RemovesUnits, Inv, OrderInv, ClosingInv, FilesTyped, JobsTyped,
           ToldInv, CurrentInv, UpInv, job # None, NEW s \in job.todo, ApplyNext(s) \/ RmNext(s) \/ Rejected(s) \/ Fault(s)
    PROVE  UpInv'
  <1>a. PICK n : n = job.unit
    OBVIOUS
  <1> USE <1>a
  <1>0. n \in Names /\ n \in Ids /\ Gw[n] \in Ids
    BY NamesAssumption DEF Inv, Typed
  <1>1. ASSUME NEW m \in Names \ {n}
        PROVE  /\ Complete(m)' => Up(m)' \/ Gutted(m)'
               /\ Applied(m)' => Up(m)'
    <2>1. /\ Complete(m)' => Complete(m)
          /\ Applied(m)' => Applied(m)
      BY CompleteSteps, ToldSteps DEF Applied
    <2>2. Complete(m) => Up(m) \/ Gutted(m)
      BY DEF UpInv, BeingRemoved
    <2>3. App(m) \in dirs' => App(m) \in dirs
      BY AppsMade
    <2>4. /\ \A f \in Files : file'[f] # file[f] => f[2] \notin IdsOf(m)
          /\ \A id \in IdsOf(m) : proc'[id] = proc[id]
      BY <1>0, CommandOwn, OthersAlone
    <2>5. Applied(m) => Up(m)
      BY DEF UpInv
    <2> QED BY <2>1, <2>2, <2>3, <2>4, <2>5, StaysUp
  <1>2. ASSUME Complete(n)' => Up(n)' \/ Gutted(n)' \/ BeingRemoved(n)',
               Applied(n)' => Up(n)'
        PROVE  UpInv'
    BY <1>1, <1>2 DEF UpInv
  <1>3. Complete(n) => Up(n) \/ Gutted(n) \/ BeingRemoved(n)
    BY <1>0 DEF UpInv
  <1>6. CASE Fault(s) /\ ~UNCHANGED <<dirs, temps>>
    <2>0. UNCHANGED registry /\ ~Complete(n)
      <3>1. UNCHANGED registry
        BY <1>6 DEF Fault
      <3>2. Fault(s) /\ ~UNCHANGED <<dirs, temps>>
        BY <1>6
      <3>3. ~Complete(job.unit)
        BY <3>2, CutOffUnfinished
      <3> QED BY <1>0, <3>1, <3>3
    <2>1. ~Complete(n)'
      BY <2>0, Zenon DEF Complete, Registered
    <2>2. ~Applied(n)'
      <3>1. UNCHANGED told
        BY <1>6 DEF Fault
      <3>2. told[n] = None
        BY DEF ToldInv
      <3> QED BY <3>1, <3>2, ReportsAssumption DEF Applied
    <2> QED BY <1>2, <2>1, <2>2
  <1>4. CASE Ends(s) /\ (Fault(s) => UNCHANGED <<dirs, temps>>)
    <2>0. UNCHANGED <<registry, file, proc>> /\ (App(n) \in dirs' => App(n) \in dirs)
      <3>1. UNCHANGED <<registry, file, proc>>
        BY <1>4, EndsJob
      <3>2. CASE NotFound(s) \/ PruneStep(s)
        BY <3>1, <3>2 DEF NotFound, PruneStep, PruneCreated
      <3>3. CASE Refuse(s) \/ NoChanges(s) \/ PrintStep(s) \/ Rejected(s) \/ Fault(s)
        BY <1>4, <3>1, <3>3 DEF Refuse, NoChanges, PrintStep, Rejected, tree
      <3> QED BY <1>4, <3>1, <3>2, <3>3 DEF Ends
    <2>1. /\ Up(n) \/ Gutted(n) => Up(n)' \/ Gutted(n)'
          /\ Up(n) => Up(n)'
      BY <1>0, <2>0, StaysUp
    <2>2. Complete(n)' => Complete(n)
      BY <2>0, Zenon DEF Complete, Registered
    <2>3. BeingRemoved(n) => Gutted(n)
      <3> SUFFICES ASSUME BeingRemoved(n) PROVE Gutted(n)
        OBVIOUS
      <3>1. Removing
        BY PruningRemoves DEF BeingRemoved
      <3>2. CASE Rejected(s)
        <4>0. s.verb # "user"
          BY <3>1, ScriptFields DEF Removing
        <4>1. s.verb = "disable" /\ ~Exists(Service(s.on[2]))
          BY <3>2, <4>0 DEF Rejected, Doing, Disables
        <4>2. s.on[2] \in IdsOf(n)
          BY <4>1, StepTyped
        <4> QED BY <4>1, <4>2 DEF Gutted
      <3>3. CASE ~Rejected(s)
        <4>1. First(s) /\ s.verb \notin {"disable", "rm tree"}
          <5>1. job.op = "rm"
            BY <3>1 DEF Removing
          <5>2. CASE Fault(s)
            BY <5>2 DEF Fault, RemovesUnits
          <5>3. CASE NotFound(s) \/ PruneStep(s)
            BY <5>3 DEF NotFound, PruneStep, Doing
          <5>4. CASE Refuse(s) \/ NoChanges(s) \/ PrintStep(s)
            BY <5>4 DEF Refuse, NoChanges, PrintStep, Doing
          <5> QED BY <1>4, <3>3, <5>2, <5>3, <5>4 DEF Ends
        <4> QED BY <3>1, <4>1, RemovedApp DEF Gutted
      <3> QED BY <3>2, <3>3
    <2>4. Complete(n)' => Up(n)' \/ Gutted(n)'
      BY <1>3, <2>1, <2>2, <2>3
    <2>5. ASSUME Applied(n)' PROVE Up(n)
      <3>1. CASE PrintStep(s)
        <4>1. Planned /\ \A a \in Fixed(n) \ {Printing(n)} : Past(a)
          BY <3>1, PrintIsLast
        <4>2. Past(Starting(n)) /\ Past(StartingGateway(n))
          <5>1. Starting(n) # Printing(n) /\ StartingGateway(n) # Printing(n)
            BY FixedPlaces
          <5> QED BY <4>1, <5>1 DEF Fixed
        <4>3. RunsAs(n, n) /\ RunsAs(n, Gw[n])
          BY <4>1, <4>2 DEF CurrentInv, Effects
        <4> QED BY <1>0, <4>3, RunsUp DEF Up, IdsOf
      <3>2. CASE NoChanges(s)
        <4>1. Complete(n) /\ job.op = "apply"
          BY <3>2, KindPhases DEF NoChanges
        <4>2. ~Gutted(n) /\ ~BeingRemoved(n)
          BY <3>2, <4>1, NoChangesWhole DEF BeingRemoved
        <4> QED BY <1>3, <4>1, <4>2
      <3> QED BY <2>5, <3>1, <3>2, ToldSteps
    <2> QED BY <1>2, <2>1, <2>4, <2>5
  <1>5. CASE ~Ends(s)
    <2>1. ~Applied(n)'
      BY <1>5, ToldSteps DEF Ends
    <2>2. CASE PutIncomplete(s)
      BY <1>2, <2>1, <2>2, CompleteSteps
    <2>3. CASE LoadUnit(s)
      <3>1. BeingRemoved(n)'
        <4>1. job.op = "rm" /\ job' = [job EXCEPT !.todo = RemovalActions(n)] /\ job.unit = n
          BY <2>3, KindPhases DEF LoadUnit
        <4>2. job'.op = "rm" /\ job'.unit = n /\ job'.todo = RemovalActions(n)
          BY <4>1 DEF Inv, Typed, JobFields
        <4>3. Pruning \in RemovalActions(n)
          BY DEF RemovalActions, RemovalScript, UserdelActions, When, Pruning, Action
        <4>4. job' # None
          BY <2>3, CommandGoesOn
        <4> QED BY <4>2, <4>3, <4>4 DEF BeingRemoved
      <3> QED BY <1>2, <2>1, <3>1
    <2>4. CASE Taken(s)
      <3>1. job'.unit = n /\ job'.op = job.op /\ job'.todo = job.todo \ {s}
            /\ s.verb # "prune"
        BY <2>4, TakenDone, DoneJob DEF Inv, Typed, JobTyped
      <3>2. CASE Applying /\ Ordered /\ (ApplyStep(s) \/ CommitStep(s))
        <4>1. Planned /\ Effects(job.unit) /\ ~BeingRemoved(n)
          BY <3>2 DEF Planned, Applying, CurrentInv, BeingRemoved
        <4> QED BY <1>0, <1>2, <1>3, <2>1, <3>2, <4>1, ApplyUp
      <3>3. CASE Removing /\ Pruning \in job.todo
        <4>1. Pruning # s
          BY <3>1 DEF Pruning, Action
        <4>3. job' # None
          BY <2>4, CommandGoesOn
        <4>2. BeingRemoved(n)'
          BY <3>1, <3>3, <4>1, <4>3 DEF BeingRemoved, Removing
        <4> QED BY <1>2, <2>1, <4>2
      <3> QED BY <2>4, <3>2, <3>3, KindPhases
    <2> QED BY <1>5, <2>2, <2>3, <2>4, StepKinds
  <1> QED BY <1>4, <1>5, <1>6 DEF Ends

\* So does every step of the specification, and every stutter.
LEMMA NextKeepsUp ==
    ASSUME Apart, RemovesUnits, Inv, OrderInv, ClosingInv, FilesTyped, JobsTyped,
           ToldInv, CurrentInv, UpInv, [Next]_vars
    PROVE  UpInv'
  <1>1. CASE \E s \in Todo : ApplyNext(s) \/ RmNext(s) \/ Rejected(s) \/ Fault(s)
    BY <1>1, CommandKeepsUp DEF Todo
  <1>2. CASE \/ \E n \in Names : BeginRm(n) \/ \E t \in Targets : BeginApply(n, t)
             \/ \E id \in AdminIds : AdminAddsUser(id)
             \/ \E k \in AdminNames : AdminChmods(k)
    <2>1. /\ job = None /\ UNCHANGED <<registry, proc, file>>
          /\ \A n \in Names : App(n) \in dirs' => App(n) \in dirs
          /\ \A n \in Names : Applied(n)' => Applied(n)
      <3>1. CASE \E n \in Names : BeginRm(n) \/ \E t \in Targets : BeginApply(n, t)
        <4>1. PICK n \in Names : BeginRm(n) \/ \E t \in Targets : BeginApply(n, t)
          BY <3>1
        <4>2. /\ job = None /\ told' = [told EXCEPT ![n] = None] /\ MkdirP(Lib)
              /\ UNCHANGED <<file, registry, daemons>>
          BY <4>1, Begun
        <4>3. \A m \in Names : Applied(m)' => Applied(m)
          BY <4>2, ReportsAssumption DEF Applied, ToldInv
        <4> QED BY <4>2, <4>3, LibGrows DEF daemons
      <3>2. CASE (\E id \in AdminIds : AdminAddsUser(id)) \/ (\E k \in AdminNames : AdminChmods(k))
        BY <3>2 DEF AdminAddsUser, AdminChmods, tree, daemons, Applied
      <3> QED BY <1>2, <3>1, <3>2
    <2>2. ASSUME NEW n \in Names
          PROVE  /\ Complete(n)' => Up(n)' \/ Gutted(n)'
                 /\ Applied(n)' => Up(n)'
      <3>1. Complete(n)' => Complete(n)
        BY <2>1, Zenon DEF Complete, Registered
      <3>2. Complete(n) => Up(n) \/ Gutted(n)
        BY <2>1 DEF UpInv, BeingRemoved
      <3>3. Applied(n)' => Up(n)
        BY <2>1 DEF UpInv
      <3> QED BY <2>1, <3>1, <3>2, <3>3, StaysUp
    <2> QED BY <2>2 DEF UpInv
  <1>3. CASE (\E m \in Writers : AppWrites(m)) \/ UNCHANGED vars
    <2>1. /\ UNCHANGED <<registry, proc, dirs, job, told>>
          /\ \A f \in Files : file'[f] # file[f] => \E m : f = Data(m)
      BY <1>3 DEF AppWrites, daemons, Inv, Typed, vars, host, tree
    <2>2. ASSUME NEW n \in Names
          PROVE  /\ Complete(n)' => Up(n)' \/ Gutted(n)' \/ BeingRemoved(n)'
                 /\ Applied(n)' => Up(n)'
      <3>1. Complete(n)' => Complete(n)
        BY <2>1, Zenon DEF Complete, Registered
      <3>2. /\ Complete(n) => Up(n) \/ Gutted(n) \/ BeingRemoved(n)
            /\ Applied(n)' => Up(n)
            /\ BeingRemoved(n) => BeingRemoved(n)'
        BY <2>1 DEF UpInv, BeingRemoved, Applied
      <3> QED BY <2>1, <3>1, <3>2, StaysUp
    <2> QED BY <2>2 DEF UpInv
  <1> QED BY <1>1, <1>2, <1>3 DEF Next

\* Where no gateway has the name of another unit, and rm fails neither while it
\* disables the services nor while it removes the directories, both services of a unit
\* that was reported as deployed are up (Promises.ServicesRunning): what an apply that
\* finds nothing to do takes to be running does run.
THEOREM BothRunning == Apart /\ RemovesUnits => (Spec => []ServicesRunning)
  <1> SUFFICES ASSUME Apart, RemovesUnits PROVE Spec => []ServicesRunning
    OBVIOUS
  <1>1. Init => CommonInv /\ UpInv
    <2> SUFFICES ASSUME Init PROVE CommonInv /\ UpInv
      OBVIOUS
    <2>1. CommonInv
      BY InitCommon
    <2>2. job = None /\ \A n \in Names : told[n] = None /\ ~Complete(n)
      BY DEF Init, Complete, Registered
    <2> QED BY <2>1, <2>2, ReportsAssumption DEF UpInv, Applied
  <1>2. CommonInv /\ UpInv /\ [Next]_vars => UpInv'
    BY NextKeepsUp DEF CommonInv
  <1>3. CommonInv /\ [Next]_vars => CommonInv'
    BY NextKeepsCommon
  <1>5. UpInv => ServicesRunning
    BY DEF UpInv, Up, ServicesRunning
  <1> QED BY <1>1, <1>2, <1>3, <1>5, PTL DEF Spec

-----------------------------------------------------------------------------
(* The operator holds the token.                                           *)

\* The secrets of a finished unit were printed, or are about to be.
TokenInv ==
    /\ \A n \in Names : Complete(n) /\ Exists(Env(n)) =>
           file[Env(n)] \in shown \/ (Planned /\ job.unit = n)
    /\ Planned => job.fresh \/ job.secret \in shown
    /\ TokenKnown

\* No apply fails between its commit and its report.
ReportsFinish == FaultVerbs \cap {"flush", "print"} = {}

\* An apply that has read the registry reads it no more.
LEMMA PlannedVerbs ==
    ASSUME Planned, NEW s \in job.todo
    PROVE  s.verb \notin {"plan", "load"}
  <1>1. Slot(job.unit, s)
    BY DEF Planned, Ordered
  <1>2. CASE s \in Fixed(job.unit)
    <2>1. s.verb \in {"restart caddy", "daemon-reload", "start", "reload caddy", "commit", "flush",
                      "print"}
      <3>1. PICK u : u = job.unit
        OBVIOUS
      <3>2. \/ s = Restarting \/ s = Reloading \/ s = Starting(u) \/ s = StartingGateway(u)
            \/ s = Serving \/ s = Committing(u) \/ s = Flushing \/ s = Printing(u)
        BY <1>2, <3>1 DEF Fixed
      <3>3. s.verb \in {Restarting.verb, Reloading.verb, Starting(u).verb, StartingGateway(u).verb,
                        Serving.verb, Committing(u).verb, Flushing.verb, Printing(u).verb}
        BY <3>2
      <3>4. /\ Restarting.verb = "restart caddy" /\ Reloading.verb = "daemon-reload"
            /\ Starting(u).verb = "start" /\ StartingGateway(u).verb = "start"
            /\ Serving.verb = "reload caddy" /\ Committing(u).verb = "commit"
            /\ Flushing.verb = "flush" /\ Printing(u).verb = "print"
        BY FixedVerbs, Zenon
      <3> QED BY ONLY <3>3, <3>4, Zenon
    <2> QED BY <2>1, Zenon
  <1>3. CASE s \notin Fixed(job.unit)
    BY <1>1, <1>3, SweepingVerb DEF Slot, Preparing
  <1> QED BY <1>2, <1>3

\* What a finished plan left in the env file is its secret.
LEMMA PrintedSecret ==
    ASSUME Inv, OrderInv, UnderwayInv, job # None, NEW s \in job.todo, PrintStep(s)
    PROVE  file[Env(job.unit)] = job.secret
  <1>1. Planned /\ \A r \in job.todo : 29 <= r.at /\ r.at \in 1..29
    BY PrintIsLast, SlotNumbers DEF Planned, Ordered
  <1>2. \A r \in job.todo : 13 < r.at
    BY ONLY <1>1
  <1> QED BY <1>1, <1>2, Written, RenderedEnv

\* What a plan with nothing to do found in the env file is the secret it reuses.
LEMMA NoChangesToken ==
    ASSUME Inv, NEW s, NoChanges(s)
    PROVE  Complete(job.unit) /\ Exists(Env(job.unit))
  <1>a. PICK n : n = job.unit
    OBVIOUS
  <1>b. PICK t : t = job.target
    OBVIOUS
  <1>1. PICK secret \in SecretsFor(n) : Build(n, t, secret) = {}
    BY <1>a, <1>b DEF NoChanges
  <1>2. Complete(n)
    BY <1>a DEF NoChanges
  <1>3. WriteActions(n, t, secret) = {}
    BY <1>1 DEF Build, Changes
  <1>4. file[Env(n)] = secret
    BY <1>3, RenderedEnv DEF WriteActions, ToWrite
  <1>5. n \in Names
    BY <1>a DEF NoChanges, Doing, First, Inv, Typed
  <1>6. file[Env(n)] \in InUse
    BY <1>5 DEF InUse
  <1>7. Reused(n)
    BY <1>1, <1>4, <1>6 DEF SecretsFor
  <1> QED BY <1>a, <1>2, <1>7 DEF Reused

\* Fresh secrets are those of no unit, and reused ones the unit's own.
LEMMA PutToken ==
    ASSUME Inv, NEW s, PutIncomplete(s)
    PROVE  /\ job'.fresh \/ /\ Complete(job.unit) /\ Exists(Env(job.unit))
                            /\ job'.secret = file[Env(job.unit)]
           /\ \A m \in Names : file[Env(m)] \in shown => file[Env(m)] \in shown'
           /\ ~job'.fresh => shown' = shown
  <1>a. PICK n : n = job.unit
    OBVIOUS
  <1>1. PICK secret, plan :
            /\ secret \in SecretsFor(n)
            /\ job' = [job EXCEPT !.secret = secret, !.fresh = ~Reused(n),
                                  !.todo = plan \cup Ending(n)]
            /\ shown' = IF Reused(n) THEN shown ELSE shown \ {secret}
    BY <1>a DEF PutIncomplete
  <1>2. DOMAIN job = JobFields
    BY DEF PutIncomplete, Doing, First, Inv, Typed
  <1>3. job'.secret = secret /\ job'.fresh = ~Reused(n)
    BY <1>1, <1>2 DEF JobFields
  <1>4. CASE Reused(n)
    <2>1. secret = file[Env(n)]
      BY <1>1, <1>4 DEF SecretsFor
    <2> QED BY <1>a, <1>1, <1>3, <1>4, <2>1, Zenon DEF Reused
  <1>5. CASE ~Reused(n)
    <2>1. secret \notin InUse
      BY <1>1, <1>5 DEF SecretsFor
    <2>2. \A m \in Names : file[Env(m)] # secret
      BY <2>1 DEF InUse
    <2>3. job'.fresh
      BY <1>3, <1>5, Zenon
    <2> QED BY <1>1, <1>5, <2>2, <2>3
  <1> QED BY <1>4, <1>5

\* Only the commit of an apply completes its entry.
LEMMA ApplyCompletes ==
    ASSUME Inv, NEW s, ApplyStep(s) \/ RmStep(s) \/ DropStep(s), NEW n, n = job.unit, n \in Names,
           Complete(n)'
    PROVE  Complete(n)
  <1>1. CASE ApplyStep(s) \/ RmStep(s)
    <2>1. UNCHANGED registry
      BY <1>1 DEF ApplyStep, UserStep, MkdirStep, ChmodStep, WriteStep, StaleStep,
             SweepStep, UnmarkStep, SyncStep, MarkStep, GiveStep, JoinStep, LeaveStep,
             RestartCaddyStep, DaemonReloadStep, StartStep, ReloadCaddyStep, FlushStep,
             RmStep, DisableStep, RemoveTreeStep, UserdelStep
    <2> QED BY <2>1, Zenon DEF Complete, Registered
  <1>2. CASE DropStep(s)
    <2>1. job # None /\ RmNext(s)
      BY <1>2 DEF DropStep, Doing, First, RmNext
    <2> QED BY <1>2, <2>1, CompleteSteps
  <1> QED BY <1>1, <1>2

\* The steps of a command keep that.
LEMMA CommandKeepsToken ==
    ASSUME Apart, ReportsFinish, CommonInv, TokenInv, job # None,
           NEW s \in job.todo, ApplyNext(s) \/ RmNext(s) \/ Rejected(s) \/ Fault(s)
    PROVE  TokenInv'
  <1>a. PICK n : n = job.unit
    OBVIOUS
  <1> USE <1>a DEF CommonInv
  <1>0. n \in Names
    BY DEF Inv, Typed
  <1>1. ASSUME NEW m \in Names \ {n}, file[Env(m)] \in shown => file[Env(m)] \in shown'
        PROVE  /\ Complete(m)' /\ Exists(Env(m))' => file'[Env(m)] \in shown'
               /\ Applied(m)' => file'[Env(m)] \in shown'
    <2>1. /\ Complete(m)' => Complete(m)
          /\ Applied(m)' => Applied(m)
      BY CompleteSteps, ToldSteps DEF Applied
    <2>2. file'[Env(m)] = file[Env(m)]
      <3>1. Env(m) \in Files /\ Env(m)[2] \in IdsOf(m)
        BY FilesOfHost DEF Env, IdsOf
      <3> QED BY <1>0, <3>1, CommandOwn, OthersAlone
    <2> QED BY <1>1, <2>1, <2>2 DEF TokenInv, TokenKnown, Exists
  <1>2. ASSUME \A m \in Names : file[Env(m)] \in shown => file[Env(m)] \in shown',
               Complete(n)' /\ Exists(Env(n))' => file'[Env(n)] \in shown' \/ (Planned' /\ job'.unit = n),
               Planned' => job'.fresh \/ job'.secret \in shown',
               Applied(n)' => file'[Env(n)] \in shown'
        PROVE  TokenInv'
    BY <1>1, <1>2 DEF TokenInv, TokenKnown
  <1>3. CASE Ends(s) /\ ~PrintStep(s)
    <2>1. job' = None /\ UNCHANGED <<registry, file, shown>>
      <3>1. UNCHANGED shown
        BY <1>3 DEF Ends, Refuse, NoChanges, Rejected, Fault, NotFound, PruneStep
      <3> QED BY <1>3, <3>1, EndsJob
    <2>2. Complete(n)' => Complete(n)
      BY <2>1, Zenon DEF Complete, Registered
    <2>3. Planned => ~Complete(n)
      <3> SUFFICES ASSUME Planned, Complete(n) PROVE FALSE
        OBVIOUS
      <3>1. job.op = "apply" /\ ~(\A r \in job.todo : r.verb = "plan")
        <4>1. Printing(n) \in job.todo
          BY DEF Planned, Ordered
        <4> QED BY <4>1, PlannedVerbs DEF Planned
      <3>2. s \in Closing(n)
        BY <3>1 DEF ClosingInv
      <3>3. s.verb \in {"flush", "print"}
        BY <3>2 DEF Closing, Action
      <3>4. ~Fault(s)
        BY <3>3 DEF Fault, ReportsFinish
      <3>5. s.verb \notin {"plan", "load", "user", "disable", "prune"}
        BY <3>3
      <3>6. ~Refuse(s) /\ ~NoChanges(s) /\ ~Rejected(s) /\ ~NotFound(s) /\ ~PruneStep(s)
        BY <3>5 DEF Refuse, NoChanges, Rejected, NotFound, PruneStep, Doing
      <3> QED BY <1>3, <3>4, <3>6 DEF Ends
    <2>4. Complete(n) /\ Exists(Env(n)) => file[Env(n)] \in shown
      BY <1>0, <2>3 DEF TokenInv
    <2>5. Applied(n)' => Complete(n) /\ Exists(Env(n))
      BY <1>3, ToldSteps, NoChangesToken
    <2> QED BY <1>2, <2>1, <2>2, <2>4, <2>5 DEF Planned, Exists
  <1>4. CASE PrintStep(s)
    <2>1. job' = None /\ UNCHANGED file /\ Planned
      BY <1>4, EndsJob, PrintIsLast DEF Ends
    <2>2. file[Env(n)] = job.secret
      BY <1>4, PrintedSecret
    <2>3. shown \subseteq shown' /\ job.secret \in shown'
      BY <1>4, <2>1 DEF PrintStep, TokenInv
    <2> QED BY <1>2, <2>1, <2>2, <2>3 DEF Planned
  <1>5. CASE PutIncomplete(s)
    <2>1. ~Complete(n)'
      BY <1>5, CompleteSteps
    <2>2. ~Applied(n)'
      BY <1>5, ReportsAssumption DEF PutIncomplete, Applied, ToldInv
    <2>3. ~Planned
      <3>1. s.verb = "plan"
        BY <1>5 DEF PutIncomplete, Doing
      <3> QED BY <3>1, PlannedVerbs
    <2>4. job'.fresh \/ job'.secret \in shown'
      BY <1>0, <1>5, <2>3, PutToken DEF TokenInv
    <2> QED BY <1>2, <1>5, <2>1, <2>2, <2>4, PutToken
  <1>6. CASE LoadUnit(s)
    <2>1. job'.op = "rm" /\ UNCHANGED <<registry, file, shown, told>>
      BY <1>6, KindPhases DEF LoadUnit, Inv, Typed, JobFields, host, tree
    <2>2. Complete(n)' => Complete(n)
      BY <2>1, Zenon DEF Complete, Registered
    <2>3. ~Planned
      BY <1>6, KindPhases, PlannedVerbs
    <2>4. /\ Complete(n) /\ Exists(Env(n)) => file[Env(n)] \in shown
          /\ Applied(n) => file[Env(n)] \in shown
      BY <1>0, <2>3 DEF TokenInv, TokenKnown
    <2> QED BY <1>2, <2>1, <2>2, <2>4 DEF Planned, Exists, Applied
  <1>7. CASE Taken(s)
    <2>1. Done(s) /\ First(s) /\ s.verb # "print"
      BY <1>7, TakenDone
    <2>2. /\ job'.unit = n /\ job'.op = job.op /\ job'.secret = job.secret
          /\ job'.fresh = job.fresh /\ UNCHANGED <<shown, told>>
          /\ job' = [job EXCEPT !.todo = job.todo \ {s}]
      BY <2>1 DEF Done, Inv, Typed, JobFields
    <2>3. ~Applied(n)'
      BY <2>2, ReportsAssumption DEF ToldInv, Applied
    <2>4. CASE Applying /\ Ordered /\ (ApplyStep(s) \/ CommitStep(s))
      <3>1. Planned
        BY <2>4 DEF Planned, Applying
      <3>2. Planned'
        <4>2. job' # None
          BY <1>7, CommandGoesOn
        <4> QED BY <2>1, <2>4, <4>2, DoneOrdered DEF Planned
      <3> QED BY <1>2, <2>2, <2>3, <3>1, <3>2 DEF TokenInv
    <2>5. CASE Removing /\ (RmStep(s) \/ DropStep(s))
      <3>1. ~Planned /\ ~Planned'
        BY <2>2, <2>5 DEF Removing, Planned
      <3>2. file'[Env(n)] \in {None, file[Env(n)]}
        BY <1>0, <2>5, FilesOfHost DEF RmStep, DisableStep, RemoveTreeStep, RemoveTree, StaleStep, Remove,
               UserdelStep, DaemonReloadStep, ReloadCaddyStep, DropStep, tree, host, Inv, Typed
      <3>3. Complete(n)' => Complete(n)
        BY <1>0, <2>5, ApplyCompletes
      <3> QED BY <1>0, <1>2, <2>2, <2>3, <3>1, <3>2, <3>3 DEF TokenInv, Exists
    <2> QED BY <1>7, <2>4, <2>5, KindPhases
  <1> QED BY <1>3, <1>4, <1>5, <1>6, <1>7, StepKinds

\* So does every step of the specification, and every stutter.
LEMMA NextKeepsToken ==
    ASSUME Apart, ReportsFinish, CommonInv, TokenInv, [Next]_vars
    PROVE  TokenInv'
  <1>1. CASE \E s \in Todo : ApplyNext(s) \/ RmNext(s) \/ Rejected(s) \/ Fault(s)
    BY <1>1, CommandKeepsToken DEF Todo
  <1>2. CASE \/ \E n \in Names : BeginRm(n) \/ \E t \in Targets : BeginApply(n, t)
             \/ \E id \in AdminIds : AdminAddsUser(id)
             \/ \E k \in AdminNames : AdminChmods(k)
             \/ \E m \in Writers : AppWrites(m)
             \/ UNCHANGED vars
    <2>1. /\ UNCHANGED <<registry, shown>>
          /\ \A n \in Names : file'[Env(n)] = file[Env(n)]
          /\ \A n \in Names : Applied(n)' => Applied(n)
      <3>1. CASE \E n \in Names : BeginRm(n) \/ \E t \in Targets : BeginApply(n, t)
        <4>1. PICK n \in Names : BeginRm(n) \/ \E t \in Targets : BeginApply(n, t)
          BY <3>1
        <4>2. told' = [told EXCEPT ![n] = None] /\ UNCHANGED <<file, registry, shown>>
          BY <4>1, Begun
        <4> QED BY <4>2, ReportsAssumption DEF Applied, CommonInv, ToldInv
      <3>2. CASE (\E id \in AdminIds : AdminAddsUser(id)) \/ (\E k \in AdminNames : AdminChmods(k)) \/ UNCHANGED vars
        BY <3>2 DEF AdminAddsUser, AdminChmods, tree, vars, host, Applied
      <3>3. CASE \E m \in Writers : AppWrites(m)
        <4>1. \A n \in Names : \A m : Env(n) # Data(m) /\ Env(n) \in Files
          BY FilesOfHost DEF Env, Data
        <4> QED BY <3>3, <4>1 DEF AppWrites, CommonInv, Inv, Typed, Applied
      <3> QED BY <1>2, <3>1, <3>2, <3>3
    <2>2. (job = None /\ ~Planned /\ ~Planned') \/ UNCHANGED job
      BY <1>2, Begun DEF AdminAddsUser, AdminChmods, AppWrites, vars, Planned
    <2>3. Planned' => Planned /\ UNCHANGED job
      BY <2>2 DEF Planned, Ordered, Due, After
    <2>4. Planned => Planned'
      BY <2>2 DEF Planned, Ordered, Due, After
    <2>5. \A n \in Names : /\ Complete(n)' => Complete(n)
                           /\ Exists(Env(n))' => Exists(Env(n))
      <3>1. \A n \in Names : Complete(n)' => Complete(n)
        BY <2>1, Zenon DEF Complete, Registered
      <3> QED BY <2>1, <3>1 DEF Exists
    <2>6. \A n \in Names : Planned /\ job.unit = n => job'.unit = n
      BY <2>2
    <2> QED BY <2>1, <2>3, <2>4, <2>5, <2>6 DEF TokenInv, TokenKnown
  <1> QED BY <1>1, <1>2 DEF Next

\* Where no gateway has the name of another unit, and no apply fails between its commit
\* and its report: the operator holds the token of every unit reported as deployed,
\* also when the apply found nothing to do (Promises.TokenKnown).
THEOREM TokensHeld == Apart /\ ReportsFinish => (Spec => []TokenKnown)
  <1> SUFFICES ASSUME Apart, ReportsFinish PROVE Spec => []TokenKnown
    OBVIOUS
  <1>1. Init => TokenInv
    <2> SUFFICES ASSUME Init PROVE TokenInv
      OBVIOUS
    <2>1. job = None /\ \A n \in Names : told[n] = None /\ ~Complete(n)
      BY DEF Init, Complete, Registered
    <2> QED BY <2>1, ReportsAssumption DEF TokenInv, TokenKnown, Applied, Planned
  <1>2. CommonInv /\ TokenInv /\ [Next]_vars => TokenInv'
    BY NextKeepsToken
  <1>3. CommonInv /\ [Next]_vars => CommonInv'
    BY NextKeepsCommon
  <1>5. TokenInv => TokenKnown
    BY DEF TokenInv
  <1> QED BY <1>1, <1>2, <1>3, <1>5, InitCommon, PTL DEF Spec

-----------------------------------------------------------------------------
(* The parts of a plan.                                                    *)

LEMMA PartVerbs ==
    ASSUME NEW n, NEW t, NEW secret
    PROVE  /\ \A s \in UserActions(n) : s.verb = "user"
           /\ \A s \in DirectoryActions(n) : s.verb \in {"mkdir", "chmod"}
           /\ \A s \in WriteActions(n, t, secret) : s.verb = "write"
           /\ \A s \in StaleActions(n, t) : s.verb \in {"rm", Sweeping}
           /\ \A s \in DependencyActions(n, t, secret) : s.verb \in {"unmark", "sync", "mark"}
           /\ \A s \in ChgrpActions(n) : s.verb = "chgrp"
           /\ \A s \in ChownActions(n) : s.verb = "chown"
           /\ \A s \in GroupActions(n, t) :
                  s = Restarting \/ s.verb \in {"join", "leave"}
  <1>1. \A s \in UserActions(n) : s.verb = "user"
    BY DEF UserActions, When, Action
  <1>2. \A s \in DirectoryActions(n) : s.verb \in {"mkdir", "chmod"}
    BY DEF DirectoryActions, MkdirActions, When, Action
  <1>3. \A s \in WriteActions(n, t, secret) : s.verb = "write"
    BY DEF WriteActions, Action
  <1>4. \A s \in StaleActions(n, t) : s.verb \in {"rm", Sweeping}
    <2>1. \A f : Action(14, "rm", f).verb = "rm"
      BY DEF Action
    <2>2. \A f : Action(14, "rm temp", f).verb = Sweeping
      BY Zenon DEF Action, Sweeping
    <2> QED BY <2>1, <2>2, Zenon DEF StaleActions
  <1>5. \A s \in DependencyActions(n, t, secret) : s.verb \in {"unmark", "sync", "mark"}
    BY DEF DependencyActions, When, Action
  <1>6. /\ \A s \in ChgrpActions(n) : s.verb = "chgrp"
        /\ \A s \in ChownActions(n) : s.verb = "chown"
    BY DEF ChgrpActions, ChownActions, When, Action
  <1>7. \A s \in GroupActions(n, t) : s = Restarting \/ s.verb \in {"join", "leave"}
    BY GroupShape DEF Action
  <1> QED BY <1>1, <1>2, <1>3, <1>4, <1>5, <1>6, <1>7

\* An action that prepares is in the part of the plan its verb says.
LEMMA BuildParts ==
    ASSUME NEW n, NEW t, NEW secret, NEW s \in Build(n, t, secret) \cup Ending(n),
           s.verb \in Preparing
    PROVE  /\ s.verb = "user" => s \in UserActions(n)
           /\ s.verb \in {"mkdir", "chmod"} => s \in DirectoryActions(n)
           /\ s.verb \in {"unmark", "sync", "mark"} => s \in DependencyActions(n, t, secret)
           /\ s.verb = "write" => s \in WriteActions(n, t, secret)
           /\ s.verb = "chgrp" => s \in ChgrpActions(n)
           /\ s.verb = "chown" => s \in ChownActions(n)
           /\ s.verb \in {"join", "leave"} => s \in GroupActions(n, t)
  <1>1. s \notin Fixed(n)
    BY FixedNotPreparing
  <1>2. ServiceActions(n) \subseteq Fixed(n) /\ Ending(n) \subseteq Fixed(n)
        /\ Restarting \in Fixed(n)
    BY ServiceShape DEF Fixed, Ending, Committing, Flushing, Printing
  <1>3. s \in Changes(n, t, secret)
    BY <1>1, <1>2 DEF Build, When
  <1>4. \/ s \in UserActions(n) \/ s \in DirectoryActions(n) \/ s \in WriteActions(n, t, secret)
        \/ s \in StaleActions(n, t) \/ s \in DependencyActions(n, t, secret)
        \/ s \in ChgrpActions(n) \/ s \in ChownActions(n) \/ s \in GroupActions(n, t)
    BY <1>3 DEF Changes
  <1>5. s # Restarting
    BY <1>1, <1>2
  <1>6. CASE s \in UserActions(n) \/ s \in DirectoryActions(n)
    <2>1. CASE s \in UserActions(n)
      <3>1. s.verb = "user"
        BY <2>1, PartVerbs, Zenon
      <3> QED BY <2>1, <3>1
    <2>2. CASE s \in DirectoryActions(n)
      <3>1. s.verb \in {"mkdir", "chmod"}
        BY <2>2, PartVerbs, Zenon
      <3> QED BY <2>2, <3>1
    <2> QED BY <1>6, <2>1, <2>2, Zenon
  <1>7. CASE s \in WriteActions(n, t, secret) \/ s \in StaleActions(n, t)
    <2>1. CASE s \in WriteActions(n, t, secret)
      <3>1. s.verb = "write"
        BY <2>1, PartVerbs, Zenon
      <3> QED BY <2>1, <3>1
    <2>2. CASE s \in StaleActions(n, t)
      <3>1. s.verb \in {"rm", Sweeping}
        BY <2>2, PartVerbs, Zenon
      <3> QED BY <3>1, SweepingVerb
    <2> QED BY <1>7, <2>1, <2>2, Zenon
  <1>8. CASE s \in DependencyActions(n, t, secret)
    <2>1. s.verb \in {"unmark", "sync", "mark"}
      BY <1>8, PartVerbs, Zenon
    <2> QED BY <1>8, <2>1
  <1>9. CASE s \in ChgrpActions(n) \/ s \in ChownActions(n)
    <2>1. CASE s \in ChgrpActions(n)
      <3>1. s.verb = "chgrp"
        BY <2>1, PartVerbs, Zenon
      <3> QED BY <2>1, <3>1
    <2>2. CASE s \in ChownActions(n)
      <3>1. s.verb = "chown"
        BY <2>2, PartVerbs, Zenon
      <3> QED BY <2>2, <3>1
    <2> QED BY <1>9, <2>1, <2>2, Zenon
  <1>10. CASE s \in GroupActions(n, t)
    <2>1. s.verb \in {"join", "leave"}
      BY <1>5, <1>10, PartVerbs, Zenon
    <2> QED BY <1>10, <2>1
  <1> QED BY <1>4, <1>6, <1>7, <1>8, <1>9, <1>10, Zenon

\* The whole of its parts is in a plan.
LEMMA PartsOfBuild ==
    ASSUME NEW n, NEW t, NEW secret
    PROVE  /\ UserActions(n) \cup DirectoryActions(n) \cup WriteActions(n, t, secret)
                \cup DependencyActions(n, t, secret) \cup ChgrpActions(n) \cup GroupActions(n, t)
                \cup ChownActions(n) \subseteq Build(n, t, secret)
           /\ Build(n, t, secret) = {} =>
                /\ UserActions(n) = {} /\ DirectoryActions(n) = {} /\ GroupActions(n, t) = {}
                /\ WriteActions(n, t, secret) = {} /\ DependencyActions(n, t, secret) = {}
                /\ ChgrpActions(n) = {} /\ ChownActions(n) = {}
  BY DEF Build, Changes

\* What an apply has planned, and how.
LEMMA PutPlan ==
    ASSUME Inv, NEW s, PutIncomplete(s), job.op = "apply"
    PROVE  \E n \in Names, t \in Targets : \E secret \in SecretsFor(n) :
               /\ n = job.unit /\ n = job'.unit /\ t = job.target /\ t = job'.target
               /\ job'.todo = Build(n, t, secret) \cup Ending(n)
               /\ job'.secret = secret
               /\ UNCHANGED <<host, told, faults>>
  <1>1. job # None /\ DOMAIN job = JobFields /\ job.unit \in Names /\ job.target \in Targets
    BY DEF PutIncomplete, Doing, First, Inv, Typed
  <1>2. PICK n \in Names : n = job.unit
    BY <1>1
  <1>3. PICK t \in Targets : t = job.target
    BY <1>1
  <1>4. PICK secret \in SecretsFor(n) :
            job' = [job EXCEPT !.secret = secret, !.fresh = ~Reused(n),
                               !.todo = Build(n, t, secret) \cup Ending(n)]
    BY <1>2, <1>3 DEF PutIncomplete
  <1> QED BY <1>1, <1>2, <1>3, <1>4 DEF PutIncomplete, JobFields

-----------------------------------------------------------------------------
(* Caddy's process is in the groups of the static units.                   *)

\* Caddy runs with the memberships its account has.
InStep(m) == m \in groups <=> m \in caddyGroups

Joining(s) == s.verb \in {"join", "leave"}

\* An apply is on its way from changing the membership to restarting Caddy.
Rejoining == Planned /\ Restarting \in job.todo /\ After(19)

\* What an apply still has to do about the membership.
MembershipPlanned ==
    /\ \A s \in job.todo : /\ Joining(s) => Restarting \in job.todo
                           /\ s.verb = "join" => job.target.kind = "static"
                           /\ s.verb = "leave" => job.target.kind # "static"
    /\ \/ job.unit \in groups <=> job.target.kind = "static"
       \/ \E s \in job.todo : Joining(s)

InStepInv == \A m \in Names : InStep(m) \/ (job.unit = m /\ Rejoining)

MembershipInv ==
    /\ Planned => MembershipPlanned
    /\ \A m \in Names : Applied(m) => (m \in groups <=> told[m].kind = "static")

\* No apply fails at the restart of Caddy.
CaddyRestarts == "restart caddy" \notin FaultVerbs

\* Nothing but a change of the membership has its place in a plan.
LEMMA JoiningPlace ==
    ASSUME NEW n, NEW s, Slot(n, s)
    PROVE  /\ Joining(s) => s.at = 19 /\ s.on = <<"group", n>>
           /\ s.at = 19 => Joining(s)
  <1>1. CASE s \in Fixed(n)
    <2>1. s.verb \notin Preparing
      BY <1>1, FixedNotPreparing
    <2>2. s.at # 19
      BY <1>1, FixedPlaces DEF Fixed
    <2> QED BY <2>1, <2>2 DEF Joining, Preparing
  <1>2. CASE s \notin Fixed(n)
    <2>1. s.verb = "write" => s.at \in 9..13
      <3>1. \A f : WriteAt(n, f) \in 9..13
        BY DEF WriteAt
      <3> QED BY <1>2, <3>1 DEF Slot, Action
    <2> QED BY <1>2, <2>1, SweepingVerb DEF Slot, Joining, Preparing
  <1> QED BY <1>1, <1>2

\* Which steps change a membership, or Caddy's.
LEMMA GroupSteps ==
    ASSUME NEW s
    PROVE  /\ JoinStep(s) => groups' = groups \cup {s.on[2]} /\ UNCHANGED caddyGroups
           /\ LeaveStep(s) => groups' = groups \ {s.on[2]} /\ UNCHANGED caddyGroups
           /\ RestartCaddyStep(s) => caddyGroups' = groups /\ UNCHANGED groups
           /\ UserdelStep(s) => \/ /\ groups' = groups \ {s.on[2]}
                                   /\ caddyGroups' = caddyGroups \ {s.on[2]}
                                \/ UNCHANGED <<groups, caddyGroups>>
           /\ Ends(s) \/ PutIncomplete(s) \/ LoadUnit(s) => UNCHANGED <<groups, caddyGroups>>
           /\ ApplyStep(s) \/ CommitStep(s) \/ RmStep(s) \/ DropStep(s) =>
                \/ JoinStep(s) \/ LeaveStep(s) \/ RestartCaddyStep(s) \/ UserdelStep(s)
                \/ UNCHANGED <<groups, caddyGroups>>
  <1>1. /\ JoinStep(s) => groups' = groups \cup {s.on[2]} /\ UNCHANGED caddyGroups
        /\ LeaveStep(s) => groups' = groups \ {s.on[2]} /\ UNCHANGED caddyGroups
    BY DEF JoinStep, LeaveStep, AddGroupMember, RemoveGroupMember, daemons, gids
  <1>2. RestartCaddyStep(s) => caddyGroups' = groups /\ UNCHANGED groups
    BY DEF RestartCaddyStep, CaddyRestart, accounts
  <1>3. UserdelStep(s) => \/ /\ groups' = groups \ {s.on[2]}
                             /\ caddyGroups' = caddyGroups \ {s.on[2]}
                          \/ UNCHANGED <<groups, caddyGroups>>
    BY DEF UserdelStep, DeleteUser, gids
  <1>4. Ends(s) \/ PutIncomplete(s) \/ LoadUnit(s) => UNCHANGED <<groups, caddyGroups>>
    BY DEF Ends, Refuse, NoChanges, PrintStep, Rejected, Fault, NotFound, PruneStep,
           PutIncomplete, LoadUnit, accounts, daemons, gids, host
  <1>5. ASSUME ApplyStep(s), ~JoinStep(s), ~LeaveStep(s), ~RestartCaddyStep(s)
        PROVE  UNCHANGED <<groups, caddyGroups>>
    BY <1>5 DEF ApplyStep, UserStep, CreateUser, TakeGid, MkdirStep, ChmodStep, WriteStep, StaleStep,
           SweepStep, UnmarkStep, SyncStep, MarkStep, GiveStep, DaemonReloadStep, DaemonReload,
           StartStep, Start, ReloadCaddyStep, CaddyReload, FlushStep, accounts, daemons, gids
  <1>6. ASSUME RmStep(s) \/ CommitStep(s) \/ DropStep(s), ~UserdelStep(s)
        PROVE  UNCHANGED <<groups, caddyGroups>>
    BY <1>6 DEF RmStep, DisableStep, Disable, RemoveTreeStep, StaleStep, DaemonReloadStep, DaemonReload,
           ReloadCaddyStep, CaddyReload, CommitStep, DropStep, accounts, daemons, gids, host
  <1> QED BY <1>1, <1>2, <1>3, <1>4, <1>5, <1>6

\* An apply joins or leaves its unit's group, and then restarts Caddy.
LEMMA JoinSteps ==
    ASSUME Ordered, NEW s \in job.todo, ApplyStep(s) \/ CommitStep(s), NEW n, n = job.unit
    PROVE  /\ s.verb = "join" <=> JoinStep(s)
           /\ s.verb = "leave" <=> LeaveStep(s)
           /\ RestartCaddyStep(s) <=> s = Restarting
           /\ ~UserdelStep(s)
  <1>1. s.verb = "join" <=> JoinStep(s)
    BY DEF ApplyStep, UserStep, MkdirStep, ChmodStep, WriteStep, StaleStep, SweepStep, UnmarkStep,
           SyncStep, MarkStep, GiveStep, JoinStep, LeaveStep, RestartCaddyStep, DaemonReloadStep,
           StartStep, ReloadCaddyStep, FlushStep, CommitStep, Doing
  <1>2. s.verb = "leave" <=> LeaveStep(s)
    BY DEF ApplyStep, UserStep, MkdirStep, ChmodStep, WriteStep, StaleStep, SweepStep, UnmarkStep,
           SyncStep, MarkStep, GiveStep, JoinStep, LeaveStep, RestartCaddyStep, DaemonReloadStep,
           StartStep, ReloadCaddyStep, FlushStep, CommitStep, Doing
  <1>3. ~UserdelStep(s)
    BY DEF ApplyStep, UserStep, MkdirStep, ChmodStep, WriteStep, StaleStep, SweepStep, UnmarkStep,
           SyncStep, MarkStep, GiveStep, JoinStep, LeaveStep, RestartCaddyStep, DaemonReloadStep,
           StartStep, ReloadCaddyStep, FlushStep, CommitStep, UserdelStep, Doing
  <1>4. Slot(n, s)
    BY DEF Ordered
  <1>5. ASSUME RestartCaddyStep(s) PROVE s = Restarting
    <2>1. s.verb = "restart caddy"
      BY <1>5, FixedStepVerbs, Zenon
    <2>2. \A v \in Preparing : v # "restart caddy"
      BY Zenon DEF Preparing, Sweeping
    <2>3. s \in Fixed(n)
      <3>1. s.verb \notin Preparing
        BY <2>1, <2>2, Zenon
      <3> QED BY <1>4, <3>1 DEF Slot
    <2>4. \/ s = Restarting
          \/ /\ DaemonReloadStep(s) \/ StartStep(s) \/ ReloadCaddyStep(s) \/ CommitStep(s)
                \/ FlushStep(s)
      BY <2>3, FixedSteps
    <2>5. ~(\/ DaemonReloadStep(s) \/ StartStep(s) \/ ReloadCaddyStep(s) \/ CommitStep(s)
            \/ FlushStep(s))
      BY <2>1, FixedStepVerbs, Zenon
    <2> QED BY <2>4, <2>5
  <1>6. ASSUME s = Restarting PROVE RestartCaddyStep(s)
    <2>1. s.verb = "restart caddy"
      BY <1>6, FixedVerbs, Zenon
    <2>2. s \in Fixed(n)
      BY <1>6, Zenon DEF Fixed
    <2>3. \/ RestartCaddyStep(s)
          \/ DaemonReloadStep(s) \/ StartStep(s) \/ ReloadCaddyStep(s) \/ CommitStep(s)
          \/ FlushStep(s)
      BY <2>2, FixedSteps
    <2> QED BY <2>1, <2>3, FixedStepVerbs, Zenon
  <1> QED BY <1>1, <1>2, <1>3, <1>5, <1>6

\* What is planned about the membership is what the target asks for.
LEMMA PutMembership ==
    ASSUME Inv, NEW s, PutIncomplete(s), job.op = "apply"
    PROVE  MembershipPlanned' /\ UNCHANGED <<groups, caddyGroups, told>>
  <1>1. PICK n \in Names, t \in Targets : \E secret \in SecretsFor(n) :
            /\ n = job.unit /\ n = job'.unit /\ t = job.target /\ t = job'.target
            /\ job'.todo = Build(n, t, secret) \cup Ending(n)
            /\ UNCHANGED <<host, told>>
    BY PutPlan
  <1>2. PICK secret \in SecretsFor(n) : job'.todo = Build(n, t, secret) \cup Ending(n)
    BY <1>1
  <1>3. UNCHANGED <<groups, caddyGroups, told>>
    BY <1>1 DEF host, accounts, daemons, gids
  <1>4. GroupActions(n, t) \subseteq job'.todo
    BY <1>2, PartsOfBuild
  <1>5. \A r \in job'.todo : Joining(r) => r \in GroupActions(n, t)
    BY <1>2, BuildParts, SweepingVerb DEF Joining, Preparing
  <1>6. GroupActions(n, t) = When(t.kind = "static" /\ n \notin groups,
                                  {Action(19, "join", <<"group", n>>), Restarting}) \cup
                             When(t.kind # "static" /\ n \in groups,
                                  {Action(19, "leave", <<"group", n>>), Restarting})
    BY Zenon DEF GroupActions, Restarting
  <1>7. /\ Joining(Action(19, "join", <<"group", n>>))
        /\ Joining(Action(19, "leave", <<"group", n>>))
        /\ ~Joining(Restarting)
    <2>1. Restarting.verb = "restart caddy"
      BY FixedVerbs, Zenon
    <2>2. "restart caddy" \notin {"join", "leave"}
      BY Zenon
    <2>3. ~Joining(Restarting)
      BY <2>1, <2>2, Zenon DEF Joining
    <2> QED BY <2>3 DEF Joining, Action
  <1>8. ASSUME NEW r \in job'.todo
        PROVE  /\ Joining(r) => Restarting \in job'.todo
               /\ r.verb = "join" => t.kind = "static"
               /\ r.verb = "leave" => t.kind # "static"
    <2>1. CASE Joining(r)
      <3>1. r \in GroupActions(n, t) /\ r # Restarting
        BY <1>5, <1>7, <2>1
      <3>2. \/ r = Action(19, "join", <<"group", n>>) /\ t.kind = "static"
            \/ r = Action(19, "leave", <<"group", n>>) /\ t.kind # "static"
        BY <1>6, <3>1, Zenon DEF When
      <3>3. Restarting \in GroupActions(n, t)
        BY <1>6, <3>1, Zenon DEF When
      <3> QED BY <1>4, <3>2, <3>3 DEF Action
    <2> QED BY <2>1 DEF Joining
  <1>9. (n \in groups <=> t.kind = "static") \/ \E r \in job'.todo : Joining(r)
    <2>1. CASE t.kind = "static" /\ n \notin groups
      <3>1. Action(19, "join", <<"group", n>>) \in GroupActions(n, t)
        BY <1>6, <2>1, Zenon DEF When
      <3> QED BY <1>4, <1>7, <3>1
    <2>2. CASE t.kind # "static" /\ n \in groups
      <3>1. Action(19, "leave", <<"group", n>>) \in GroupActions(n, t)
        BY <1>6, <2>2, Zenon DEF When
      <3> QED BY <1>4, <1>7, <3>1
    <2> QED BY <2>1, <2>2
  <1> QED BY <1>1, <1>3, <1>8, <1>9 DEF MembershipPlanned, Joining

\* Where there is nothing to do, the membership is what the target asks for.
LEMMA NoChangesMembership ==
    ASSUME Inv, NEW s, NoChanges(s), NEW n, n = job.unit, NEW t, t = job.target
    PROVE  n \in groups <=> t.kind = "static"
  <1>1. PICK secret \in SecretsFor(n) : Build(n, t, secret) = {}
    BY DEF NoChanges
  <1>2. GroupActions(n, t) = {}
    BY <1>1, PartsOfBuild
  <1>3. GroupActions(n, t) = When(t.kind = "static" /\ n \notin groups,
                                  {Action(19, "join", <<"group", n>>), Restarting}) \cup
                             When(t.kind # "static" /\ n \in groups,
                                  {Action(19, "leave", <<"group", n>>), Restarting})
    BY Zenon DEF GroupActions, Restarting
  <1> QED BY <1>2, <1>3, Zenon DEF When

\* A command that ends has not left Caddy behind.
LEMMA EndsInStep ==
    ASSUME CaddyRestarts, Inv, OrderInv, job # None, NEW s \in job.todo, Ends(s)
    PROVE  ~Rejoining
  <1> SUFFICES ASSUME Rejoining PROVE FALSE
    OBVIOUS
  <1>a. PICK n : n = job.unit
    OBVIOUS
  <1>1. First(s) /\ s.verb \notin {"plan", "load"} /\ job.op = "apply"
    BY PlannedVerbs DEF Rejoining, Planned, Ends, Refuse, NoChanges, PrintStep, Rejected, Fault,
           NotFound, PruneStep, Doing
  <1>2. s.at = 20
    <2>1. Restarting.at = 20 /\ Restarting \in job.todo /\ 19 < s.at
      BY FixedPlaces DEF Rejoining, After
    <2>2. s.at \in 1..29
      BY SlotNumbers DEF Rejoining, Planned, Ordered
    <2>3. s.at <= 20
      BY <1>1, <2>1 DEF First
    <2> QED BY ONLY <2>1, <2>2, <2>3
  <1>3. s = Restarting
    <2>1. Slot(n, s) /\ Restarting \in Fixed(n) /\ Restarting.at = 20
      BY <1>a, FixedPlaces DEF Rejoining, Planned, Ordered, Fixed
    <2> QED BY <1>2, <2>1, FixedAlone
  <1>4. s.verb = "restart caddy"
    BY <1>3, FixedVerbs, Zenon
  <1>5. ~Fault(s)
    BY <1>4, Zenon DEF Fault, CaddyRestarts
  <1>6. PrintStep(s)
    <2>1. ~Rejected(s) /\ ~PruneStep(s)
      <3>1. ~PruneStep(s)
        BY <1>1, KindPhases DEF Removing
      <3>2. ~Rejected(s)
        BY <1>4, Zenon DEF Rejected, Doing
      <3> QED BY <3>1, <3>2
    <2>2. ~Refuse(s) /\ ~NoChanges(s) /\ ~NotFound(s)
      BY <1>1, KindPhases
    <2> QED BY <1>5, <2>1, <2>2 DEF Ends
  <1>7. s.verb = "print"
    BY <1>6, Zenon DEF PrintStep, Doing
  <1> QED BY <1>4, <1>7, Zenon

\* The steps of an apply keep that.
LEMMA ApplyKeepsAccess ==
    ASSUME Apart, CommonInv, MembershipInv, Planned, Planned', Applying,
           NEW s \in job.todo, First(s), ApplyStep(s) \/ CommitStep(s),
           NEW n, n = job.unit, n = job'.unit, job'.target = job.target,
           job'.todo = job.todo \ {s}, UNCHANGED told
    PROVE  MembershipInv' /\ (InStepInv => InStepInv')
  <1> DEFINE t == job.target
  <1>0. n \in Names /\ told[n] = None
    BY DEF CommonInv, Inv, Typed, ToldInv, Applying
  <1>1. \A m \in Names : Applied(m)' => Applied(m) /\ m # n
    BY <1>0, ReportsAssumption DEF Applied
  <1>2. \A r \in job.todo : /\ Slot(n, r) /\ s.at <= r.at
                            /\ r.at \in 1..29 /\ s.at \in 1..29
                            /\ Joining(r) => r.at = 19 /\ r.on = <<"group", n>>
                            /\ r.at = 19 => Joining(r)
    BY JoiningPlace, SlotNumbers DEF Planned, Ordered, First
  <1>3. Restarting \in job.todo => Restarting.at = 20
    BY FixedPlaces
  <1>4. MembershipPlanned
    BY DEF MembershipInv
  <1>5. CASE Joining(s)
    <2>1. Restarting \in job.todo /\ s.at = 19 /\ s.on = <<"group", n>>
      BY <1>2, <1>4, <1>5 DEF MembershipPlanned
    <2>2. Restarting \in job'.todo
      <3>1. Restarting # s
        BY <1>3, <2>1
      <3> QED BY <2>1, <3>1
    <2>3. \A r \in job'.todo : ~Joining(r)
      <3> SUFFICES ASSUME NEW r \in job.todo, r # s, Joining(r) PROVE FALSE
        OBVIOUS
      <3>1. r.at = s.at /\ r.on = s.on
        BY <1>2, <2>1
      <3>2. r.verb = s.verb
        BY <1>4, <1>5 DEF MembershipPlanned, Joining
      <3>3. r \in Actions /\ s \in Actions
        BY DEF CommonInv, JobsTyped, Jobs, Applying
      <3> QED BY <3>1, <3>2, <3>3 DEF Actions
    <2>4. \A r \in job'.todo : 19 < r.at
      BY <1>2, <2>1, <2>3
    <2>5. Rejoining'
      BY <2>2, <2>4 DEF Rejoining, After
    <2>6. /\ \A m \in Names \ {n} : m \in groups' <=> m \in groups
          /\ n \in groups' <=> t.kind = "static"
          /\ UNCHANGED caddyGroups
      <3>1. s.on[2] = n
        BY <2>1
      <3>2. CASE s.verb = "join"
        <4>1. groups' = groups \cup {n} /\ UNCHANGED caddyGroups
          BY <3>1, <3>2, JoinSteps, GroupSteps DEF Planned
        <4>2. t.kind = "static"
          BY <1>4, <3>2 DEF MembershipPlanned
        <4> QED BY <4>1, <4>2
      <3>3. CASE s.verb = "leave"
        <4>1. groups' = groups \ {n} /\ UNCHANGED caddyGroups
          BY <3>1, <3>3, JoinSteps, GroupSteps DEF Planned
        <4>2. t.kind # "static"
          BY <1>4, <3>3 DEF MembershipPlanned
        <4> QED BY <4>1, <4>2
      <3> QED BY <1>5, <3>2, <3>3 DEF Joining
    <2>7. MembershipPlanned'
      BY <2>3, <2>6 DEF MembershipPlanned, Joining
    <2>8. InStepInv => InStepInv'
      <3> SUFFICES ASSUME InStepInv PROVE InStepInv'
        OBVIOUS
      <3>1. \A m \in Names \ {n} : InStep(m)
        BY DEF InStepInv
      <3> QED BY <2>5, <2>6, <3>1 DEF InStep, InStepInv
    <2> QED BY <1>1, <2>6, <2>7, <2>8 DEF MembershipInv, Applied
  <1>6. CASE s = Restarting
    <2>1. caddyGroups' = groups /\ UNCHANGED groups
      BY <1>6, JoinSteps, GroupSteps DEF Planned
    <2>2. \A r \in job.todo : ~Joining(r)
      <3>1. s.at = 20
        BY <1>3, <1>6
      <3> QED BY <1>2, <3>1
    <2>3. MembershipPlanned'
      BY <1>4, <2>1, <2>2 DEF MembershipPlanned, Joining
    <2> QED BY <1>1, <2>1, <2>3 DEF InStepInv, MembershipInv, InStep, Applied
  <1>7. CASE ~Joining(s) /\ s # Restarting
    <2>1. UNCHANGED <<groups, caddyGroups>>
      <3>1. ~JoinStep(s) /\ ~LeaveStep(s) /\ ~RestartCaddyStep(s) /\ ~UserdelStep(s)
        BY <1>7, JoinSteps DEF Planned, Joining
      <3> QED BY <3>1, GroupSteps
    <2>2. MembershipPlanned'
      BY <1>4, <1>7, <2>1 DEF MembershipPlanned, Joining
    <2>3. Rejoining => Rejoining'
      BY <1>7 DEF Rejoining, After
    <2> QED BY <1>1, <2>1, <2>2, <2>3 DEF InStepInv, MembershipInv, InStep, Applied
  <1> QED BY <1>5, <1>6, <1>7

\* The steps of a command keep that.
LEMMA CommandKeepsAccess ==
    ASSUME Apart, CommonInv, MembershipInv, job # None,
           NEW s \in job.todo, ApplyNext(s) \/ RmNext(s) \/ Rejected(s) \/ Fault(s)
    PROVE  MembershipInv' /\ (CaddyRestarts /\ InStepInv => InStepInv')
  <1>a. PICK n : n = job.unit
    OBVIOUS
  <1> USE <1>a DEF CommonInv
  <1>0. n \in Names /\ told[n] = None
    BY DEF Inv, Typed, ToldInv
  <1>1. CASE Ends(s)
    <2>1. job' = None /\ ~Planned' /\ UNCHANGED <<groups, caddyGroups>>
      BY <1>1, EndsJob, GroupSteps DEF Planned
    <2>2. CaddyRestarts /\ InStepInv => \A m \in Names : InStep(m)
      BY <1>1, EndsInStep DEF InStepInv
    <2>3. \A m \in Names \ {n} : told'[m] = told[m]
      BY ToldSteps
    <2>4. Applied(n)' => (n \in groups <=> told'[n].kind = "static")
      <3> SUFFICES ASSUME Applied(n)' PROVE n \in groups <=> told'[n].kind = "static"
        OBVIOUS
      <3>1. (PrintStep(s) \/ NoChanges(s)) /\ told'[n] = job.target
        BY ToldSteps
      <3>2. CASE NoChanges(s)
        BY <3>1, <3>2, NoChangesMembership
      <3>3. CASE PrintStep(s)
        <4>1. Planned /\ \A r \in job.todo : 29 <= r.at /\ r.at \in 1..29 /\ Slot(n, r)
          BY <3>3, PrintIsLast, SlotNumbers DEF Planned, Ordered
        <4>2. \A r \in job.todo : ~Joining(r)
          BY <4>1, JoiningPlace
        <4> QED BY <3>1, <4>1, <4>2 DEF MembershipInv, MembershipPlanned
      <3> QED BY <3>1, <3>2, <3>3
    <2> QED BY <2>1, <2>2, <2>3, <2>4 DEF InStepInv, MembershipInv, InStep, Applied
  <1>2. CASE PutIncomplete(s)
    <2>1. job.op = "apply" /\ s.verb = "plan"
      BY <1>2, KindPhases
    <2>2. ~Rejoining
      BY <2>1, PlannedVerbs DEF Rejoining
    <2>3. MembershipPlanned' /\ UNCHANGED <<groups, caddyGroups, told>>
      BY <1>2, <2>1, PutMembership
    <2> QED BY <2>2, <2>3 DEF InStepInv, MembershipInv, InStep, Applied
  <1>3. CASE LoadUnit(s)
    <2>1. s.verb = "load" /\ job'.op = "rm" /\ UNCHANGED told
      BY <1>3, KindPhases DEF LoadUnit, Inv, Typed, JobFields
    <2>2. ~Rejoining /\ ~Planned'
      BY <2>1, PlannedVerbs DEF Rejoining, Planned
    <2>3. UNCHANGED <<groups, caddyGroups>>
      BY <1>3, GroupSteps
    <2> QED BY <2>1, <2>2, <2>3 DEF InStepInv, MembershipInv, InStep, Applied
  <1>4. CASE Taken(s)
    <2>1. Done(s) /\ First(s) /\ s.verb # "print"
      BY <1>4, TakenDone
    <2>2. /\ job'.unit = n /\ job'.op = job.op /\ job'.target = job.target
          /\ job'.todo = job.todo \ {s} /\ UNCHANGED told
      BY <2>1 DEF Done, Inv, Typed, JobFields
    <2>3. CASE Applying /\ Ordered /\ (ApplyStep(s) \/ CommitStep(s))
      <3>1. Planned
        BY <2>3 DEF Planned, Applying
      <3>2. Planned'
        <4>2. job' # None
          BY <1>4, CommandGoesOn
        <4> QED BY <2>1, <2>3, <4>2, DoneOrdered DEF Planned
      <3> QED BY <2>1, <2>2, <2>3, <3>1, <3>2, ApplyKeepsAccess
    <2>4. CASE Removing /\ (RmStep(s) \/ DropStep(s))
      <3>1. ~Planned /\ ~Planned'
        BY <2>2, <2>4 DEF Removing, Planned
      <3>2. \A m \in Names : Applied(m)' => Applied(m) /\ m # n
        BY <1>0, <2>2, ReportsAssumption DEF Applied
      <3>3. InStepInv => \A m \in Names : InStep(m)
        BY <3>1 DEF InStepInv, Rejoining
      <3>4. CASE UserdelStep(s)
        <4>1. s.on[2] \in IdsOf(n)
          <5>1. s.verb = "userdel"
            BY <3>4, Zenon DEF UserdelStep, Doing
          <5>2. s \in RemovalScript(n)
            BY <2>4 DEF Removing
          <5>3. s.on \in {<<"user", id>> : id \in IdsOf(n)}
            BY <5>1, <5>2, ScriptFields
          <5> QED BY <5>3
        <4>2. \/ groups' = groups \ {s.on[2]} /\ caddyGroups' = caddyGroups \ {s.on[2]}
              \/ UNCHANGED <<groups, caddyGroups>>
          BY <3>4, GroupSteps
        <4>3. \A m \in Names \ {n} : m # s.on[2]
          BY <1>0, <4>1 DEF Apart, IdsOf
        <4> QED BY <2>2, <3>1, <3>2, <3>3, <4>2, <4>3 DEF InStepInv, MembershipInv, InStep, Applied
      <3>5. CASE ~UserdelStep(s)
        <4>1. ~JoinStep(s) /\ ~LeaveStep(s) /\ ~RestartCaddyStep(s)
          BY <2>4 DEF RmStep, DropStep, DisableStep, RemoveTreeStep, StaleStep, UserdelStep,
                 DaemonReloadStep, ReloadCaddyStep, JoinStep, LeaveStep, RestartCaddyStep, Doing
        <4>2. UNCHANGED <<groups, caddyGroups>>
          BY <2>4, <3>5, <4>1, GroupSteps
        <4> QED BY <2>2, <3>1, <3>2, <3>3, <4>2 DEF InStepInv, MembershipInv, InStep, Applied
      <3> QED BY <3>4, <3>5
    <2> QED BY <1>4, <2>3, <2>4, KindPhases
  <1> QED BY <1>1, <1>2, <1>3, <1>4, StepKinds

\* So does every step of the specification, and every stutter.
LEMMA NextKeepsAccess ==
    ASSUME Apart, CommonInv, MembershipInv, [Next]_vars
    PROVE  MembershipInv' /\ (CaddyRestarts /\ InStepInv => InStepInv')
  <1>1. CASE \E s \in Todo : ApplyNext(s) \/ RmNext(s) \/ Rejected(s) \/ Fault(s)
    BY <1>1, CommandKeepsAccess DEF Todo
  <1>2. CASE \E n \in Names : BeginRm(n) \/ \E t \in Targets : BeginApply(n, t)
    <2>1. PICK n \in Names : BeginRm(n) \/ \E t \in Targets : BeginApply(n, t)
      BY <1>2
    <2>2. /\ job = None /\ ~Planned' /\ told' = [told EXCEPT ![n] = None]
          /\ UNCHANGED <<groups, caddyGroups>>
      BY <2>1, Begun DEF accounts, daemons, gids
    <2>3. \A m \in Names : Applied(m)' => Applied(m) /\ told'[m] = told[m]
      BY <2>2, ReportsAssumption DEF Applied, CommonInv, ToldInv
    <2> QED BY <2>2, <2>3 DEF InStepInv, MembershipInv, InStep, Rejoining, Planned
  <1>3. CASE \/ \E id \in AdminIds : AdminAddsUser(id)
             \/ \E k \in AdminNames : AdminChmods(k)
             \/ \E m \in Writers : AppWrites(m)
             \/ UNCHANGED vars
    <2>1. UNCHANGED <<groups, caddyGroups, job, told>>
      BY <1>3 DEF AdminAddsUser, TakeGid, AdminChmods, AppWrites, vars, host, accounts, daemons, gids
    <2>2. /\ Planned' <=> Planned
          /\ Rejoining' <=> Rejoining
          /\ MembershipPlanned' <=> MembershipPlanned
      BY <2>1 DEF Planned, Ordered, Due, After, Rejoining, MembershipPlanned
    <2> QED BY <2>1, <2>2 DEF InStepInv, MembershipInv, InStep, Applied
  <1> QED BY <1>1, <1>2, <1>3 DEF Next

\* Where no gateway has the name of another unit, and no apply fails at the restart of
\* Caddy: Caddy's process is in the group of every unit reported as static, and of no
\* other unit that was reported but by an id it has kept of a removed unit's group and
\* that useradd has issued again, whatever failed before (Promises.CaddyAccess).
THEOREM CaddyFollows == Apart /\ CaddyRestarts => (Spec => []CaddyAccess)
  <1> SUFFICES ASSUME Apart, CaddyRestarts PROVE Spec => []CaddyAccess
    OBVIOUS
  <1>1. Init => InStepInv /\ MembershipInv
    <2> SUFFICES ASSUME Init PROVE InStepInv /\ MembershipInv
      OBVIOUS
    <2>1. job = None /\ groups = {} /\ caddyGroups = {} /\ \A n \in Names : told[n] = None
      BY DEF Init, SystemInit
    <2> QED BY <2>1, ReportsAssumption DEF InStepInv, MembershipInv, InStep, Applied, Planned
  <1>2. CommonInv /\ InStepInv /\ MembershipInv /\ [Next]_vars => InStepInv' /\ MembershipInv'
    BY NextKeepsAccess
  <1>3. CommonInv /\ [Next]_vars => CommonInv'
    BY NextKeepsCommon
  <1>4. CommonInv /\ InStepInv /\ MembershipInv => CaddyAccess
    <2> SUFFICES ASSUME CommonInv, InStepInv, MembershipInv, NEW n \in Names, Applied(n)
                 PROVE  /\ n \in groups <=> told[n].kind = "static"
                        /\ n \in caddyGroups <=> told[n].kind = "static"
      BY DEF CaddyAccess
    <2>1. ~(job.unit = n /\ Rejoining)
      BY ReportsAssumption DEF Rejoining, Planned, CommonInv, ToldInv, Applied
    <2> QED BY <2>1 DEF InStepInv, MembershipInv, InStep
  <1> QED BY <1>1, <1>2, <1>3, <1>4, InitCommon, PTL DEF Spec

-----------------------------------------------------------------------------
(* The environment of a script was built from that script.                 *)

Script(n) == Page(n, Entry)

\* What a script with dependencies can hold, and the scripts that say so.
Declaring == {t.pages[Entry] : t \in {u \in Targets : u.deps}}

\* Whatever publishes such a script is taken for one with dependencies.
ScriptsTell ==
    \A t \in Targets : Entry \in DOMAIN t.pages /\ t.pages[Entry] \in Declaring => t.deps

Synced(n) == file[Cache(n)] = file[Script(n)]

\* An apply has written its script and is about to clear the marker.
Resyncing == Planned /\ Pending("unmark", Marker(job.unit)) /\ After(13)

\* What an apply still has to do about the environment.
SyncPlanned(n, t) ==
    /\ t.deps => Exists(Marker(n)) \/ Pending("mark", Marker(n))
    /\ Pending("unmark", Marker(n)) => Pending("sync", Cache(n))
    /\ Pending("sync", Cache(n)) => Pending("mark", Marker(n))
    /\ Pending("mark", Marker(n)) => t.deps /\ (Synced(n) \/ Pending("sync", Cache(n)))
    /\ t.deps /\ Pending("write", Script(n)) => Pending("unmark", Marker(n))
    /\ t.deps => \A s \in job.todo : s.at = 13 => s.on = Script(n)

\* A marker says that the environment is the script's.
Marked(n) == Exists(Marker(n)) /\ file[Script(n)] \in Declaring => Synced(n)

MarkedInv == \A n \in Names : Marked(n) \/ (job.unit = n /\ Resyncing)

SyncInv ==
    /\ Planned => SyncPlanned(job.unit, job.target)
    /\ \A n \in Names : Applied(n) /\ told[n].deps => Exists(Marker(n))

\* No apply fails between writing a script and clearing its marker.
MarkersCleared == FaultVerbs \cap {"rm", Sweeping, "unmark"} = {}

\* The three files are files of the unit, and different ones.
LEMMA SyncNames ==
    ASSUME NEW n \in Names
    PROVE  /\ Script(n) \in Files /\ Cache(n) \in Files /\ Marker(n) \in Files
           /\ \A f \in {Script(n), Cache(n), Marker(n)} : f[2] = n /\ \A m : f # Data(m)
           /\ Script(n) # Cache(n) /\ Script(n) # Marker(n) /\ Cache(n) # Marker(n)
           /\ DirOf(Cache(n)) = DirOf(Marker(n))
  <1>1. Script(n) \in Files /\ Cache(n) \in Files /\ Marker(n) \in Files
    BY FilesOfHost, NamesAssumption DEF Script
  <1>2. /\ \A f \in {Script(n), Cache(n), Marker(n)} : f[2] = n /\ \A m : f # Data(m)
        /\ Script(n) # Cache(n) /\ Script(n) # Marker(n) /\ Cache(n) # Marker(n)
    BY DEF Script, Page, Cache, Marker, Data
  <1>3. DirOf(Cache(n)) = DirOf(Marker(n))
    BY DEF DirOf, Cache, Marker
  <1> QED BY <1>1, <1>2, <1>3

\* Their places in a plan.
LEMMA SyncPlaces ==
    ASSUME NEW n, NEW s, Slot(n, s)
    PROVE  /\ s.at \in 1..29
           /\ s.verb = "unmark" <=> s.at = 15
           /\ s.verb = "sync" <=> s.at = 16
           /\ s.verb = "mark" <=> s.at = 17
           /\ s.verb = "rm" => s.at = 14
           /\ s.at = 14 => s.verb \in {"rm", Sweeping}
           /\ s.verb = "write" => s.at \in 9..13
           /\ s.at = 13 => s = Action(13, "write", s.on)
           /\ s.verb = "write" => s = Action(WriteAt(n, s.on), "write", s.on)
  <1>0. s.at \in 1..29
    BY SlotNumbers
  <1>1. CASE s \in Fixed(n)
    <2>1. s.verb \notin Preparing
      BY <1>1, FixedNotPreparing
    <2>2. s.at \in {20} \cup 23..29
      BY <1>1, FixedPlaces DEF Fixed
    <2> QED BY <1>0, <2>1, <2>2 DEF Preparing
  <1>2. CASE s \notin Fixed(n)
    <2>1. s.verb = "write" => s.at = WriteAt(n, s.on) /\ s = Action(WriteAt(n, s.on), "write", s.on)
      BY <1>2 DEF Slot, Action
    <2>2. WriteAt(n, s.on) \in 9..13
      BY DEF WriteAt
    <2> QED BY <1>0, <1>2, <2>1, <2>2, SweepingVerb DEF Slot, Preparing
  <1> QED BY <1>1, <1>2

\* What was planned stays so, but for the step that is done.
LEMMA StaysPending ==
    ASSUME NEW s, job'.todo = job.todo \ {s}, NEW verb, NEW f
    PROVE  /\ Pending(verb, f)' => Pending(verb, f)
           /\ s.verb # verb /\ Pending(verb, f) => Pending(verb, f)'
  BY DEF Pending

\* What an apply does to the files of its unit.
LEMMA ApplyFiles ==
    ASSUME CommonInv, Planned, Applying, NEW s \in job.todo, ApplyStep(s) \/ CommitStep(s),
           NEW n, n = job.unit, NEW t, t = job.target
    PROVE  \/ /\ s.verb = "write" /\ s.on \in RenderedFiles(n, t)
              /\ file' = [file EXCEPT ![s.on] = Rendered(n, t, job.secret, s.on)]
           \/ /\ s.verb = "rm" /\ s.on \notin RenderedFiles(n, t) /\ s.on \in {Page(n, p) : p \in Pages}
              /\ file' = [file EXCEPT ![s.on] = None]
           \/ s.verb = "unmark" /\ s.on = Marker(n) /\ file' = [file EXCEPT ![s.on] = None]
           \/ s.verb = "sync" /\ s.on = Cache(n) /\ file' = [file EXCEPT ![s.on] = file[Script(n)]]
           \/ s.verb = "mark" /\ s.on = Marker(n) /\ file' = [file EXCEPT ![s.on] = Present]
           \/ s.verb \notin {"write", "rm", "unmark", "sync", "mark"} /\ UNCHANGED file
  <1>1. ApplyActionOf(n, s)
    BY DEF Applying
  <1>2. Underway
    BY PlannedUnderway DEF CommonInv
  <1>3. CASE WriteStep(s)
    BY <1>2, <1>3 DEF WriteStep, Doing, Write, Underway
  <1>4. CASE StaleStep(s)
    <2>1. s.verb = "rm" /\ file' = [file EXCEPT ![s.on] = None]
      BY <1>4 DEF StaleStep, Doing, Remove
    <2>2. s.on \notin RenderedFiles(n, t)
      BY <1>2, <2>1 DEF Underway
    <2>3. s.on \in {Page(n, p) : p \in Pages}
      BY <1>1, <2>1 DEF ApplyActionOf
    <2> QED BY <2>1, <2>2, <2>3
  <1>5. CASE UnmarkStep(s)
    <2>1. s.verb = "unmark" /\ file' = [file EXCEPT ![s.on] = None]
      BY <1>5 DEF UnmarkStep, Doing, Remove
    <2>2. s.on = Marker(n)
      BY <1>1, <2>1 DEF ApplyActionOf
    <2> QED BY <2>1, <2>2
  <1>6. CASE SyncStep(s)
    <2>1. s.verb = "sync" /\ file' = [file EXCEPT ![s.on] = file[Script(n)]]
      BY <1>6 DEF SyncStep, Doing, Write, Script
    <2>2. s.on = Cache(n)
      BY <1>1, <2>1 DEF ApplyActionOf
    <2> QED BY <2>1, <2>2
  <1>7. CASE MarkStep(s)
    <2>1. s.verb = "mark" /\ file' = [file EXCEPT ![s.on] = Present]
      BY <1>7 DEF MarkStep, Doing, Write
    <2>2. s.on = Marker(n)
      BY <1>1, <2>1 DEF ApplyActionOf
    <2> QED BY <2>1, <2>2
  <1>8. CASE ~WriteStep(s) /\ ~StaleStep(s) /\ ~UnmarkStep(s) /\ ~SyncStep(s) /\ ~MarkStep(s)
    <2>1. s.verb \notin {"write", "rm", "unmark", "sync", "mark"}
      BY <1>8, SweepStepVerb, SweepingVerb DEF ApplyStep, UserStep, MkdirStep, ChmodStep, GiveStep, JoinStep, LeaveStep,
             RestartCaddyStep, DaemonReloadStep, StartStep, ReloadCaddyStep, FlushStep, CommitStep,
             Doing
    <2>2. UNCHANGED file
      BY <1>8 DEF ApplyStep, UserStep, MkdirStep, Mkdir, ChmodStep, Chmod, GiveStep, GiveTree,
             JoinStep, LeaveStep, RestartCaddyStep, DaemonReloadStep, StartStep, Start,
             ReloadCaddyStep, FlushStep, CommitStep, SweepStep, RemoveTemp, tree, host
    <2> QED BY <2>1, <2>2
  <1> QED BY <1>3, <1>4, <1>5, <1>6, <1>7, <1>8

\* The part of a plan that is about the environment.
LEMMA DependencyPart ==
    ASSUME NEW n \in Names, NEW t \in Targets, NEW secret,
           NEW r \in Build(n, t, secret) \cup Ending(n)
    PROVE  /\ r.verb \in {"unmark", "sync", "mark"} => DependencyActions(n, t, secret) # {}
           /\ r.verb = "write" => r.on \in ToWrite(n, t, secret)
  <1>1. r.verb \in {"unmark", "sync", "mark"} => r \in DependencyActions(n, t, secret)
    BY BuildParts DEF Preparing
  <1> QED BY <1>1, BuildFiles

\* What a target writes last is its script, if it has dependencies.
LEMMA ScriptIsLast ==
    ASSUME NEW n \in Names, NEW t \in Targets, t.deps, NEW f \in RenderedFiles(n, t),
           WriteAt(n, f) = 13
    PROVE  f = Script(n)
  <1>1. f \in PagesOf(n, t)
    BY DEF RenderedFiles, WriteAt
  <1> QED BY <1>1, TargetsAssumption DEF PagesOf, Script

\* What is planned about the environment is enough.
LEMMA PutSync ==
    ASSUME CommonInv, NEW s, PutIncomplete(s), job.op = "apply", NEW n, n = job.unit
    PROVE  SyncPlanned(job.unit, job.target)' /\ n = job'.unit /\ UNCHANGED <<file, told>>
  <1>1. PICK m \in Names, t \in Targets : \E secret \in SecretsFor(m) :
            /\ m = job.unit /\ m = job'.unit /\ t = job.target /\ t = job'.target
            /\ job'.todo = Build(m, t, secret) \cup Ending(m)
            /\ UNCHANGED <<host, told>>
    BY PutPlan DEF CommonInv
  <1>2. m = n /\ n \in Names /\ UNCHANGED <<file, told>>
    BY <1>1 DEF host, tree
  <1>3. PICK secret \in SecretsFor(n) : job'.todo = Build(n, t, secret) \cup Ending(n)
    BY <1>1
  <1> DEFINE Planning == t.deps /\ (~Exists(Marker(n)) \/ Script(n) \in ToWrite(n, t, secret))
             All == {Action(15, "unmark", Marker(n)), Action(16, "sync", Cache(n)),
                     Action(17, "mark", Marker(n))}
  <1>4. DependencyActions(n, t, secret) = When(Planning, All)
    BY DEF DependencyActions, Script
  <1>5. DependencyActions(n, t, secret) \subseteq job'.todo
    BY <1>3, PartsOfBuild
  <1>6. ASSUME Planning
        PROVE  /\ Pending("unmark", Marker(n))' /\ Pending("sync", Cache(n))'
               /\ Pending("mark", Marker(n))'
    <2>1. All \subseteq job'.todo
      BY <1>4, <1>5, <1>6 DEF When
    <2>2. /\ Action(15, "unmark", Marker(n)) \in job'.todo
          /\ Action(16, "sync", Cache(n)) \in job'.todo
          /\ Action(17, "mark", Marker(n)) \in job'.todo
      BY <2>1
    <2>3. \A at, verb, on : Action(at, verb, on).verb = verb /\ Action(at, verb, on).on = on
      BY DEF Action
    <2> QED BY <2>2, <2>3 DEF Pending
  <1>7. ASSUME ~Planning
        PROVE  /\ ~Pending("unmark", Marker(n))' /\ ~Pending("sync", Cache(n))'
               /\ ~Pending("mark", Marker(n))'
    <2>1. DependencyActions(n, t, secret) = {}
      BY <1>4, <1>7 DEF When
    <2>2. \A r \in job'.todo : r.verb \notin {"unmark", "sync", "mark"}
      BY <1>2, <1>3, <2>1, DependencyPart
    <2> QED BY <2>2 DEF Pending
  <1>8. Pending("write", Script(n))' => Script(n) \in ToWrite(n, t, secret)
    <2>1. \A r \in job'.todo : r.verb = "write" => r.on \in ToWrite(n, t, secret)
      BY <1>2, <1>3, DependencyPart
    <2> QED BY <2>1 DEF Pending
  <1>9. ASSUME t.deps, NEW r \in job'.todo, r.at = 13
        PROVE  r.on = Script(n)
    <2>1. Slot(n, r)
      BY <1>3, BuildSlots
    <2>2. r = Action(13, "write", r.on) /\ r.verb = "write"
      BY <1>9, <2>1, SyncPlaces DEF Action
    <2>3. WriteAt(n, r.on) = 13
      <3>1. r = Action(WriteAt(n, r.on), "write", r.on)
        BY <2>1, <2>2, SyncPlaces
      <3> QED BY <1>9, <3>1 DEF Action
    <2>4. r.on \in RenderedFiles(n, t)
      BY <1>2, <1>3, <2>2, DependencyPart DEF ToWrite
    <2> QED BY <1>2, <1>9, <2>3, <2>4, ScriptIsLast
  <1>10. /\ t.deps => Exists(Marker(n))' \/ Pending("mark", Marker(n))'
         /\ t.deps /\ Pending("write", Script(n))' => Pending("unmark", Marker(n))'
    BY <1>2, <1>6, <1>8 DEF Exists
  <1>11. /\ Pending("unmark", Marker(n))' => Pending("sync", Cache(n))'
         /\ Pending("sync", Cache(n))' => Pending("mark", Marker(n))'
         /\ Pending("mark", Marker(n))' => t.deps /\ Pending("sync", Cache(n))'
    BY <1>6, <1>7
  <1>12. t.deps => \A r \in job'.todo : r.at = 13 => r.on = Script(n)
    BY <1>9
  <1>13. SyncPlanned(n, t)'
    BY <1>10, <1>11, <1>12 DEF SyncPlanned
  <1> QED BY <1>1, <1>2, <1>13

\* Where there is nothing to do, the marker is there.
LEMMA NoChangesSync ==
    ASSUME CommonInv, NEW s, NoChanges(s), NEW n, n = job.unit, NEW t, t = job.target, t.deps
    PROVE  Exists(Marker(n))
  <1>1. PICK secret \in SecretsFor(n) : Build(n, t, secret) = {}
    BY DEF NoChanges
  <1>2. DependencyActions(n, t, secret) = {}
    BY <1>1, PartsOfBuild
  <1> QED BY <1>2 DEF DependencyActions, When

\* A command that ends has not left a marker behind that it was to clear.
LEMMA EndsSynced ==
    ASSUME MarkersCleared, CommonInv, job # None, NEW s \in job.todo, Ends(s)
    PROVE  ~Resyncing
  <1> SUFFICES ASSUME Resyncing PROVE FALSE
    OBVIOUS
  <1>1. First(s) /\ s.verb \notin {"plan", "load"} /\ job.op = "apply"
    BY PlannedVerbs DEF Resyncing, Planned, Ends, Refuse, NoChanges, PrintStep, Rejected, Fault,
           NotFound, PruneStep, Doing
  <1>2. \A r \in job.todo : Slot(job.unit, r) /\ 13 < r.at /\ s.at <= r.at
    BY <1>1 DEF Resyncing, Planned, Ordered, After, First
  <1>3. PICK r \in job.todo : r.verb = "unmark"
    BY DEF Resyncing, Pending
  <1>4. r.at = 15 /\ s.at \in 1..29
    BY <1>2, <1>3, SyncPlaces
  <1>5. s.at = 14 \/ s.at = 15
    BY <1>2, <1>4
  <1>6. s.verb \in {"rm", Sweeping, "unmark"}
    BY <1>2, <1>5, SyncPlaces
  <1>7. ~Fault(s) /\ ~PrintStep(s)
    BY <1>6, SweepingVerb DEF Fault, MarkersCleared, PrintStep, Doing
  <1>8. ~Rejected(s) /\ ~PruneStep(s) /\ ~Refuse(s) /\ ~NoChanges(s) /\ ~NotFound(s)
    BY <1>6, SweepingVerb DEF Rejected, PruneStep, Refuse, NoChanges, NotFound, Doing
  <1> QED BY <1>7, <1>8 DEF Ends

\* A step of an apply keeps what its marker says, and what it has planned.
LEMMA ApplyKeepsMarked ==
    ASSUME CommonInv, Planned, Applying, NEW s \in job.todo, First(s),
           ApplyStep(s) \/ CommitStep(s), NEW n \in Names, n = job.unit,
           NEW t \in Targets, t = job.target,
           job'.todo = job.todo \ {s}, SyncPlanned(n, t)
    PROVE  /\ SyncPlanned(n, t)'
           /\ ScriptsTell /\ (Marked(n) \/ (Pending("unmark", Marker(n)) /\ After(13)))
                => Marked(n)' \/ (Pending("unmark", Marker(n)) /\ After(13))'
  <1> DEFINE Late == Pending("unmark", Marker(n)) /\ After(13)
  <1>1. \A r \in job.todo : /\ Slot(n, r) /\ s.at <= r.at
                            /\ r.at \in 1..29 /\ s.at \in 1..29
    BY SlotNumbers DEF Planned, Ordered, First
  <1>2. \A r \in job.todo : /\ r.verb = "unmark" <=> r.at = 15
                            /\ r.verb = "sync" <=> r.at = 16
                            /\ r.verb = "mark" <=> r.at = 17
                            /\ r.at = 13 => r = Action(13, "write", r.on)
    BY <1>1, SyncPlaces
  <1>3. /\ s.verb \notin {"unmark", "sync", "mark"} =>
               /\ Pending("unmark", Marker(n)) <=> Pending("unmark", Marker(n))'
               /\ Pending("sync", Cache(n)) <=> Pending("sync", Cache(n))'
               /\ Pending("mark", Marker(n)) <=> Pending("mark", Marker(n))'
        /\ Pending("write", Script(n))' => Pending("write", Script(n))
        /\ t.deps => \A r \in job'.todo : r.at = 13 => r.on = Script(n)
        /\ Late /\ s.verb # "unmark" => Late'
    <2>1. After(13) => After(13)'
      BY DEF After
    <2>2. t.deps => \A r \in job'.todo : r.at = 13 => r.on = Script(n)
      BY DEF SyncPlanned
    <2> QED BY <2>1, <2>2, StaysPending
  <1>4. /\ Script(n) \in Files /\ Cache(n) \in Files /\ Marker(n) \in Files /\ DOMAIN file = Files
        /\ Script(n) # Cache(n) /\ Script(n) # Marker(n) /\ Cache(n) # Marker(n)
    BY SyncNames DEF CommonInv, FilesTyped
  <1>5. CASE /\ s.verb = "write" /\ s.on \in RenderedFiles(n, t)
             /\ file' = [file EXCEPT ![s.on] = Rendered(n, t, job.secret, s.on)]
    <2>1. file'[Cache(n)] = file[Cache(n)] /\ file'[Marker(n)] = file[Marker(n)]
      BY <1>4, <1>5, RenderedNames
    <2>2. CASE s.on # Script(n)
      <3>1. file'[Script(n)] = file[Script(n)]
        BY <1>4, <1>5, <2>2
      <3>2. /\ Marked(n)' <=> Marked(n)
            /\ Synced(n)' <=> Synced(n)
            /\ Exists(Marker(n))' <=> Exists(Marker(n))
        BY <2>1, <3>1 DEF Marked, Synced, Exists
      <3>3. SyncPlanned(n, t)'
        BY <1>3, <1>5, <3>2 DEF SyncPlanned
      <3> QED BY <1>3, <1>5, <3>2, <3>3
    <2>3. CASE s.on = Script(n)
      <3>1. Pending("write", Script(n))
        BY <1>5, <2>3 DEF Pending
      <3>2. t.deps => Pending("unmark", Marker(n)) /\ Pending("sync", Cache(n))
        BY <3>1 DEF SyncPlanned
      <3>3. Exists(Marker(n))' <=> Exists(Marker(n))
        BY <2>1 DEF Exists
      <3>4. SyncPlanned(n, t)'
        BY <1>3, <1>5, <3>2, <3>3 DEF SyncPlanned
      <3>5. CASE t.deps
        <4>1. ASSUME NEW r \in job'.todo PROVE 13 < r.at
          <5>1. s.at = WriteAt(n, s.on)
            <6>1. s = Action(WriteAt(n, s.on), "write", s.on)
              BY <1>1, <1>5, SyncPlaces
            <6> QED BY <6>1 DEF Action
          <5>2. s.at = 13
            <6>1. /\ Script(n) # Vhost(n) /\ Script(n) # Env(n) /\ Script(n) # Service(n)
                  /\ Script(n) # Service(Gw[n])
              BY DEF Script, Page, Vhost, Env, Service
            <6> QED BY <2>3, <5>1, <6>1 DEF WriteAt
          <5>3. r \in job.todo /\ r # s /\ 13 <= r.at /\ r.at \in 1..29
            BY <1>1, <5>2
          <5>4. r.at # 13
            <6> SUFFICES ASSUME r.at = 13 PROVE FALSE
              OBVIOUS
            <6>1. r.on = Script(n)
              BY <1>3, <3>5
            <6>2. r = Action(13, "write", r.on) /\ s = Action(13, "write", s.on)
              BY <1>2, <5>2, <5>3
            <6> QED BY <2>3, <5>3, <6>1, <6>2
          <5> QED BY <5>3, <5>4
        <4>2. After(13)'
          BY <4>1 DEF After
        <4> QED BY <1>3, <1>5, <3>2, <3>4, <3>5, <4>2
      <3>6. CASE ~t.deps
        <4>1. file'[Script(n)] = t.pages[Entry]
          BY <1>4, <1>5, <2>3, RenderedPage DEF Script
        <4>2. Entry \in DOMAIN t.pages
          <5>1. /\ Script(n) # Vhost(n) /\ Script(n) # Env(n) /\ Script(n) # Service(n)
                /\ Script(n) # Service(Gw[n])
            BY DEF Script, Page, Vhost, Env, Service
          <5>2. Script(n) \in PagesOf(n, t)
            BY <1>5, <2>3, <5>1 DEF RenderedFiles
          <5> QED BY <5>2 DEF PagesOf, Script, Page
        <4>3. ScriptsTell => file'[Script(n)] \notin Declaring
          BY <3>6, <4>1, <4>2 DEF ScriptsTell
        <4>4. ScriptsTell => Marked(n)'
          BY <4>3 DEF Marked
        <4> QED BY <3>4, <4>4
      <3> QED BY <3>5, <3>6
    <2> QED BY <2>2, <2>3
  <1>6. CASE /\ s.verb = "rm" /\ s.on \notin RenderedFiles(n, t) /\ s.on \in {Page(n, p) : p \in Pages}
             /\ file' = [file EXCEPT ![s.on] = None]
    <2>1. s.on # Cache(n) /\ s.on # Marker(n)
      BY <1>6 DEF Page, Cache, Marker
    <2>2. file'[Cache(n)] = file[Cache(n)] /\ file'[Marker(n)] = file[Marker(n)]
      BY <1>4, <1>6, <2>1
    <2>3. Exists(Marker(n))' <=> Exists(Marker(n))
      BY <2>2 DEF Exists
    <2>4. CASE s.on # Script(n)
      <3>1. file'[Script(n)] = file[Script(n)]
        BY <1>4, <1>6, <2>4
      <3>2. (Marked(n)' <=> Marked(n)) /\ (Synced(n)' <=> Synced(n))
        BY <2>2, <2>3, <3>1 DEF Marked, Synced
      <3>3. SyncPlanned(n, t)'
        BY <1>3, <1>6, <2>3, <3>2 DEF SyncPlanned
      <3> QED BY <1>3, <1>6, <3>2, <3>3
    <2>5. CASE s.on = Script(n)
      <3>1. ~t.deps
        BY <1>6, <2>5, TargetsAssumption DEF RenderedFiles, PagesOf, Script
      <3>2. SyncPlanned(n, t)'
        BY <1>3, <1>6, <2>3, <3>1 DEF SyncPlanned
      <3>3. file'[Script(n)] = None
        BY <1>4, <1>6, <2>5
      <3>4. None \notin Declaring
        BY TargetsAssumption, NothingAssumption DEF Declaring
      <3> QED BY <3>2, <3>3, <3>4 DEF Marked
    <2> QED BY <2>4, <2>5
  <1>7. CASE s.verb = "unmark" /\ s.on = Marker(n) /\ file' = [file EXCEPT ![s.on] = None]
    <2>1. /\ file'[Marker(n)] = None /\ file'[Script(n)] = file[Script(n)]
          /\ file'[Cache(n)] = file[Cache(n)]
      BY <1>4, <1>7
    <2>2. Marked(n)' /\ (Synced(n)' <=> Synced(n))
      BY <2>1 DEF Marked, Synced, Exists
    <2>3. Pending("unmark", Marker(n))
      BY <1>7 DEF Pending
    <2>4. /\ Pending("sync", Cache(n)) <=> Pending("sync", Cache(n))'
          /\ Pending("mark", Marker(n)) <=> Pending("mark", Marker(n))'
      BY <1>7, StaysPending
    <2>5. ~Pending("write", Script(n))'
      <3>1. \A r \in job.todo : r.verb # "write"
        <4> SUFFICES ASSUME NEW r \in job.todo, r.verb = "write" PROVE FALSE
          OBVIOUS
        <4>1. r.at \in 9..13
          BY <1>1, SyncPlaces
        <4>2. s.at = 15 /\ s.at <= r.at
          BY <1>1, <1>2, <1>7
        <4> QED BY ONLY <4>1, <4>2
      <3> QED BY <3>1 DEF Pending
    <2> QED BY <1>3, <2>2, <2>3, <2>4, <2>5 DEF SyncPlanned
  <1>8. CASE s.verb = "sync" /\ s.on = Cache(n) /\ file' = [file EXCEPT ![s.on] = file[Script(n)]]
    <2>1. /\ file'[Marker(n)] = file[Marker(n)] /\ file'[Script(n)] = file[Script(n)]
          /\ file'[Cache(n)] = file[Script(n)]
      BY <1>4, <1>8
    <2>2. Marked(n)' /\ Synced(n)'
      BY <2>1 DEF Marked, Synced, Exists
    <2>3. ~Pending("unmark", Marker(n)) /\ ~Pending("write", Script(n))
      <3>1. \A r \in job.todo : r.verb # "write" /\ r.verb # "unmark"
        <4> SUFFICES ASSUME NEW r \in job.todo, r.verb \in {"write", "unmark"} PROVE FALSE
          OBVIOUS
        <4>1. r.at \in 9..15
          BY <1>1, SyncPlaces
        <4>2. s.at = 16 /\ s.at <= r.at
          BY <1>1, <1>2, <1>8
        <4> QED BY ONLY <4>1, <4>2
      <3> QED BY <3>1 DEF Pending
    <2>4. /\ ~Pending("unmark", Marker(n))' /\ ~Pending("write", Script(n))'
          /\ Pending("sync", Cache(n))' => Pending("sync", Cache(n))
          /\ Pending("mark", Marker(n)) <=> Pending("mark", Marker(n))'
      BY <1>8, <2>3, StaysPending
    <2>5. Exists(Marker(n))' <=> Exists(Marker(n))
      BY <2>1 DEF Exists
    <2> QED BY <1>3, <2>2, <2>4, <2>5 DEF SyncPlanned
  <1>9. CASE s.verb = "mark" /\ s.on = Marker(n) /\ file' = [file EXCEPT ![s.on] = Present]
    <2>1. /\ file'[Marker(n)] = Present /\ file'[Script(n)] = file[Script(n)]
          /\ file'[Cache(n)] = file[Cache(n)]
      BY <1>4, <1>9
    <2>2. \A r \in job.todo : r.verb \notin {"write", "unmark", "sync"}
      <3> SUFFICES ASSUME NEW r \in job.todo, r.verb \in {"write", "unmark", "sync"} PROVE FALSE
        OBVIOUS
      <3>1. r.at \in 9..16
        BY <1>1, SyncPlaces
      <3>2. s.at = 17 /\ s.at <= r.at
        BY <1>1, <1>2, <1>9
      <3> QED BY ONLY <3>1, <3>2
    <2>3. /\ ~Pending("unmark", Marker(n)) /\ ~Pending("write", Script(n))
          /\ ~Pending("sync", Cache(n)) /\ Pending("mark", Marker(n))
      BY <1>9, <2>2 DEF Pending
    <2>4. Synced(n) /\ t.deps
      BY <2>3 DEF SyncPlanned
    <2>5. Synced(n)' /\ Exists(Marker(n))'
      BY <2>1, <2>4, NothingAssumption DEF Synced, Exists
    <2>6. /\ ~Pending("unmark", Marker(n))' /\ ~Pending("write", Script(n))'
          /\ ~Pending("sync", Cache(n))'
      BY <2>3, StaysPending
    <2> QED BY <1>3, <2>4, <2>5, <2>6 DEF SyncPlanned, Marked
  <1>10. CASE s.verb \notin {"write", "rm", "unmark", "sync", "mark"} /\ UNCHANGED file
    <2>1. /\ Marked(n)' <=> Marked(n)
          /\ Synced(n)' <=> Synced(n)
          /\ Exists(Marker(n))' <=> Exists(Marker(n))
      BY <1>10 DEF Marked, Synced, Exists
    <2>2. SyncPlanned(n, t)'
      BY <1>3, <1>10, <2>1 DEF SyncPlanned
    <2> QED BY <1>3, <1>10, <2>1, <2>2
  <1> QED BY <1>5, <1>6, <1>7, <1>8, <1>9, <1>10, ApplyFiles

\* A removal takes the environment and its marker together.
LEMMA RemovalKeepsMarked ==
    ASSUME CommonInv, Removing, NEW s \in job.todo, RmStep(s) \/ DropStep(s),
           NEW n \in Names, n = job.unit, Marked(n)
    PROVE  Marked(n)'
  <1>1. /\ Script(n) \in Files /\ Cache(n) \in Files /\ Marker(n) \in Files /\ DOMAIN file = Files
        /\ Script(n) # Cache(n) /\ Script(n) # Marker(n) /\ Cache(n) # Marker(n)
        /\ DirOf(Cache(n)) = DirOf(Marker(n))
    BY SyncNames DEF CommonInv, FilesTyped
  <1>2. None \notin Declaring
    BY TargetsAssumption, NothingAssumption DEF Declaring
  <1>3. CASE RemoveTreeStep(s)
    <2>1. file' = [f \in Files |-> IF DirOf(f) = s.on THEN None ELSE file[f]]
      BY <1>3 DEF RemoveTreeStep, RemoveTree
    <2>2. CASE DirOf(Marker(n)) = s.on
      <3>1. file'[Marker(n)] = None
        BY <1>1, <2>1, <2>2
      <3> QED BY <3>1 DEF Marked, Exists
    <2>3. CASE DirOf(Marker(n)) # s.on
      <3>1. file'[Marker(n)] = file[Marker(n)] /\ file'[Cache(n)] = file[Cache(n)]
        BY <1>1, <2>1, <2>3
      <3>2. file'[Script(n)] \in {None, file[Script(n)]}
        BY <1>1, <2>1
      <3> QED BY <1>2, <3>1, <3>2 DEF Marked, Exists, Synced
    <2> QED BY <2>2, <2>3
  <1>4. CASE StaleStep(s)
    <2>1. file' = [file EXCEPT ![s.on] = None]
      BY <1>4 DEF StaleStep, Remove
    <2>2. file'[Script(n)] \in {None, file[Script(n)]} /\ file'[Marker(n)] \in {None, file[Marker(n)]}
      BY <1>1, <2>1
    <2>3. s.on # Cache(n)
      <3>1. s \in RemovalScript(n)
        BY DEF Removing
      <3>2. \A at, verb, on : on # Cache(n) => Action(at, verb, on).on # Cache(n)
        BY DEF Action
      <3>3. /\ App(n) # Cache(n) /\ State(n) # Cache(n) /\ State(Gw[n]) # Cache(n)
            /\ Env(n) # Cache(n) /\ Vhost(n) # Cache(n)
            /\ Service(n) # Cache(n) /\ Service(Gw[n]) # Cache(n)
            /\ <<"service", n>> # Cache(n) /\ <<"service", Gw[n]>> # Cache(n)
            /\ <<"systemd">> # Cache(n) /\ <<"caddy">> # Cache(n) /\ <<"unit", n>> # Cache(n)
            /\ <<"lib">> # Cache(n) /\ <<"user", n>> # Cache(n) /\ <<"user", Gw[n]>> # Cache(n)
        BY DEF App, State, Env, Service, Vhost, Cache
      <3> QED BY <3>1, <3>2, <3>3, Zenon DEF RemovalScript, UserdelActions
    <2>4. file'[Cache(n)] = file[Cache(n)]
      BY <1>1, <2>1, <2>3
    <2> QED BY <1>2, <2>2, <2>4 DEF Marked, Exists, Synced
  <1>5. CASE ~RemoveTreeStep(s) /\ ~StaleStep(s)
    <2>1. UNCHANGED file
      BY <1>5 DEF RmStep, DisableStep, UserdelStep, DaemonReloadStep, ReloadCaddyStep, DropStep,
             tree, host
    <2> QED BY <2>1 DEF Marked, Exists, Synced
  <1> QED BY <1>3, <1>4, <1>5

\* The steps of a command keep that.
LEMMA CommandKeepsSync ==
    ASSUME Apart, CommonInv, SyncInv, job # None,
           NEW s \in job.todo, ApplyNext(s) \/ RmNext(s) \/ Rejected(s) \/ Fault(s)
    PROVE  SyncInv' /\ (ScriptsTell /\ MarkersCleared /\ MarkedInv => MarkedInv')
  <1>a. PICK n : n = job.unit
    OBVIOUS
  <1> DEFINE Told == ScriptsTell /\ MarkersCleared /\ MarkedInv
  <1> USE <1>a DEF CommonInv
  <1>0. n \in Names /\ told[n] = None
    BY DEF Inv, Typed, ToldInv
  <1>1. ASSUME NEW m \in Names \ {n}
        PROVE  /\ Told => Marked(m)'
               /\ Applied(m)' /\ told'[m].deps => Exists(Marker(m))'
    <2>1. \A f \in {Script(m), Cache(m), Marker(m)} : file'[f] = file[f]
      <3>1. /\ Script(m) \in Files /\ Cache(m) \in Files /\ Marker(m) \in Files
            /\ \A f \in {Script(m), Cache(m), Marker(m)} : f[2] = m
        BY SyncNames
      <3>2. \A f \in Files : file'[f] # file[f] => f[2] \notin IdsOf(m)
        BY <1>0, CommandOwn, OthersAlone
      <3> QED BY <3>1, <3>2 DEF IdsOf
    <2>2. told'[m] = told[m]
      BY ToldSteps
    <2> QED BY <2>1, <2>2 DEF SyncInv, MarkedInv, Marked, Synced, Exists, Applied
  <1>2. ASSUME Told => Marked(n)' \/ (job'.unit = n /\ Resyncing'),
               Planned' => SyncPlanned(job.unit, job.target)',
               Applied(n)' /\ told'[n].deps => Exists(Marker(n))'
        PROVE  SyncInv' /\ (ScriptsTell /\ MarkersCleared /\ MarkedInv => MarkedInv')
    BY <1>1, <1>2 DEF SyncInv, MarkedInv
  <1>3. CASE Ends(s)
    <2>1. job' = None /\ ~Planned' /\ UNCHANGED file
      BY <1>3, EndsJob DEF Planned
    <2>2. Told => Marked(n)'
      <3>1. Told => Marked(n)
        BY <1>0, <1>3, EndsSynced DEF MarkedInv
      <3> QED BY <2>1, <3>1 DEF Marked, Synced, Exists
    <2>3. Applied(n)' /\ told'[n].deps => Exists(Marker(n))'
      <3> SUFFICES ASSUME Applied(n)', told'[n].deps PROVE Exists(Marker(n))
        BY <2>1 DEF Exists
      <3>1. (PrintStep(s) \/ NoChanges(s)) /\ told'[n] = job.target
        BY ToldSteps
      <3>2. CASE NoChanges(s)
        BY <3>1, <3>2, NoChangesSync
      <3>3. CASE PrintStep(s)
        <4>1. Planned /\ \A r \in job.todo : 29 <= r.at /\ r.at \in 1..29 /\ Slot(n, r)
          BY <3>3, PrintIsLast, SlotNumbers DEF Planned, Ordered
        <4>2. ~Pending("mark", Marker(n))
          <5>1. \A r \in job.todo : r.at # 17
            BY <4>1
          <5> QED BY <4>1, <5>1, SyncPlaces DEF Pending
        <4>3. SyncPlanned(job.unit, job.target)
          BY <4>1 DEF SyncInv
        <4> QED BY <3>1, <4>2, <4>3 DEF SyncPlanned
      <3> QED BY <3>1, <3>2, <3>3
    <2> QED BY <1>2, <2>1, <2>2, <2>3
  <1>4. CASE PutIncomplete(s)
    <2>1. job.op = "apply" /\ s.verb = "plan"
      BY <1>4, KindPhases
    <2>2. ~Resyncing
      BY <2>1, PlannedVerbs DEF Resyncing
    <2>3. SyncPlanned(job.unit, job.target)' /\ UNCHANGED <<file, told>>
      BY <1>4, <2>1, PutSync
    <2>4. ~Applied(n)'
      BY <1>0, <2>3, ReportsAssumption DEF Applied
    <2>5. Told => Marked(n)'
      <3>1. Told => Marked(n)
        BY <1>0, <2>2 DEF MarkedInv
      <3> QED BY <2>3, <3>1 DEF Marked, Synced, Exists
    <2> QED BY <1>2, <2>3, <2>4, <2>5
  <1>5. CASE LoadUnit(s)
    <2>1. s.verb = "load" /\ job'.op = "rm" /\ UNCHANGED <<told, file>>
      BY <1>5, KindPhases DEF LoadUnit, Inv, Typed, JobFields, host, tree
    <2>2. ~Resyncing /\ ~Planned'
      BY <2>1, PlannedVerbs DEF Resyncing, Planned
    <2>3. Told => Marked(n)'
      <3>1. Told => Marked(n)
        BY <1>0, <2>2 DEF MarkedInv
      <3> QED BY <2>1, <3>1 DEF Marked, Synced, Exists
    <2>4. ~Applied(n)'
      BY <1>0, <2>1, ReportsAssumption DEF Applied
    <2> QED BY <1>2, <2>2, <2>3, <2>4
  <1>6. CASE Taken(s)
    <2>1. Done(s) /\ First(s) /\ s.verb # "print"
      BY <1>6, TakenDone
    <2>2. /\ job'.unit = n /\ job'.op = job.op /\ job'.target = job.target
          /\ job'.todo = job.todo \ {s} /\ UNCHANGED told
      BY <2>1 DEF Done, Inv, Typed, JobFields
    <2>3. ~Applied(n)'
      BY <1>0, <2>2, ReportsAssumption DEF Applied
    <2>4. CASE Applying /\ Ordered /\ (ApplyStep(s) \/ CommitStep(s))
      <3>1. Planned
        BY <2>4 DEF Planned, Applying
      <3>2. Planned'
        <4>2. job' # None
          BY <1>6, CommandGoesOn
        <4> QED BY <2>1, <2>4, <4>2, DoneOrdered DEF Planned
      <3>3. PICK t \in Targets : t = job.target
        BY <3>1 DEF Inv, Typed, Planned
      <3>4. /\ SyncPlanned(n, t)
            /\ Told => Marked(n) \/ (Pending("unmark", Marker(n)) /\ After(13))
        BY <1>0, <3>1, <3>3 DEF SyncInv, MarkedInv, Resyncing
      <3>5. /\ Told => Marked(n)' \/ (Pending("unmark", Marker(n)) /\ After(13))'
            /\ SyncPlanned(n, t)'
        BY <1>0, <2>1, <2>2, <2>4, <3>1, <3>3, <3>4, ApplyKeepsMarked
      <3>6. Told => Marked(n)' \/ (job'.unit = n /\ Resyncing')
        BY <2>2, <3>2, <3>5 DEF Resyncing
      <3>7. SyncPlanned(job.unit, job.target)'
        BY <2>2, <3>3, <3>5
      <3> QED BY <1>2, <2>3, <3>6, <3>7
    <2>5. CASE Removing /\ (RmStep(s) \/ DropStep(s))
      <3>1. ~Planned /\ ~Planned'
        BY <2>2, <2>5 DEF Removing, Planned
      <3>2. Told => Marked(n)
        BY <1>0, <3>1 DEF MarkedInv, Resyncing
      <3>3. Told => Marked(n)'
        BY <1>0, <2>5, <3>2, RemovalKeepsMarked
      <3> QED BY <1>2, <2>3, <3>1, <3>3
    <2> QED BY <1>6, <2>4, <2>5, KindPhases
  <1> QED BY <1>3, <1>4, <1>5, <1>6, StepKinds

\* So does every step of the specification, and every stutter.
LEMMA NextKeepsSync ==
    ASSUME Apart, CommonInv, SyncInv, [Next]_vars
    PROVE  SyncInv' /\ (ScriptsTell /\ MarkersCleared /\ MarkedInv => MarkedInv')
  <1>1. CASE \E s \in Todo : ApplyNext(s) \/ RmNext(s) \/ Rejected(s) \/ Fault(s)
    BY <1>1, CommandKeepsSync DEF Todo
  <1>2. CASE \E n \in Names : BeginRm(n) \/ \E t \in Targets : BeginApply(n, t)
    <2>1. PICK n \in Names : BeginRm(n) \/ \E t \in Targets : BeginApply(n, t)
      BY <1>2
    <2>2. job = None /\ ~Planned' /\ told' = [told EXCEPT ![n] = None] /\ UNCHANGED file
      BY <2>1, Begun
    <2>3. \A m \in Names : Applied(m)' => Applied(m) /\ told'[m] = told[m]
      BY <2>2, ReportsAssumption DEF Applied, CommonInv, ToldInv
    <2> QED BY <2>2, <2>3 DEF SyncInv, MarkedInv, Marked, Synced, Exists, Resyncing, Planned
  <1>3. CASE \/ \E id \in AdminIds : AdminAddsUser(id)
             \/ \E k \in AdminNames : AdminChmods(k)
             \/ \E m \in Writers : AppWrites(m)
             \/ UNCHANGED vars
    <2>1. UNCHANGED <<job, told>>
      BY <1>3 DEF AdminAddsUser, AdminChmods, AppWrites, vars
    <2>2. \A n \in Names : \A f \in {Script(n), Cache(n), Marker(n)} : file'[f] = file[f]
      <3>1. CASE (\E id \in AdminIds : AdminAddsUser(id)) \/ (\E k \in AdminNames : AdminChmods(k)) \/ UNCHANGED vars
        BY <3>1 DEF AdminAddsUser, AdminChmods, vars, host, tree
      <3>2. CASE \E m \in Writers : AppWrites(m)
        <4>1. PICK m \in Writers : AppWrites(m)
          BY <3>2
        <4>2. file' = [file EXCEPT ![Data(m)] = Present] /\ DOMAIN file = Files
          BY <4>1 DEF AppWrites, CommonInv, FilesTyped
        <4> QED BY <4>2, SyncNames
      <3> QED BY <1>3, <3>1, <3>2
    <2>3. \A n \in Names : /\ Marked(n)' <=> Marked(n)
                           /\ Synced(n)' <=> Synced(n)
                           /\ Exists(Marker(n))' <=> Exists(Marker(n))
      BY <2>2 DEF Marked, Synced, Exists
    <2>4. /\ Planned' <=> Planned
          /\ Resyncing' <=> Resyncing
      BY <2>1 DEF Planned, Ordered, Due, After, Resyncing, Pending
    <2>5. ASSUME Planned, SyncPlanned(job.unit, job.target)
          PROVE  SyncPlanned(job.unit, job.target)'
      <3>1. PICK n \in Names : n = job.unit
        BY <2>5 DEF Planned, CommonInv, Inv, Typed
      <3>2. PICK t : t = job.target
        OBVIOUS
      <3>3. SyncPlanned(n, t)'
        BY <2>1, <2>3, <2>5, <3>1, <3>2 DEF SyncPlanned, Pending
      <3> QED BY <2>1, <3>1, <3>2, <3>3
    <2>6. \A n \in Names : Applied(n)' <=> Applied(n)
      BY <2>1 DEF Applied
    <2> QED BY <2>1, <2>3, <2>4, <2>5, <2>6 DEF SyncInv, MarkedInv
  <1> QED BY <1>1, <1>2, <1>3 DEF Next

\* Where no gateway has the name of another unit, no static site publishes a script
\* with dependencies, and no apply fails between writing a script and clearing its
\* marker: the environment of every script reported as deployed was built from that
\* very script (Promises.DepsCurrent).
THEOREM ScriptsSynced ==
    Apart /\ ScriptsTell /\ MarkersCleared => (Spec => []DepsCurrent)
  <1> SUFFICES ASSUME Apart, ScriptsTell, MarkersCleared PROVE Spec => []DepsCurrent
    OBVIOUS
  <1>1. Init => MarkedInv /\ SyncInv
    <2> SUFFICES ASSUME Init PROVE MarkedInv /\ SyncInv
      OBVIOUS
    <2>1. job = None /\ \A n \in Names : told[n] = None
      BY DEF Init
    <2>2. \A n \in Names : ~Exists(Marker(n))
      BY FilesOfHost DEF Init, SystemInit, Exists
    <2> QED BY <2>1, <2>2, ReportsAssumption DEF MarkedInv, SyncInv, Marked, Applied, Planned
  <1>2. CommonInv /\ MarkedInv /\ SyncInv /\ [Next]_vars => MarkedInv' /\ SyncInv'
    BY NextKeepsSync
  <1>3. CommonInv /\ [Next]_vars => CommonInv'
    BY NextKeepsCommon
  <1>4. Spec => []FilesDeployed
    BY Deployed
  <1>5. CommonInv /\ MarkedInv /\ SyncInv /\ FilesDeployed => DepsCurrent
    <2> SUFFICES ASSUME CommonInv, MarkedInv, SyncInv, FilesDeployed, NEW n \in Names, Applied(n), told[n].deps
                 PROVE  file[Cache(n)] = told[n].pages[Entry]
      BY DEF DepsCurrent
    <2>1. PICK t \in Targets : t = told[n]
      BY DEF Applied
    <2>2. Script(n) \in RenderedFiles(n, t)
      BY <2>1, TargetsAssumption DEF RenderedFiles, PagesOf, Script
    <2>3. file[Script(n)] = Rendered(n, t, file[Env(n)], Script(n))
      BY <2>1, <2>2 DEF FilesDeployed
    <2>4. file[Script(n)] = t.pages[Entry]
      BY <2>3, RenderedPage DEF Script
    <2>5. file[Script(n)] \in Declaring
      BY <2>1, <2>4 DEF Declaring
    <2>6. ~(job.unit = n /\ Resyncing)
      BY ReportsAssumption DEF Resyncing, Planned, CommonInv, ToldInv, Applied
    <2>7. Marked(n) /\ Exists(Marker(n))
      BY <2>6 DEF MarkedInv, SyncInv
    <2> QED BY <2>1, <2>4, <2>5, <2>7 DEF Marked, Synced
  <1> QED BY <1>1, <1>2, <1>3, <1>4, <1>5, InitCommon, PTL DEF Spec

-----------------------------------------------------------------------------
(* The accounts and the directories.                                       *)

\* There is one unit.
Alone == \A m, n \in Names : m = n

\* A directory is there, or an apply is about to make it.
There(d) == d \in dirs \/ Pending("mkdir", d)

\* It has its mode, or an apply is about to give it.
InPlace(d) == There(d) /\ (d \in dirs \ loose \/ Pending("chmod", d))

\* What an apply has not made yet is on its list, in order; what it has started
\* has its state directory.
Making(n) ==
    /\ \A id \in IdsOf(n) : users[id] # "none" \/ Pending("user", <<"user", id>>)
    /\ \A d \in OwnDirs(n) : There(d)
    /\ InPlace(App(n))
    /\ \A r, q \in job.todo : r.verb = "mkdir" /\ q.verb = "chmod" /\ r.on = q.on => r.at < q.at
    /\ Past(Starting(n)) => State(n) \in owned
    /\ Past(StartingGateway(n)) => State(Gw[n]) \in owned

Settled(n) ==
    /\ \A id \in IdsOf(n) : users[id] # "none"
    /\ OwnDirs(n) \subseteq dirs /\ App(n) \notin loose

OwnsStates(n) == \A id \in IdsOf(n) : State(id) \in dirs => State(id) \in owned

PlaceInv ==
    /\ Planned => Making(job.unit)
    /\ \A n \in Names : Complete(n) => OwnsStates(n)
    /\ \A n \in Names : Applied(n) => Settled(n)

\* No file is a state directory.
LEMMA StatesAreDirs ==
    ASSUME NEW id, NEW n
    PROVE  State(id) \notin Files \cup OwnFiles(n)
  <1> USE DEF State
  <1>1. State(id) \notin Files
    BY DEF Files, Vhost, Env, Service, Page, Cache, Marker, Data
  <1>2. State(id) \notin OwnFiles(n)
    BY DEF OwnFiles, Vhost, Env, Service, Page, Cache, Marker
  <1> QED BY <1>1, <1>2

\* The steps of an apply that make accounts and directories, and what the others
\* leave alone.
LEMMA PlaceSteps ==
    ASSUME Inv, job # None, NEW s \in job.todo, ApplyStep(s) \/ CommitStep(s)
    PROVE  \/ UserStep(s) \/ MkdirStep(s) \/ ChmodStep(s) \/ StartStep(s)
           \/ /\ s.verb \notin {"user", "mkdir", "chmod", "start"}
              /\ dirs \subseteq dirs' /\ UNCHANGED <<users, loose>>
              /\ \A id : State(id) \in owned => State(id) \in owned'
  <1>1. CASE WriteStep(s) \/ SyncStep(s) \/ MarkStep(s)
    <2>1. s.verb \in {"write", "sync", "mark"} /\ UNCHANGED users
      BY <1>1 DEF WriteStep, SyncStep, MarkStep, Doing, accounts
    <2>2. s.on \in OwnFiles(job.unit)
      BY <2>1, StepTyped
    <2>3. dirs \subseteq dirs' /\ owned' = owned \ {s.on} /\ UNCHANGED loose
      BY <1>1 DEF WriteStep, SyncStep, MarkStep, Write, MkdirP
    <2> QED BY <2>1, <2>2, <2>3, StatesAreDirs
  <1>2. CASE StaleStep(s) \/ UnmarkStep(s)
    <2>1. s.verb \in {"rm", "unmark"} /\ UNCHANGED users
      BY <1>2 DEF StaleStep, SweepStep, UnmarkStep, Doing, accounts
    <2>2. s.on \in OwnFiles(job.unit)
      BY <2>1, StepTyped
    <2>3. UNCHANGED <<dirs, loose>> /\ owned' = owned \ {s.on}
      BY <1>2 DEF StaleStep, SweepStep, UnmarkStep, Remove
    <2> QED BY <2>1, <2>2, <2>3, StatesAreDirs
  <1>3. CASE GiveStep(s)
    <2>1. s.verb \in {"chgrp", "chown"} /\ UNCHANGED users
      BY <1>3 DEF GiveStep, Doing, accounts
    <2>2. UNCHANGED <<dirs, loose>> /\ owned \subseteq owned'
      BY <1>3 DEF GiveStep, GiveTree
    <2> QED BY <2>1, <2>2
  <1>4. CASE JoinStep(s) \/ LeaveStep(s)
    <2>1. s.verb \in {"join", "leave"} /\ UNCHANGED <<users, dirs, loose, owned>>
      BY <1>4 DEF JoinStep, LeaveStep, AddGroupMember, RemoveGroupMember, Doing, tree
    <2> QED BY <2>1
  <1>5. CASE RestartCaddyStep(s) \/ DaemonReloadStep(s) \/ ReloadCaddyStep(s) \/ FlushStep(s)
    <2>1. UNCHANGED <<users, dirs, loose, owned>>
      BY <1>5 DEF RestartCaddyStep, DaemonReloadStep, ReloadCaddyStep, FlushStep, accounts, tree
    <2>2. s.verb \in {"restart caddy", "daemon-reload", "reload caddy", "flush"}
      BY <1>5, Zenon DEF RestartCaddyStep, DaemonReloadStep, ReloadCaddyStep, FlushStep, Doing
    <2>3. s.verb \notin {"user", "mkdir", "chmod", "start"}
      BY <2>2, Zenon
    <2> QED BY <2>1, <2>3
  <1>6. CASE CommitStep(s)
    <2>1. s.verb = "commit" /\ UNCHANGED <<users, dirs, loose, owned>>
      BY <1>6 DEF CommitStep, Doing, host, accounts, tree
    <2> QED BY <2>1
  <1>7. CASE SweepStep(s)
    <2>1. UNCHANGED <<users, dirs, loose, owned>>
      BY <1>7 DEF SweepStep, RemoveTemp, accounts
    <2> QED BY <1>7, <2>1, SweepStepVerb, SweepingVerb
  <1> QED BY <1>1, <1>2, <1>3, <1>4, <1>5, <1>6, <1>7 DEF ApplyStep

\* No account or directory is made once the services are to be started.
LEMMA MadeBefore ==
    ASSUME Planned, \A r \in job.todo : 23 < r.at
    PROVE  \A r \in job.todo : r.verb \notin {"user", "mkdir", "chmod"}
  <1> SUFFICES ASSUME NEW r \in job.todo PROVE r.verb \notin {"user", "mkdir", "chmod"}
    OBVIOUS
  <1>1. Slot(job.unit, r) /\ 23 < r.at /\ r.at \in 1..29
    BY SlotNumbers DEF Planned, Ordered
  <1>2. r.verb \in {"user", "mkdir", "chmod"} => r \notin Fixed(job.unit)
    BY FixedNotPreparing DEF Preparing
  <1>3. r \in Fixed(job.unit) \/ (r.verb \in {"user", "mkdir", "chmod"} => r.at \in 1..8)
    BY <1>1 DEF Slot
  <1> QED BY <1>1, <1>2, <1>3

\* What is left to be done of the accounts and directories, after a step of an apply.
LEMMA ApplyKeepsMaking ==
    ASSUME Inv, OrderInv, Planned, Making(job.unit),
           NEW s \in job.todo, First(s), ApplyStep(s) \/ CommitStep(s),
           NEW n, n = job.unit, job'.todo = job.todo \ {s}
    PROVE  Making(n)'
  <1>0. n \in Names /\ job # None /\ users \in [Ids -> {"none", "smallapp", "foreign"}]
    BY DEF Planned, Inv, Typed
  <1>1. Making(n)
    OBVIOUS
  <1>2. \A verb, on : Pending(verb, on) => (s.verb = verb /\ s.on = on) \/ Pending(verb, on)'
    BY DEF Pending
  <1>3. \A r, q \in job'.todo : r.verb = "mkdir" /\ q.verb = "chmod" /\ r.on = q.on => r.at < q.at
    BY <1>1 DEF Making
  <1>4. ASSUME UNCHANGED users, s.verb # "user"
        PROVE  \A id \in IdsOf(n) : users'[id] # "none" \/ Pending("user", <<"user", id>>)'
    BY <1>1, <1>2, <1>4 DEF Making
  <1>a. App(n) \in OwnDirs(n)
    BY DEF OwnDirs
  <1>5. ASSUME dirs \subseteq dirs', App(n) \in loose' => App(n) \in loose,
               s.verb \notin {"mkdir", "chmod"}
        PROVE  /\ \A d \in OwnDirs(n) : There(d)'
               /\ InPlace(App(n))'
    <2>1. \A d : There(d) => There(d)'
      BY <1>2, <1>5 DEF There
    <2>2. InPlace(App(n)) => InPlace(App(n))'
      BY <1>2, <1>5, <2>1 DEF InPlace
    <2> QED BY <1>1, <2>1, <2>2 DEF Making
  <1>6. ASSUME \A id : State(id) \in owned => State(id) \in owned', ~StartStep(s)
        PROVE  /\ Past(Starting(n))' => State(n) \in owned'
               /\ Past(StartingGateway(n))' => State(Gw[n]) \in owned'
    <2>1. s # Starting(n) /\ s # StartingGateway(n)
      <3>1. s = Starting(n) \/ s = StartingGateway(n) => s.verb = "start" /\ s \in Fixed(n)
        <4>1. Starting(n) \in Fixed(n) /\ StartingGateway(n) \in Fixed(n)
          BY DEF Fixed
        <4>2. Starting(n).verb = "start" /\ StartingGateway(n).verb = "start"
          BY FixedVerbs, Zenon
        <4> QED BY <4>1, <4>2
      <3>2. s.verb = "start" => ~(\/ RestartCaddyStep(s) \/ DaemonReloadStep(s) \/ ReloadCaddyStep(s)
                                  \/ CommitStep(s) \/ FlushStep(s))
        BY Zenon DEF RestartCaddyStep, DaemonReloadStep, ReloadCaddyStep, CommitStep, FlushStep, Doing
      <3>3. s \in Fixed(n) => \/ RestartCaddyStep(s) \/ DaemonReloadStep(s) \/ ReloadCaddyStep(s)
                              \/ CommitStep(s) \/ FlushStep(s)
        BY <1>6, FixedSteps
      <3> QED BY <3>1, <3>2, <3>3
    <2>2. /\ Past(Starting(n))' => Past(Starting(n))
          /\ Past(StartingGateway(n))' => Past(StartingGateway(n))
      BY <2>1, PastWhenDone DEF Past, After, Planned, Ordered, Fixed
    <2> QED BY <1>1, <1>6, <2>2 DEF Making
  <1>7. CASE UserStep(s)
    <2>1. /\ s.verb = "user" /\ UNCHANGED <<dirs, loose, owned>>
          /\ users' = [users EXCEPT ![s.on[2]] = "smallapp"]
      BY <1>7 DEF UserStep, CreateUser, Doing, tree
    <2>2. PICK id \in IdsOf(n) : s.on = <<"user", id>>
      <3>1. Applying
        BY <1>0, OrderedApplies DEF Planned
      <3>2. ApplyActionOf(n, s)
        BY <3>1 DEF Applying
      <3>3. s.on \in {<<"user", id>> : id \in IdsOf(n)}
        BY <2>1, <3>2, StepShape
      <3> QED BY <3>3
    <2>3. id \in Ids
      BY <1>0, <2>2, NamesAssumption DEF IdsOf
    <2>4. users'[id] = "smallapp" /\ \A i \in Ids \ {id} : users'[i] = users[i]
      BY <1>0, <2>1, <2>2, <2>3
    <2>5. \A i \in IdsOf(n) \ {id} : Pending("user", <<"user", i>>) => Pending("user", <<"user", i>>)'
      BY <1>2, <2>2
    <2>6. \A i \in IdsOf(n) : i \in Ids
      BY <1>0, NamesAssumption DEF IdsOf
    <2>7. \A i \in IdsOf(n) : users'[i] # "none" \/ Pending("user", <<"user", i>>)'
      BY <1>1, <2>4, <2>5, <2>6 DEF Making
    <2>8. ~StartStep(s)
      BY <2>1 DEF StartStep, Doing
    <2> QED BY <1>3, <1>5, <1>6, <2>1, <2>7, <2>8 DEF Making
  <1>8. CASE MkdirStep(s)
    <2>1. /\ s.verb = "mkdir" /\ UNCHANGED <<users, owned>> /\ s.on \in dirs' /\ dirs \subseteq dirs'
          /\ loose' = IF s.on \in dirs THEN loose ELSE loose \cup {s.on}
      BY <1>8 DEF MkdirStep, Mkdir, MkdirP, Doing, accounts
    <2>2. \A d : Pending("chmod", d) => Pending("chmod", d)'
      BY <1>2, <2>1
    <2>3. \A d : There(d) => There(d)'
      BY <1>2, <2>1 DEF There
    <2>4. InPlace(App(n)) => InPlace(App(n))'
      <3>1. CASE s.on = App(n)
        BY <2>1, <2>2, <2>3, <3>1 DEF InPlace
      <3>2. CASE s.on # App(n)
        BY <2>1, <2>2, <2>3, <3>2 DEF InPlace
      <3> QED BY <3>1, <3>2
    <2>5. ~StartStep(s)
      BY <2>1 DEF StartStep, Doing
    <2> QED BY <1>1, <1>3, <1>4, <1>6, <2>1, <2>3, <2>4, <2>5 DEF Making
  <1>9. CASE ChmodStep(s)
    <2>1. s.verb = "chmod" /\ UNCHANGED <<users, owned, dirs>> /\ loose' = loose \ {s.on}
      BY <1>9 DEF ChmodStep, Chmod, Doing, accounts
    <2>2. ~Pending("mkdir", s.on)
      <3> SUFFICES ASSUME NEW r \in job.todo, r.verb = "mkdir", r.on = s.on PROVE FALSE
        BY DEF Pending
      <3>1. r.at < s.at
        BY <1>1, <2>1 DEF Making
      <3>2. s.at <= r.at /\ s.at \in 1..29 /\ r.at \in 1..29
        BY SlotNumbers DEF First, Planned, Ordered
      <3> QED BY ONLY <3>1, <3>2
    <2>3. \A d : There(d) => There(d)'
      BY <1>2, <2>1 DEF There
    <2>4. InPlace(App(n))'
      <3>1. CASE s.on = App(n)
        <4>1. App(n) \in dirs
          BY <1>1, <2>2, <3>1 DEF Making, InPlace, There
        <4> QED BY <2>1, <2>3, <3>1, <4>1 DEF InPlace, There
      <3>2. CASE s.on # App(n)
        BY <1>1, <1>2, <2>1, <2>3, <3>2 DEF Making, InPlace
      <3> QED BY <3>1, <3>2
    <2>5. ~StartStep(s)
      BY <2>1 DEF StartStep, Doing
    <2> QED BY <1>1, <1>3, <1>4, <1>6, <2>1, <2>3, <2>4, <2>5 DEF Making
  <1>10. CASE StartStep(s)
    <2>1. PICK id \in IdsOf(n) : id = s.on[2]
      BY <1>0, <1>10, StartPhase DEF IdsOf
    <2>2. /\ UNCHANGED users /\ dirs' = dirs \cup {State(id)} /\ owned \subseteq owned'
          /\ State(id) \in owned' /\ loose' = loose \cup {State(id)}
      BY <1>10, <2>1 DEF StartStep, Start, accounts
    <2>5. dirs \subseteq dirs' /\ (App(n) \in loose' => App(n) \in loose)
      BY <2>2 DEF App, State
    <2>6. s.verb = "start"
      BY <1>10 DEF StartStep, Doing
    <2>7. /\ s = Starting(n) => State(n) \in owned'
          /\ s = StartingGateway(n) => State(Gw[n]) \in owned'
      <3>1. \/ s = Starting(n) /\ s.on[2] = n
            \/ s = StartingGateway(n) /\ s.on[2] = Gw[n]
        BY <1>0, <1>10, StartPhase
      <3>2. Starting(n) # StartingGateway(n)
        BY FixedPlaces
      <3> QED BY <2>1, <2>2, <3>1, <3>2
    <2>8. /\ Past(Starting(n))' => Past(Starting(n)) \/ s = Starting(n)
          /\ Past(StartingGateway(n))' => Past(StartingGateway(n)) \/ s = StartingGateway(n)
      BY PastWhenDone DEF Past, After, Planned, Ordered, Fixed
    <2>9. /\ Past(Starting(n))' => State(n) \in owned'
          /\ Past(StartingGateway(n))' => State(Gw[n]) \in owned'
      BY <1>1, <2>2, <2>7, <2>8 DEF Making
    <2> QED BY <1>3, <1>4, <1>5, <2>2, <2>5, <2>6, <2>9 DEF Making
  <1>11. CASE /\ s.verb \notin {"user", "mkdir", "chmod", "start"}
              /\ dirs \subseteq dirs' /\ UNCHANGED <<users, loose>>
              /\ \A id : State(id) \in owned => State(id) \in owned'
    <2>1. ~StartStep(s)
      BY <1>11 DEF StartStep, Doing
    <2> QED BY <1>3, <1>4, <1>5, <1>6, <1>11, <2>1 DEF Making
  <1> QED BY <1>0, <1>7, <1>8, <1>9, <1>10, <1>11, PlaceSteps

\* The directories' actions are in pairs, the mode after the directory.
LEMMA DirectoryShape ==
    ASSUME NEW n, NEW r \in DirectoryActions(n)
    PROVE  /\ r.verb = "mkdir" => \/ r.at = 3 /\ r.on = App(n)
                                  \/ r.at = 5 /\ r.on = State(n)
                                  \/ r.at = 7 /\ r.on = State(Gw[n])
           /\ r.verb = "chmod" => \/ r.at = 4 /\ r.on = App(n)
                                  \/ r.at = 6 /\ r.on = State(n)
                                  \/ r.at = 8 /\ r.on = State(Gw[n])
  <1>1. ASSUME NEW at, NEW d, r \in MkdirActions(at, d)
        PROVE  /\ r.on = d
               /\ r.verb = "mkdir" => r.at = at
               /\ r.verb = "chmod" => r.at = at + 1
    BY <1>1 DEF MkdirActions, When, Action
  <1>2. r \in MkdirActions(3, App(n)) \/ r \in MkdirActions(5, State(n))
        \/ r \in MkdirActions(7, State(Gw[n]))
    BY DEF DirectoryActions
  <1>3. CASE r \in MkdirActions(3, App(n))
    BY <1>1, <1>3
  <1>4. CASE r \in MkdirActions(5, State(n))
    BY <1>1, <1>4
  <1>5. CASE r \in MkdirActions(7, State(Gw[n]))
    BY <1>1, <1>5
  <1> QED BY <1>2, <1>3, <1>4, <1>5

\* What is missing is in the plan's parts.
LEMMA MissingParts ==
    ASSUME NEW n \in Names
    PROVE  /\ \A id \in IdsOf(n) : users[id] = "none" =>
                  \E r \in UserActions(n) : r.verb = "user" /\ r.on = <<"user", id>>
           /\ \A d \in OwnDirs(n) :
                  \/ d \in dirs \ loose
                  \/ /\ \E r \in DirectoryActions(n) : r.verb = "chmod" /\ r.on = d
                     /\ \E r \in DirectoryActions(n) : r.verb = "mkdir" /\ r.on = d
  <1>1. ASSUME NEW id \in IdsOf(n), users[id] = "none"
        PROVE  \E r \in UserActions(n) : r.verb = "user" /\ r.on = <<"user", id>>
    <2>1. PICK r : r = Action(IF id = n THEN 1 ELSE 2, "user", <<"user", id>>)
      OBVIOUS
    <2>2. r.verb = "user" /\ r.on = <<"user", id>>
      BY <2>1 DEF Action
    <2>3. r \in UserActions(n)
      BY <1>1, <2>1, NamesAssumption, Zenon DEF UserActions, When, IdsOf
    <2> QED BY <2>2, <2>3
  <1>2. ASSUME NEW d \in OwnDirs(n), d \notin dirs \ loose
        PROVE  /\ \E r \in DirectoryActions(n) : r.verb = "chmod" /\ r.on = d
               /\ \E r \in DirectoryActions(n) : r.verb = "mkdir" /\ r.on = d
    <2>1. PICK at \in {3, 5, 7} : MkdirActions(at, d) \subseteq DirectoryActions(n)
      <3>1. CASE d = App(n)
        BY <3>1 DEF DirectoryActions
      <3>2. CASE d = State(n)
        BY <3>2 DEF DirectoryActions
      <3>3. CASE d = State(Gw[n])
        BY <3>3 DEF DirectoryActions
      <3> QED BY <3>1, <3>2, <3>3 DEF OwnDirs, IdsOf
    <2>2. {Action(at, "mkdir", d), Action(at + 1, "chmod", d)} \subseteq MkdirActions(at, d)
      BY <1>2 DEF MkdirActions, When
    <2> QED BY <2>1, <2>2 DEF Action
  <1> QED BY <1>1, <1>2

\* A plan makes what is missing.
LEMMA PutMaking ==
    ASSUME Inv, NEW s, PutIncomplete(s), job.op = "apply"
    PROVE  Making(job.unit)' /\ UNCHANGED <<users, dirs, loose, owned, told>>
  <1>1. PICK n \in Names, t \in Targets : \E secret \in SecretsFor(n) :
            /\ n = job.unit /\ n = job'.unit
            /\ job'.todo = Build(n, t, secret) \cup Ending(n)
            /\ UNCHANGED <<host, told>>
    BY PutPlan
  <1>2. PICK secret \in SecretsFor(n) : job'.todo = Build(n, t, secret) \cup Ending(n)
    BY <1>1
  <1>3. UNCHANGED <<users, dirs, loose, owned, told>>
    BY <1>1 DEF host, accounts, tree
  <1>4. UserActions(n) \cup DirectoryActions(n) \subseteq job'.todo
    BY <1>2, PartsOfBuild
  <1>5. \A id \in IdsOf(n) : users[id] # "none" \/ Pending("user", <<"user", id>>)'
    BY <1>4, MissingParts DEF Pending
  <1>6. \A d \in OwnDirs(n) : d \in dirs \ loose \/ (Pending("chmod", d)' /\ Pending("mkdir", d)')
    BY <1>4, MissingParts DEF Pending
  <1>7. ASSUME NEW r \in job'.todo, NEW q \in job'.todo,
               r.verb = "mkdir", q.verb = "chmod", r.on = q.on
        PROVE  r.at < q.at
    <2>1. r \in DirectoryActions(n) /\ q \in DirectoryActions(n)
      BY <1>2, <1>7, BuildParts DEF Preparing
    <2>2. App(n) # State(n) /\ App(n) # State(Gw[n]) /\ State(n) # State(Gw[n])
      BY NamesAssumption DEF App, State
    <2>3. \/ r.at = 3 /\ q.at = 4
          \/ r.at = 5 /\ q.at = 6
          \/ r.at = 7 /\ q.at = 8
      BY <1>7, <2>1, <2>2, DirectoryShape
    <2> QED BY ONLY <2>3
  <1>8. ~Past(Starting(n))' /\ ~Past(StartingGateway(n))'
    <2>1. Starting(n) \in job'.todo /\ StartingGateway(n) \in job'.todo
      BY <1>1, PutOrdered
    <2>2. Starting(n).at = 24 /\ StartingGateway(n).at = 25
      BY FixedPlaces
    <2> QED BY <2>1, <2>2 DEF Past, After
  <1>9. PICK u : u = n /\ u = job'.unit
    BY <1>1
  <1>10. (\A d \in OwnDirs(u) : There(d)') /\ InPlace(App(u))'
    <2>1. App(n) \in OwnDirs(n)
      BY DEF OwnDirs
    <2> QED BY <1>3, <1>6, <1>9, <2>1 DEF InPlace, There
  <1>11. \A id \in IdsOf(u) : users'[id] # "none" \/ Pending("user", <<"user", id>>)'
    BY <1>3, <1>5, <1>9
  <1>12. Making(u)'
    BY <1>7, <1>8, <1>9, <1>10, <1>11 DEF Making
  <1> QED BY <1>3, <1>9, <1>12

\* Where there is nothing to do, nothing is missing.
LEMMA NoChangesSettled ==
    ASSUME Inv, NEW s, NoChanges(s), NEW n \in Names, n = job.unit
    PROVE  Settled(n)
  <1>1. PICK secret \in SecretsFor(n) : Build(n, job.target, secret) = {}
    BY DEF NoChanges
  <1>2. UserActions(n) = {} /\ DirectoryActions(n) = {}
    BY <1>1, PartsOfBuild
  <1> QED BY <1>2, MissingParts DEF Settled, OwnDirs

\* The steps that are no preparations make no state directory, and take none away
\* from its service.
LEMMA OwnedSteps ==
    ASSUME Inv, job # None, NEW s \in job.todo,
           Ends(s) \/ LoadUnit(s) \/ RmStep(s) \/ DropStep(s) \/ CommitStep(s) \/ FlushStep(s),
           Fault(s) => UNCHANGED <<dirs, temps>>
    PROVE  \A id : State(id) \in dirs' =>
               State(id) \in dirs /\ (State(id) \in owned => State(id) \in owned')
  <1>1. CASE NotFound(s) \/ PruneStep(s)
    <2>1. PruneCreated(AnyRegistered(registry))
      BY <1>1 DEF NotFound, PruneStep
    <2>2. PICK gone : dirs' = dirs \ gone /\ owned' = owned \ gone
      BY <2>1 DEF PruneCreated
    <2> QED BY <2>2
  <1>2. CASE \/ Refuse(s) \/ NoChanges(s) \/ PrintStep(s) \/ Rejected(s) \/ Fault(s)
             \/ LoadUnit(s) \/ CommitStep(s) \/ DropStep(s) \/ FlushStep(s)
    <2>1. UNCHANGED <<dirs, owned>>
      <3>1. CASE Fault(s)
        BY <3>1 DEF Fault
      <3>2. CASE ~Fault(s)
        BY <1>2, <3>2 DEF Refuse, NoChanges, PrintStep, Rejected, LoadUnit, CommitStep, DropStep,
               FlushStep, host, tree
      <3> QED BY <3>1, <3>2
    <2> QED BY <2>1
  <1>3. CASE DisableStep(s) \/ UserdelStep(s) \/ DaemonReloadStep(s) \/ ReloadCaddyStep(s)
    <2>1. UNCHANGED <<dirs, owned>>
      BY <1>3 DEF DisableStep, UserdelStep, DaemonReloadStep, ReloadCaddyStep, tree
    <2> QED BY <2>1
  <1>4. CASE RemoveTreeStep(s)
    <2>1. dirs' = dirs \ {s.on} /\ owned' = owned \ ({s.on} \cup FilesIn(s.on))
      BY <1>4 DEF RemoveTreeStep, RemoveTree
    <2>2. \A id : State(id) \notin FilesIn(s.on)
      BY StatesAreDirs DEF FilesIn
    <2> QED BY <2>1, <2>2
  <1>5. CASE StaleStep(s)
    <2>1. s.verb = "rm" /\ UNCHANGED dirs /\ owned' = owned \ {s.on}
      BY <1>5 DEF StaleStep, Remove, Doing
    <2>2. s.on \in OwnFiles(job.unit)
      BY <2>1, StepTyped
    <2> QED BY <2>1, <2>2, StatesAreDirs
  <1> QED BY <1>1, <1>2, <1>3, <1>4, <1>5 DEF Ends, RmStep

\* A complete entry is of a unit whose services own their state directories.
LEMMA CommandKeepsOwned ==
    ASSUME CommonInv, PlaceInv, job # None, NEW n \in Names, n = job.unit,
           NEW s \in job.todo, ApplyNext(s) \/ RmNext(s) \/ Rejected(s) \/ Fault(s), Complete(n)'
    PROVE  OwnsStates(n)'
  <1> USE DEF CommonInv
  <1>1. CASE CommitStep(s)
    <2>1. Planned /\ Applying
      <3>1. s.verb = "commit" /\ Taken(s)
        BY <1>1 DEF CommitStep, Doing, Taken
      <3>2. ~RmStep(s) /\ ~DropStep(s)
        BY <3>1, Zenon DEF RmStep, DropStep, DisableStep, RemoveTreeStep, StaleStep, UserdelStep,
               DaemonReloadStep, ReloadCaddyStep, Doing
      <3> QED BY <3>1, <3>2, KindPhases DEF Planned, Applying
    <2>2. \A r \in job.todo : 27 <= r.at /\ r.at \in 1..29
      BY <1>1, <2>1, CommitIsLate, SlotNumbers DEF Planned, Ordered
    <2>3. Past(Starting(n)) /\ Past(StartingGateway(n))
      <3>1. Starting(n).at = 24 /\ StartingGateway(n).at = 25
        BY FixedPlaces
      <3> QED BY <2>2, <3>1 DEF Past, After
    <2>4. \A id \in IdsOf(n) : State(id) \in owned
      BY <2>1, <2>3 DEF PlaceInv, Making, IdsOf
    <2>5. Fault(s) => UNCHANGED <<dirs, temps>>
      <3>1. s.verb = "commit"
        BY <1>1 DEF CommitStep, Doing
      <3> QED BY <3>1 DEF Fault
    <2> QED BY <1>1, <2>4, <2>5, OwnedSteps DEF OwnsStates
  <1>2. CASE Complete(n) /\ ~CommitStep(s)
    <2>1. OwnsStates(n)
      BY <1>2 DEF PlaceInv
    <2>2. ~PutIncomplete(s)
      BY CompleteSteps
    <2>0. Fault(s) => UNCHANGED <<dirs, temps>>
      BY <1>2, CutOffUnfinished
    <2>3. CASE Ends(s) \/ LoadUnit(s) \/ RmStep(s) \/ DropStep(s) \/ FlushStep(s)
      BY <2>0, <2>1, <2>3, OwnedSteps DEF OwnsStates
    <2>4. CASE Taken(s) /\ ~RmStep(s) /\ ~DropStep(s)
      <3>1. ApplyStep(s) /\ Applying /\ Ordered
        BY <1>2, <2>4, KindPhases
      <3>2. Planned
        BY <3>1 DEF Planned, Applying
      <3>3. FlushStep(s)
        BY <1>2, <3>1, <3>2, CompleteFlushes
      <3> QED BY <2>0, <2>1, <3>3, OwnedSteps DEF OwnsStates
    <2> QED BY <2>2, <2>3, <2>4, StepKinds
  <1> QED BY <1>1, <1>2, CompleteSteps

\* The steps of a command keep that.
LEMMA CommandKeepsPlace ==
    ASSUME Alone, CommonInv, PlaceInv, job # None,
           NEW s \in job.todo, ApplyNext(s) \/ RmNext(s) \/ Rejected(s) \/ Fault(s)
    PROVE  PlaceInv'
  <1>a. PICK n : n = job.unit
    OBVIOUS
  <1> USE <1>a DEF CommonInv
  <1>0. n \in Names /\ \A m \in Names : m = n
    BY DEF Inv, Typed, Alone
  <1>1. \A m \in Names : Complete(m)' => OwnsStates(m)'
    BY <1>0, CommandKeepsOwned
  <1>2. CASE Ends(s)
    <2>1. job' = None /\ ~Planned'
      BY <1>2, EndsJob DEF Planned
    <2>2. ASSUME Applied(n)' PROVE Settled(n)'
      <3>1. PrintStep(s) \/ NoChanges(s)
        BY <2>2, ToldSteps
      <3>2. UNCHANGED <<users, dirs, loose>>
        BY <3>1 DEF PrintStep, NoChanges, accounts, tree
      <3>3. Settled(n)
        <4>1. CASE NoChanges(s)
          BY <1>0, <4>1, NoChangesSettled
        <4>2. CASE PrintStep(s)
          <5>1. Planned /\ \A r \in job.todo : 29 <= r.at /\ r.at \in 1..29
            BY <4>2, PrintIsLast, SlotNumbers DEF Planned, Ordered
          <5>2. \A verb \in {"user", "mkdir", "chmod"} : \A on : ~Pending(verb, on)
            BY <5>1, MadeBefore DEF Pending
          <5> QED BY <5>1, <5>2 DEF PlaceInv, Making, There, InPlace, Settled
        <4> QED BY <3>1, <4>1, <4>2
      <3> QED BY <3>2, <3>3 DEF Settled
    <2> QED BY <1>0, <1>1, <2>1, <2>2 DEF PlaceInv
  <1>3. CASE ~Ends(s)
    <2>1. \A m \in Names : ~Applied(m)'
      <3>1. ~Applied(n)'
        BY <1>3, ToldSteps DEF Ends
      <3> QED BY <1>0, <3>1
    <2>2. CASE PutIncomplete(s)
      <3>1. job.op = "apply"
        BY <2>2, KindPhases
      <3> QED BY <1>1, <2>1, <2>2, <3>1, PutMaking, PutOrdered DEF PlaceInv
    <2>3. CASE LoadUnit(s)
      <3>1. job'.op = "rm"
        BY <2>3, KindPhases DEF LoadUnit, Inv, Typed, JobFields
      <3> QED BY <1>1, <2>1, <3>1 DEF PlaceInv, Planned
    <2>4. CASE Taken(s)
      <3>1. Done(s) /\ First(s) /\ s.verb # "print"
        BY <2>4, TakenDone
      <3>2. job'.unit = n /\ job'.op = job.op /\ job'.todo = job.todo \ {s}
        BY <3>1 DEF Done, Inv, Typed, JobFields
      <3>3. CASE Applying /\ Ordered /\ (ApplyStep(s) \/ CommitStep(s))
        <4>1. Planned
          BY <3>3 DEF Planned, Applying
        <4>2. Making(n)'
          BY <3>1, <3>2, <3>3, <4>1, ApplyKeepsMaking DEF PlaceInv
        <4>3. Making(job.unit)'
          BY <3>2, <4>2
        <4> QED BY <1>1, <2>1, <4>3 DEF PlaceInv
      <3>4. CASE Removing
        BY <1>1, <2>1, <3>2, <3>4 DEF PlaceInv, Planned, Removing
      <3> QED BY <2>4, <3>3, <3>4, KindPhases
    <2> QED BY <1>3, <2>2, <2>3, <2>4, StepKinds
  <1> QED BY <1>2, <1>3

\* So does every step of the specification, and every stutter.
LEMMA NextKeepsPlace ==
    ASSUME Alone, CommonInv, PlaceInv, [Next]_vars
    PROVE  PlaceInv'
  <1>1. CASE \E s \in Todo : ApplyNext(s) \/ RmNext(s) \/ Rejected(s) \/ Fault(s)
    BY <1>1, CommandKeepsPlace DEF Todo
  <1>2. CASE \E n \in Names : BeginRm(n) \/ \E t \in Targets : BeginApply(n, t)
    <2>1. PICK n \in Names : BeginRm(n) \/ \E t \in Targets : BeginApply(n, t)
      BY <1>2
    <2>2. /\ ~Planned' /\ told' = [told EXCEPT ![n] = None] /\ MkdirP(Lib)
          /\ UNCHANGED <<owned, registry>>
      BY <2>1, Begun
    <2>3. \A m \in Names : ~Applied(m)'
      BY <2>2, ReportsAssumption DEF Applied, Alone, CommonInv, ToldInv
    <2>4. \A id \in Ids : State(id) \in dirs' => State(id) \in dirs
      BY <2>2, LibGrows
    <2>5. \A m \in Names : Complete(m)' => Complete(m)
      BY <2>2, Zenon DEF Complete, Registered
    <2>6. \A m \in Names : IdsOf(m) \subseteq Ids
      BY NamesAssumption DEF IdsOf
    <2> QED BY <2>2, <2>3, <2>4, <2>5, <2>6 DEF PlaceInv, OwnsStates
  <1>3. CASE \/ \E id \in AdminIds : AdminAddsUser(id)
             \/ \E k \in AdminNames : AdminChmods(k)
             \/ \E m \in Writers : AppWrites(m)
             \/ UNCHANGED vars
    <2>1. /\ UNCHANGED <<dirs, job, told, registry>> /\ loose' \subseteq loose
          /\ owned \subseteq owned'
          /\ \A id \in Ids : users[id] # "none" => users'[id] # "none"
      <3>1. CASE (\E id \in AdminIds : AdminAddsUser(id)) \/ (\E k \in AdminNames : AdminChmods(k))
        BY <3>1 DEF AdminAddsUser, AdminChmods, tree, accounts, CommonInv, Inv, Typed
      <3>2. CASE \E m \in Writers : AppWrites(m)
        BY <3>2 DEF AppWrites, accounts
      <3>3. CASE UNCHANGED vars
        BY <3>3 DEF vars, host, accounts, tree
      <3> QED BY <1>3, <3>1, <3>2, <3>3
    <2>2. \A m \in Names : IdsOf(m) \subseteq Ids
      BY NamesAssumption DEF IdsOf
    <2>3. \A m \in Names : Complete(m)' => Complete(m)
      BY <2>1, Zenon DEF Complete, Registered
    <2>4. Planned' => Planned /\ job.unit \in Names
      BY <2>1 DEF Planned, Ordered, Due, After, CommonInv, Inv, Typed
    <2>5. \A m \in Names : Making(m) => Making(m)'
      <3> SUFFICES ASSUME NEW m \in Names, Making(m) PROVE Making(m)'
        OBVIOUS
      <3>1. \A verb, on : Pending(verb, on)' <=> Pending(verb, on)
        BY <2>1 DEF Pending
      <3>2. \A a : Past(a)' <=> Past(a)
        BY <2>1 DEF Past, After
      <3>3. (\A d \in OwnDirs(m) : There(d)') /\ InPlace(App(m))'
        BY <2>1, <3>1 DEF Making, InPlace, There
      <3> QED BY <2>1, <2>2, <3>1, <3>2, <3>3 DEF Making
    <2>6. Planned' => Making(job.unit)'
      BY <2>1, <2>4, <2>5 DEF PlaceInv
    <2>7. \A m \in Names : Settled(m) => Settled(m)'
      BY <2>1, <2>2 DEF Settled
    <2> QED BY <2>1, <2>3, <2>6, <2>7 DEF PlaceInv, OwnsStates, Applied
  <1> QED BY <1>1, <1>2, <1>3 DEF Next

\* Nothing is missing before anything was done.
LEMMA InitPlace == Init => PlaceInv
  <1> SUFFICES ASSUME Init PROVE PlaceInv
    OBVIOUS
  <1>1. job = None /\ \A n \in Names : told[n] = None /\ registry[n] = None
    BY DEF Init
  <1>2. \A n \in Names : ~Complete(n)
    BY <1>1, Zenon DEF Complete, Registered
  <1> QED BY <1>1, <1>2, ReportsAssumption DEF PlaceInv, Applied, Planned

LEMMA AloneIsApart == Alone => Apart
  BY DEF Alone, Apart

\* Where there is one unit: a unit reported as deployed has its payload directory with
\* its mode and its accounts, and their state directories are there and theirs, whatever
\* failed before (Promises.StateReady).
THEOREM StatesReady == Alone => (Spec => []StateReady)
  <1> SUFFICES ASSUME Alone PROVE Spec => []StateReady
    OBVIOUS
  <1>1. CommonInv /\ PlaceInv /\ [Next]_vars => PlaceInv'
    BY NextKeepsPlace
  <1>2. CommonInv /\ [Next]_vars => CommonInv'
    BY NextKeepsCommon, AloneIsApart
  <1>3. CommonInv /\ PlaceInv => StateReady
    <2> SUFFICES ASSUME CommonInv, PlaceInv, NEW n \in Names, Applied(n)
                 PROVE  /\ App(n) \in dirs \ loose
                        /\ \A id \in IdsOf(n) : users[id] # "none" /\ State(id) \in dirs \cap owned
      BY DEF StateReady
    <2>1. /\ App(n) \in dirs \ loose
          /\ \A id \in IdsOf(n) : users[id] # "none" /\ State(id) \in dirs
      BY DEF PlaceInv, Settled, OwnDirs
    <2>2. Complete(n)
      BY DEF CommonInv, ToldInv
    <2> QED BY <2>1, <2>2 DEF PlaceInv, OwnsStates
  <1> QED BY <1>1, <1>2, <1>3, InitPlace, InitCommon, PTL DEF Spec

\* Where everything is in place there is nothing to plan but the mode of a state
\* directory that has lost it, and then the services' restart.
LEMMA NothingToDo ==
    ASSUME NEW n \in Names, NEW t \in Targets, Complete(n), Settled(n), DeployedAs(n, t),
           TempsIn(App(n)) = {},
           n \in groups <=> t.kind = "static", t.deps => Exists(Marker(n)),
           NEW secret \in SecretsFor(n), NEW states, states = {State(id) : id \in IdsOf(n)}
    PROVE  /\ \A a \in Build(n, t, secret) \ ServiceActions(n) :
                 a.verb \in {"mkdir", "chmod"} /\ a.on \in states \cap loose
           /\ states \cap loose = {} => Build(n, t, secret) = {}
  <1>1. UserActions(n) = {}
    BY Zenon DEF UserActions, When, Settled, IdsOf
  <1>2. /\ App(n) \in dirs /\ App(n) \notin loose
        /\ \A d \in {State(n), State(Gw[n])} : d \in dirs /\ d \in states
    BY DEF Settled, OwnDirs, IdsOf
  <1>3. ChgrpActions(n) = {} /\ ChownActions(n) = {}
    BY <1>2, Zenon DEF ChgrpActions, ChownActions, When
  <1>a. DirectoryActions(n) = MkdirActions(5, State(n)) \cup MkdirActions(7, State(Gw[n]))
    <2>1. MkdirActions(3, App(n)) = {}
      BY <1>2, Zenon DEF MkdirActions, When
    <2> QED BY <2>1 DEF DirectoryActions
  <1>b. \A a \in DirectoryActions(n) : a.verb \in {"mkdir", "chmod"} /\ a.on \in states \cap loose
    <2>1. ASSUME NEW at, NEW d \in {State(n), State(Gw[n])}, NEW a \in MkdirActions(at, d)
          PROVE  a.verb \in {"mkdir", "chmod"} /\ a.on = d /\ d \in loose
      BY <1>2 DEF MkdirActions, When, Action
    <2> QED BY <1>2, <1>a, <2>1
  <1>4. secret = file[Env(n)]
    BY DEF SecretsFor, Reused, DeployedAs
  <1>5. ToWrite(n, t, secret) = {} /\ Stale(n, t) = {}
    BY <1>4 DEF ToWrite, Stale, DeployedAs
  <1>6. WriteActions(n, t, secret) = {}
    BY <1>5 DEF WriteActions
  <1>c. StaleActions(n, t) = {}
    BY <1>5, Zenon DEF StaleActions
  <1>7. DependencyActions(n, t, secret) = {}
    BY <1>5 DEF DependencyActions, When
  <1>8. GroupActions(n, t) = {}
    BY Zenon DEF GroupActions, When
  <1>9. Changes(n, t, secret) = DirectoryActions(n)
    BY <1>1, <1>3, <1>6, <1>7, <1>8, <1>c DEF Changes
  <1>10. states \cap loose = {} => Build(n, t, secret) = {}
    <2>1. states \cap loose = {} => DirectoryActions(n) = {}
      BY <1>b
    <2> QED BY <1>9, <2>1, Zenon DEF Build, When
  <1>11. Build(n, t, secret) \subseteq DirectoryActions(n) \cup ServiceActions(n)
    BY <1>9, Zenon DEF Build, When
  <1> QED BY <1>b, <1>10, <1>11

\* Where there is one unit: an apply of what was just reported as deployed finds its
\* entry complete and nothing to do but to give a state directory the mode it has lost,
\* whatever failed before (Promises.Idempotent).
THEOREM AppliesOnce == Alone => (Spec => []Idempotent)
  <1> SUFFICES ASSUME Alone PROVE Spec => []Idempotent
    OBVIOUS
  <1>0. Apart
    BY AloneIsApart
  <1>1. CommonInv /\ PlaceInv /\ [Next]_vars => PlaceInv'
    BY NextKeepsPlace
  <1>2. CommonInv /\ [Next]_vars => CommonInv'
    BY <1>0, NextKeepsCommon
  <1>3. CommonInv /\ MembershipInv /\ [Next]_vars => MembershipInv'
    BY <1>0, NextKeepsAccess
  <1>4. CommonInv /\ SyncInv /\ [Next]_vars => SyncInv'
    BY <1>0, NextKeepsSync
  <1>5. Spec => []FilesDeployed
    BY <1>0, Deployed
  <1>6. Init => MembershipInv /\ SyncInv
    <2> SUFFICES ASSUME Init PROVE MembershipInv /\ SyncInv
      OBVIOUS
    <2>1. job = None /\ \A n \in Names : told[n] = None
      BY DEF Init
    <2> QED BY <2>1, ReportsAssumption DEF MembershipInv, SyncInv, Applied, Planned
  <1>7. CommonInv /\ PlaceInv /\ MembershipInv /\ SyncInv /\ FilesDeployed => Idempotent
    <2> SUFFICES ASSUME CommonInv, PlaceInv, MembershipInv, SyncInv, FilesDeployed,
                        NEW n \in Names, Applied(n)
                 PROVE  /\ Complete(n)
                        /\ \A secret \in SecretsFor(n) :
                             LET states == {State(id) : id \in IdsOf(n)}
                                 plan == Build(n, told[n], secret)
                             IN  /\ \A a \in plan \ ServiceActions(n) :
                                       a.verb \in {"mkdir", "chmod"} /\ a.on \in states \cap loose
                                 /\ states \cap loose = {} => plan = {}
      BY DEF Idempotent
    <2>1. PICK t \in Targets : t = told[n]
      BY DEF Applied
    <2>2. Complete(n) /\ Settled(n)
      BY DEF CommonInv, ToldInv, PlaceInv
    <2>3. DeployedAs(n, t) /\ TempsIn(App(n)) = {}
      BY <2>1 DEF FilesDeployed, DeployedAs
    <2>4. (n \in groups <=> t.kind = "static") /\ (t.deps => Exists(Marker(n)))
      BY <2>1 DEF MembershipInv, SyncInv
    <2>5. PICK states : states = {State(id) : id \in IdsOf(n)}
      OBVIOUS
    <2>6. \A secret \in SecretsFor(n) :
             /\ \A a \in Build(n, t, secret) \ ServiceActions(n) :
                   a.verb \in {"mkdir", "chmod"} /\ a.on \in states \cap loose
             /\ states \cap loose = {} => Build(n, t, secret) = {}
      BY <2>2, <2>3, <2>4, <2>5, NothingToDo
    <2> QED BY <2>1, <2>2, <2>5, <2>6
  <1> QED BY <1>1, <1>2, <1>3, <1>4, <1>5, <1>6, <1>7, InitPlace, InitCommon, PTL DEF Spec

-----------------------------------------------------------------------------
(* The directories are given back.                                         *)

\* What smallapp has made of the directories all units share.
MadeShared == (dirs \cap Shared) \ (PreDirs \cup {Host})

\* No unit is refused, or a command that refuses one makes no directory.
RefusesNothing ==
    Lib \in PreDirs \/ \A n \in Names : IdsOf(n) \cap (PreUsers \cup AdminIds) = {}

NoStrangers ==
    Lib \in PreDirs \/ \A n \in Names : \A id \in IdsOf(n) : users[id] # "foreign"

\* A command that has not read the registry yet, and a removal that has.
Opening == job # None /\ \A s \in job.todo : s.verb \in {"plan", "load"}
Emptying == job # None /\ job.op = "rm" /\ Pruning \in job.todo
Dropping(n) == Action(14, "drop", <<"unit", n>>)

\* userdel has left no group behind.
NoGroupLeft == \A id \in Ids : ~LeftGroup(id)

\* What the process has made and not recorded when there is no one to record it.
Unrecorded ==
    /\ job = None => created = {}
    /\ Opening => created \subseteq {Lib} /\ (created = {} \/ ~AnyRegistered(registry))
    /\ Emptying => created = {}
    /\ Planned => Due(Flushing) /\ (Past(Flushing) => created \subseteq recorded)

RecordInv ==
    /\ \A d \in dirs : Parent(d) \in dirs
    /\ job # None \/ AnyRegistered(registry) => Lib \in dirs
    /\ Unrecorded
    /\ faults = 0 => temps = {}
    /\ faults = 0 /\ NoGroupLeft => MadeShared \subseteq recorded \cup created

\* What was reported as removed has no entry.
GoneInv ==
    /\ \A n \in Names : told[n] = Gone => ~Registered(n)
    /\ Emptying => Dropping(job.unit) \in job.todo \/ ~Registered(job.unit)

\* Where a directory is.
LEMMA Parents ==
    /\ \A d : Parent(d) \in {Opt, Lib, Host} /\ Parent(Parent(d)) = Host
    /\ \A d \in Shared : Parent(d) = Host
    /\ Opt \in Shared /\ Lib \in Shared /\ Host \in Shared /\ Lib # Host
    /\ \A id : Parent(State(id)) = Lib /\ State(id) \notin Shared
    /\ \A n \in Names : OwnDirs(n) \cap Shared = {}
  <1>1. \A d : Parent(d) \in {Opt, Lib, Host}
    BY DEF Parent
  <1>2. \A d \in Shared : Parent(d) = Host
    BY DEF Parent, Shared, Host, Opt, Lib, Etc, Sites
  <1>3. Opt \in Shared /\ Lib \in Shared /\ Host \in Shared /\ Lib # Host
    BY DEF Shared, Host, Lib
  <1>4. \A id : Parent(State(id)) = Lib
    BY DEF Parent, State
  <1>5. \A id : State(id) \notin Shared
    BY DEF State, Shared, Host, Opt, Lib, Etc, Sites
  <1> QED BY <1>1, <1>2, <1>3, <1>4, <1>5, DirTypes

\* A directory that all units share is noted when it is made.
LEMMA MkdirRecords ==
    ASSUME Host \in dirs, \A x \in dirs : Parent(x) \in dirs, NEW d, MkdirP(d)
    PROVE  /\ \A x \in dirs' : Parent(x) \in dirs'
           /\ MadeShared' \subseteq MadeShared \cup created'
           /\ created \subseteq created' /\ recorded' = recorded /\ dirs \subseteq dirs'
  <1>1. /\ dirs' = dirs \cup {d, Parent(d)} /\ recorded' = recorded
        /\ created' = created \cup (IF d \in dirs THEN {}
                                    ELSE IF Parent(d) \in dirs THEN {d} ELSE {Parent(d)})
    BY DEF MkdirP
  <1>2. \A x \in dirs' : Parent(x) \in dirs'
    BY <1>1, Parents
  <1>3. \A x \in (dirs' \cap Shared) \ dirs : x \in created'
    BY <1>1, Parents
  <1> QED BY <1>1, <1>2, <1>3 DEF MadeShared

\* Without entries there is nothing of a unit, and the shared directories are hollow.
LEMMA HostHollow ==
    ASSUME Accounted, dirs \subseteq Dirs, ~AnyRegistered(registry), temps = {}
    PROVE  /\ dirs \subseteq Shared
           /\ \A d \in dirs \ {Host} : Hollow(d, AnyRegistered(registry))
  <1>1. \A n \in Names : ~Registered(n) /\ UnitFree(n)
    BY DEF AnyRegistered, Registered, Accounted
  <1>2. \A id \in Ids : IdFree(id)
    BY <1>1 DEF Accounted, Registrants
  <1>3. dirs \subseteq Shared
    BY <1>1, <1>2 DEF UnitFree, IdFree, Dirs
  <1>4. ASSUME NEW d \in dirs \ {Host} PROVE Hollow(d, AnyRegistered(registry))
    <2>1. Children(d) = {}
      <3>1. \A c \in dirs : Parent(c) = Host
        BY <1>3, Parents
      <3> QED BY <3>1 DEF Children
    <2>2. ASSUME NEW f \in FilesIn(d) PROVE ~Exists(f)
      <3>1. f \in Files /\ DirOf(f) \in Shared \ {Host}
        BY <1>3 DEF FilesIn
      <3> USE DEF DirOf
      <3>2. CASE f \in {Vhost(n) : n \in Names}
        BY <1>1, <3>2 DEF UnitFree
      <3>3. CASE f \in {Env(n) : n \in Names}
        BY <1>1, <3>3 DEF UnitFree
      <3>4. CASE f \in {Service(id) : id \in Ids}
        BY <3>1, <3>4 DEF Service
      <3>5. CASE f \in {Page(n, p) : n \in Names, p \in Pages}
        <4>1. DirOf(f) = App(f[2])
          BY <3>5 DEF Page
        <4>2. App(f[2]) \notin Shared
          BY DEF App, Shared, Host, Opt, Lib, Etc, Sites
        <4> QED BY <3>1, <4>1, <4>2
      <3>6. ASSUME f \in {Cache(n) : n \in Names} \/ f \in {Marker(n) : n \in Names}
                   \/ f \in {Data(n) : n \in Names}
            PROVE  FALSE
        <4>1. DirOf(f) = State(f[2])
          BY <3>6 DEF Cache, Marker, Data
        <4> QED BY <3>1, <4>1, Parents
      <3> QED BY <3>1, <3>2, <3>3, <3>4, <3>5, <3>6 DEF Files
    <2> QED BY <2>1, <2>2 DEF Hollow
  <1> QED BY <1>3, <1>4

\* Pruning leaves a directory where those in it are, and no record of a directory
\* that is gone goes with one that is there.
LEMMA PruneRecords ==
    ASSUME Accounted, PreInv, dirs \subseteq Dirs, \A d \in dirs : Parent(d) \in dirs, Lib \in dirs,
           PruneCreated(AnyRegistered(registry))
    PROVE  /\ \A d \in dirs' : Parent(d) \in dirs'
           /\ AnyRegistered(registry) => Lib \in dirs'
           /\ created' = {}
           /\ temps = {} /\ MadeShared \subseteq recorded \cup created =>
                 /\ MadeShared' \subseteq recorded'
                 /\ ~AnyRegistered(registry) => dirs' = PreDirs \cup {Host}
  <1> DEFINE registered == AnyRegistered(registry)
             known == recorded \cup created
             empty == {d \in known : Hollow(d, registered)}
             below == {d \in dirs : Parent(d) \in known /\ Hollow(d, registered)}
  <1>1. PICK gone \in SUBSET (empty \cup below) :
          /\ empty \subseteq gone
          /\ \A d \in empty : Children(d) \subseteq gone
          /\ dirs' = dirs \ gone
          /\ recorded' = IF Lib \in dirs \ gone THEN known \ empty ELSE {}
          /\ created' = {}
    BY DEF PruneCreated
  <1>2. known \cap (PreDirs \cup {Host}) = {} /\ PreDirs \subseteq dirs /\ Host \in dirs
    BY DEF PreInv, PreexistingKept
  <1>3. gone \cap Shared \subseteq empty
    BY <1>2, Parents
  <1>4. ASSUME NEW d \in dirs' PROVE Parent(d) \in dirs'
    <2>1. d \in dirs /\ d \notin gone /\ Parent(d) \in dirs /\ Parent(d) \in Shared
      BY <1>1, Parents
    <2>2. CASE d = Host
      BY <2>1, <2>2, Parents
    <2>3. CASE d # Host
      <3>1. d \in Children(Parent(d))
        BY <2>1, <2>3 DEF Children
      <3> QED BY <1>1, <1>3, <2>1, <3>1
    <2> QED BY <2>2, <2>3
  <1>5. Lib \in gone => ~registered
    BY <1>3, Parents DEF Hollow
  <1>6. ASSUME MadeShared \subseteq known, temps = {}, ~registered
        PROVE  dirs' = PreDirs \cup {Host}
    <2>1. dirs \subseteq Shared /\ \A d \in dirs \ {Host} : Hollow(d, registered)
      BY <1>6, HostHollow
    <2>2. \A d \in dirs \ (PreDirs \cup {Host}) : d \in empty
      BY <1>6, <2>1 DEF MadeShared
    <2>3. gone \cap (PreDirs \cup {Host}) = {}
      BY <1>2, <1>3, <2>1, PreDirsAssumption
    <2> QED BY <1>1, <1>2, <2>2, <2>3
  <1>7. ASSUME MadeShared \subseteq known, temps = {}
        PROVE  MadeShared' \subseteq recorded'
    <2>1. CASE Lib \in gone
      BY <1>5, <1>6, <1>7, <2>1 DEF MadeShared
    <2>2. CASE Lib \notin gone
      <3>1. recorded' = known \ empty
        BY <1>1, <2>2
      <3>2. MadeShared' \subseteq MadeShared \ gone
        BY <1>1 DEF MadeShared
      <3> QED BY <1>1, <1>7, <3>1, <3>2
    <2> QED BY <2>1, <2>2
  <1> QED BY <1>1, <1>4, <1>5, <1>6, <1>7

\* The invariants the rest builds on.
BaseInv ==
    /\ Inv /\ OrderInv /\ UnderwayInv /\ ToldInv /\ PreInv
    /\ TreeTyped /\ FilesTyped /\ SecretsTyped /\ JobsTyped

\* A command that has read the registry does not read it again.
LEMMA OpeningSteps ==
    ASSUME BaseInv, job # None, NEW s \in job.todo
    PROVE  /\ s.verb \in {"plan", "load"} => Opening
           /\ Opening => s.verb \in {"plan", "load"}
           /\ Planned \/ Emptying => ~Opening
  <1> USE DEF BaseInv
  <1>1. Planned => ~Opening
    <2>1. \A n : Printing(n).verb = "print"
      BY FixedVerbs, Zenon
    <2> QED BY <2>1 DEF Planned, Ordered, Opening
  <1>2. Emptying => ~Opening
    <2>1. Pruning.verb = "prune"
      BY DEF Pruning, Action
    <2> QED BY <2>1 DEF Emptying, Opening
  <1>3. ASSUME s.verb \in {"plan", "load"} PROVE Opening
    <2>1. ~Planned /\ ~Emptying
      <3>1. ~Planned
        BY <1>3, PlannedVerbs
      <3>2. ~Emptying
        <4>1. ASSUME Emptying PROVE FALSE
          <5>1. Removing
            BY <4>1, PruningRemoves DEF Emptying
          <5>2. s \in RemovalScript(job.unit)
            BY <5>1 DEF Removing
          <5>3. s.verb \notin {"plan", "load"}
            BY <5>2, ScriptFields
          <5> QED BY <1>3, <5>3
        <4> QED BY <4>1
      <3> QED BY <3>1, <3>2
    <2>2. job.todo = {Action(0, "plan", <<"unit", job.unit>>)} \/ job.todo = {Action(0, "load", <<"unit", job.unit>>)}
      BY <2>1 DEF OrderInv, Planned, Emptying
    <2>3. \A r \in job.todo : r.verb \in {"plan", "load"}
      BY <2>2 DEF Action
    <2> QED BY <2>3 DEF Opening
  <1>4. Opening => s.verb \in {"plan", "load"}
    BY DEF Opening
  <1> QED BY <1>1, <1>2, <1>3, <1>4

\* Where an entry is, some unit is registered, and the other way round.
LEMMA SomeEntry ==
    /\ \A n \in Names : Registered(n) => AnyRegistered(registry)
    /\ (\A n \in Names : ~Registered(n)) => ~AnyRegistered(registry)
  BY DEF Registered, AnyRegistered

\* A step of an apply on its way comes before the flush of its record.
LEMMA BeforeFlush ==
    ASSUME Planned, Applying, NEW s \in job.todo, ApplyStep(s) \/ CommitStep(s)
    PROVE  ~Past(Flushing)
  <1> SUFFICES ASSUME Past(Flushing) PROVE FALSE
    OBVIOUS
  <1>a. PICK n : n = job.unit
    OBVIOUS
  <1>1. Slot(n, s) /\ s.at \in 1..29
    BY <1>a, SlotNumbers DEF Planned, Ordered
  <1>2. 28 < s.at
    BY FixedPlaces DEF Past, After
  <1>3. s.at = 29 /\ Printing(n).at = 29 /\ Printing(n) \in Fixed(n)
    BY <1>1, <1>2, FixedPlaces DEF Fixed
  <1>4. s = Printing(n)
    BY <1>1, <1>3, FixedAlone
  <1>5. s.verb = "print"
    BY <1>4, FixedVerbs, Zenon
  <1>6. Taken(s)
    BY DEF Taken
  <1> QED BY <1>5, <1>6, TakenDone, Zenon

\* Where the record stands: a step that ends a command leaves nothing unrecorded,
\* unless it fails.
LEMMA EndsRecorded ==
    ASSUME BaseInv, RecordInv, NoStrangers, job # None, NEW s \in job.todo,
           Refuse(s) \/ NoChanges(s) \/ Rejected(s) \/ PrintStep(s), NoGroupLeft
    PROVE  created \subseteq recorded
  <1> USE DEF BaseInv
  <1>a. PICK n \in Names : n = job.unit
    BY DEF Inv, Typed
  <1>1. CASE PrintStep(s)
    <2>1. Planned /\ s = Printing(n) /\ \A a \in Fixed(n) \ {s} : Past(a)
      BY <1>a, <1>1, PrintIsLast
    <2>2. Flushing \in Fixed(n) /\ Flushing.at = 28 /\ Printing(n).at = 29
      BY FixedPlaces DEF Fixed
    <2>3. Flushing # s
      BY <2>1, <2>2
    <2> QED BY <2>1, <2>2, <2>3 DEF RecordInv, Unrecorded
  <1>2. CASE Rejected(s)
    <2>1. s.verb = "disable"
      <3>1. s.verb = "user" => s.on[2] \in IdsOf(n)
        BY <1>a, StepTyped
      <3>2. s.on[2] \in IdsOf(n) => ~LeftGroup(s.on[2])
        BY NamesAssumption DEF NoGroupLeft, IdsOf
      <3> QED BY <1>2, <3>1, <3>2 DEF Rejected, Doing
    <2>2. Removing
      BY <2>1, Phases DEF ApplyVerbs
    <2>3. Emptying
      BY <2>1, <2>2, OrderPhases DEF Emptying, Removing, ApplyVerbs
    <2> QED BY <2>3 DEF RecordInv, Unrecorded
  <1>3. CASE Refuse(s) \/ NoChanges(s)
    <2>1. s.verb = "plan"
      BY <1>3, KindPhases
    <2>2. Opening
      BY <2>1, OpeningSteps
    <2>3. created \subseteq {Lib} /\ (created = {} \/ ~AnyRegistered(registry))
      BY <2>2 DEF RecordInv, Unrecorded
    <2>4. CASE Lib \in PreDirs
      BY <2>3, <2>4 DEF PreInv, PreexistingKept
    <2>5. CASE NoChanges(s)
      <3>1. Registered(n)
        BY <1>a, <2>5, Zenon DEF NoChanges, Complete
      <3> QED BY <2>3, <3>1, SomeEntry
    <2>6. CASE Refuse(s) /\ \A m \in Names : \A id \in IdsOf(m) : users[id] # "foreign"
      <3>1. PICK id \in IdsOf(n) : users[id] # "none"
        BY <1>a, <2>6 DEF Refuse, Refuses
      <3>2. id \in Ids
        BY NamesAssumption DEF IdsOf
      <3>3. users[id] = "smallapp"
        BY <2>6, <3>1, <3>2 DEF Inv, Typed
      <3>4. Registrants(id) # {}
        BY <3>2, <3>3 DEF Inv, Accounted, IdFree
      <3>5. AnyRegistered(registry)
        BY <3>4, SomeEntry DEF Registrants
      <3> QED BY <2>3, <3>5
    <2> QED BY <1>3, <2>4, <2>5, <2>6 DEF NoStrangers
  <1> QED BY <1>1, <1>2, <1>3

\* What the steps of an apply do to the directories and to their record.
LEMMA ApplyRecords ==
    ASSUME BaseInv, RecordInv, job # None, NEW s \in job.todo, ApplyStep(s) \/ CommitStep(s)
    PROVE  /\ \A d \in dirs' : Parent(d) \in dirs'
           /\ dirs \subseteq dirs'
           /\ MadeShared' \subseteq MadeShared \cup created'
           /\ created \subseteq created' /\ recorded \subseteq recorded'
           /\ FlushStep(s) => created' \subseteq recorded'
           /\ faults' = faults
  <1> USE DEF BaseInv, RecordInv
  <1>1. faults' = faults
    BY TakenDone DEF Taken, Done
  <1>2. FlushStep(s) => created' \subseteq recorded'
    BY DEF FlushStep, FlushCreated
  <1>3. CASE FlushStep(s)
    <2>1. UNCHANGED <<dirs, created>> /\ recorded' = recorded \cup created
      BY <1>3 DEF FlushStep, FlushCreated, tree
    <2> QED BY <1>1, <1>2, <2>1 DEF MadeShared
  <1>4. CASE MkdirStep(s) \/ WriteStep(s) \/ SyncStep(s) \/ MarkStep(s)
    <2>1. \E d : MkdirP(d)
      BY <1>4 DEF MkdirStep, WriteStep, SyncStep, MarkStep, Mkdir, Write
    <2> QED BY <1>1, <1>2, <2>1, MkdirRecords DEF PreInv
  <1>5. CASE StartStep(s)
    <2>1. PICK id : dirs' = dirs \cup {State(id)} /\ UNCHANGED <<created, recorded>>
      BY <1>5 DEF StartStep, Start, record
    <2>2. \A d \in dirs' : Parent(d) \in dirs'
      BY <2>1, Parents
    <2>3. MadeShared' \subseteq MadeShared
      BY <2>1, Parents DEF MadeShared
    <2> QED BY <1>1, <1>2, <2>1, <2>2, <2>3
  <1>6. CASE \/ UserStep(s) \/ JoinStep(s) \/ LeaveStep(s) \/ RestartCaddyStep(s)
             \/ DaemonReloadStep(s) \/ ReloadCaddyStep(s) \/ CommitStep(s)
    <2>1. UNCHANGED <<dirs, created, recorded>>
      BY <1>6 DEF UserStep, JoinStep, LeaveStep, RestartCaddyStep, DaemonReloadStep,
             ReloadCaddyStep, CommitStep, host, tree, record
    <2> QED BY <1>1, <1>2, <2>1 DEF MadeShared
  <1>7. CASE ChmodStep(s) \/ StaleStep(s) \/ SweepStep(s) \/ UnmarkStep(s) \/ GiveStep(s)
    <2>1. UNCHANGED <<dirs, created, recorded>>
      BY <1>7 DEF ChmodStep, StaleStep, SweepStep, UnmarkStep, GiveStep, Chmod, Remove, RemoveTemp,
             GiveTree, record
    <2> QED BY <1>1, <1>2, <2>1 DEF MadeShared
  <1> QED BY <1>3, <1>4, <1>5, <1>6, <1>7 DEF ApplyStep

\* And those of a removal, but for its last.
LEMMA RemovalRecords ==
    ASSUME BaseInv, RecordInv, job # None, NEW s \in job.todo, RmStep(s) \/ DropStep(s)
    PROVE  /\ \A d \in dirs' : Parent(d) \in dirs'
           /\ dirs' \cap Shared = dirs \cap Shared
           /\ UNCHANGED <<created, recorded, faults>>
  <1> USE DEF BaseInv, RecordInv
  <1>1. faults' = faults
    BY TakenDone DEF Taken, Done
  <1>2. CASE RemoveTreeStep(s)
    <2>1. dirs' = dirs \ {s.on} /\ UNCHANGED <<created, recorded>>
      BY <1>2 DEF RemoveTreeStep, RemoveTree, record
    <2>2. PICK n \in Names : n = job.unit
      BY DEF Inv, Typed
    <2>3. s.on \in OwnDirs(n)
      BY <1>2, <2>2, StepTyped, Zenon DEF RemoveTreeStep, Doing
    <2>4. s.on \notin Shared
      BY <2>3, Parents
    <2> QED BY <1>1, <2>1, <2>4, Parents
  <1>3. CASE \/ DisableStep(s) \/ StaleStep(s) \/ UserdelStep(s) \/ DaemonReloadStep(s)
             \/ ReloadCaddyStep(s) \/ DropStep(s)
    <2>1. UNCHANGED <<dirs, created, recorded>>
      BY <1>3 DEF DisableStep, StaleStep, UserdelStep, DaemonReloadStep, ReloadCaddyStep, DropStep,
             Remove, host, tree, record
    <2> QED BY <1>1, <2>1
  <1> QED BY <1>2, <1>3 DEF RmStep

\* A step of a command that goes on keeps the record as it should be.
LEMMA TakenRecords ==
    ASSUME BaseInv, RecordInv, job # None, NEW s \in job.todo, Taken(s),
           ApplyNext(s) \/ RmNext(s) \/ Rejected(s) \/ Fault(s), NoGroupLeft' => NoGroupLeft
    PROVE  RecordInv'
  <1> USE DEF BaseInv
  <1>t. faults' = 0 => temps' = {}
    <2>1. ApplyNext(s) \/ RmNext(s)
      BY DEF Taken, ApplyStep, RmStep, ApplyNext, RmNext
    <2>2. temps' \subseteq temps /\ faults' = faults
      BY <2>1, TempsShrink, TakenDone DEF Done
    <2> QED BY <2>2 DEF RecordInv
  <1>a. PICK n \in Names : n = job.unit
    BY DEF Inv, Typed
  <1>1. /\ job'.op = job.op /\ job'.unit = n /\ job'.todo = job.todo \ {s} /\ job' # None
        /\ s.verb \notin {"plan", "load", "print", "prune"} /\ First(s)
    <2>1. job' # None
      BY CommandGoesOn
    <2>2. Done(s) /\ First(s) /\ s.verb \notin {"plan", "load", "print", "prune"}
      BY TakenDone
    <2>3. job'.op = job.op /\ job'.unit = n /\ job'.todo = job.todo \ {s}
      BY <1>a, <2>2, DoneJob DEF Inv, Typed, JobTyped
    <2> QED BY <2>1, <2>2, <2>3
  <1>2. Lib \in dirs
    BY DEF RecordInv
  <1>3. CASE Applying /\ Ordered /\ (ApplyStep(s) \/ CommitStep(s))
    <2>1. Planned /\ ~Past(Flushing) /\ Due(Flushing)
      BY <1>3, BeforeFlush DEF Planned, Applying, RecordInv, Unrecorded
    <2>2. Ordered' /\ job'.op = "apply"
      BY <1>1, <1>3, TakenDone, DoneOrdered
    <2>3. Flushing \in Fixed(n)
      BY DEF Fixed
    <2>4. Due(Flushing)'
      BY <1>1, <1>3, <1>a, <2>1, <2>3, StaysDue DEF Ordered
    <2>5. Past(Flushing)' => created' \subseteq recorded'
      <3>1. ASSUME Past(Flushing)' PROVE FlushStep(s)
        <4>1. \A r \in job'.todo : Flushing.at < r.at
          BY <3>1 DEF Past, After
        <4>2. s = Flushing
          BY <1>1, <2>1, <2>3, <4>1, PastWhenDone
        <4>3. s.verb = "flush"
          BY <4>2, FixedVerbs, Zenon
        <4> QED BY <1>3, <4>3, Zenon DEF ApplyStep, CommitStep, UserStep, MkdirStep, ChmodStep,
                WriteStep, StaleStep, SweepStep, UnmarkStep, SyncStep, MarkStep, GiveStep, JoinStep, LeaveStep,
                RestartCaddyStep, DaemonReloadStep, StartStep, ReloadCaddyStep, Doing
      <3> QED BY <3>1, <1>3, ApplyRecords
    <2>6. ~Opening' /\ ~Emptying'
      <3>1. \A u : Printing(u).verb = "print"
        BY FixedVerbs, Zenon
      <3>2. ~Opening'
        BY <2>2, <3>1 DEF Ordered, Opening
      <3> QED BY <2>2, <3>2 DEF Emptying
    <2>7. Unrecorded'
      BY <1>1, <2>4, <2>5, <2>6 DEF Unrecorded
    <2> QED BY <1>t, <1>2, <1>3, <2>7, ApplyRecords DEF RecordInv
  <1>4. CASE Removing /\ Pruning \in job.todo /\ (RmStep(s) \/ DropStep(s))
    <2>1. Emptying /\ created = {}
      BY <1>4 DEF Emptying, Removing, RecordInv, Unrecorded
    <2>2. Pruning.verb = "prune"
      BY DEF Pruning, Action
    <2>3. Pruning \in job'.todo
      BY <1>1, <2>1, <2>2 DEF Emptying
    <2>4. ~Opening' /\ ~Planned'
      <3>1. ~Opening'
        BY <2>2, <2>3 DEF Opening
      <3>2. job'.op = "rm"
        BY <1>1, <2>1 DEF Emptying
      <3> QED BY <3>1, <3>2 DEF Planned
    <2>5. Unrecorded'
      BY <1>1, <1>4, <2>1, <2>4, RemovalRecords DEF Unrecorded
    <2>6. Lib \in dirs'
      BY <1>2, <1>4, RemovalRecords, Parents
    <2>7. MadeShared' = MadeShared
      BY <1>4, RemovalRecords DEF MadeShared
    <2> QED BY <1>t, <1>4, <2>5, <2>6, <2>7, RemovalRecords DEF RecordInv
  <1> QED BY <1>3, <1>4, KindPhases

\* Every step of a command keeps the record as it should be.
LEMMA CommandKeepsRecord ==
    ASSUME BaseInv, RecordInv, NoStrangers, job # None, NEW s \in job.todo,
           ApplyNext(s) \/ RmNext(s) \/ Rejected(s) \/ Fault(s), NoGroupLeft' => NoGroupLeft
    PROVE  RecordInv'
  <1> USE DEF BaseInv
  <1>a. PICK n \in Names : n = job.unit
    BY DEF Inv, Typed
  <1>b. Lib \in dirs
    BY DEF RecordInv
  <1>1. CASE Taken(s)
    BY <1>1, TakenRecords
  <1>2. CASE Ends(s)
    <2>1. job' = None /\ registry' = registry
      BY <1>2, EndsJob
    <2>2. ~Opening' /\ ~Emptying' /\ ~Planned'
      BY <2>1 DEF Opening, Emptying, Planned
    <2>3. CASE NotFound(s) \/ PruneStep(s)
      <3>1. PruneCreated(AnyRegistered(registry)) /\ faults' = faults
        BY <2>3 DEF NotFound, PruneStep
      <3>2. /\ \A d \in dirs' : Parent(d) \in dirs'
            /\ AnyRegistered(registry) => Lib \in dirs'
            /\ created' = {}
            /\ temps = {} /\ MadeShared \subseteq recorded \cup created =>
                  MadeShared' \subseteq recorded'
        BY <1>b, <3>1, PruneRecords DEF RecordInv, Inv, TreeTyped
      <3>3. temps' = temps
        BY <3>1 DEF PruneCreated
      <3> QED BY <2>1, <2>2, <3>1, <3>2, <3>3 DEF RecordInv, Unrecorded
    <2>4. CASE Fault(s)
      <3>1. created' = {} /\ faults' = faults + 1 /\ (UNCHANGED dirs \/ CutOff(s.on))
        BY <2>4 DEF Fault, Exit, tree
      <3>2. faults' # 0
        BY <3>1, BoundsAssumption DEF SecretsTyped
      <3>3. dirs \subseteq dirs' /\ \A d \in dirs' : Parent(d) \in dirs'
        <4>1. CASE UNCHANGED dirs
          BY <4>1 DEF RecordInv
        <4>2. CASE CutOff(s.on)
          <5>1. dirs' = dirs \cup {DirOf(s.on), Parent(DirOf(s.on))}
            BY <4>2 DEF CutOff
          <5>2. Host \in dirs
            BY DEF PreInv
          <5> QED BY <5>1, <5>2, Parents DEF RecordInv
        <4> QED BY <3>1, <4>1, <4>2
      <3> QED BY <1>b, <2>1, <2>2, <3>1, <3>2, <3>3 DEF RecordInv, Unrecorded
    <2>5. CASE Refuse(s) \/ NoChanges(s) \/ Rejected(s) \/ PrintStep(s)
      <3>1. UNCHANGED <<dirs, temps, recorded, faults>> /\ created' = {}
        BY <2>5 DEF Refuse, NoChanges, Rejected, PrintStep, Exit, tree
      <3>2. NoGroupLeft' => created \subseteq recorded
        BY <2>5, EndsRecorded
      <3> QED BY <1>b, <2>1, <2>2, <3>1, <3>2 DEF RecordInv, Unrecorded, MadeShared
    <2> QED BY <1>2, <2>3, <2>4, <2>5 DEF Ends
  <1>3. CASE PutIncomplete(s)
    <2>1. job.op = "apply"
      BY <1>3, KindPhases
    <2>2. Ordered' /\ job'.op = "apply"
      BY <1>3, <2>1, PutOrdered
    <2>3. UNCHANGED <<dirs, temps, created, recorded, faults>> /\ job' # None
      BY <1>3, CommandGoesOn DEF PutIncomplete, host, tree, record
    <2>4. Flushing \in job'.todo
      <3>1. PICK m \in Names, t \in Targets : \E secret \in SecretsFor(m) :
               job'.todo = Build(m, t, secret) \cup Ending(m)
        BY <1>3, <2>1, PutPlan
      <3>2. Flushing \in Ending(m)
        BY Zenon DEF Flushing, Ending
      <3> QED BY <3>1, <3>2
    <2>5. Due(Flushing)' /\ ~Past(Flushing)'
      <3>1. Flushing.at = 28
        BY FixedPlaces
      <3> QED BY <2>4, <3>1 DEF Due, Past, After
    <2>6. ~Opening' /\ ~Emptying'
      <3>1. Flushing.verb = "flush"
        BY FixedVerbs, Zenon
      <3> QED BY <2>2, <2>4, <3>1 DEF Opening, Emptying
    <2>7. Unrecorded'
      BY <2>3, <2>5, <2>6 DEF Unrecorded
    <2> QED BY <1>b, <2>3, <2>7 DEF RecordInv, MadeShared
  <1>4. CASE LoadUnit(s)
    <2>1. /\ Registered(n) /\ UNCHANGED <<dirs, temps, created, recorded, registry, faults>>
          /\ job'.op = job.op /\ job'.todo = RemovalActions(n) /\ s.verb = "load"
      BY <1>4, <1>a DEF LoadUnit, Doing, Inv, Typed, JobFields, host, tree, record
    <2>2. job' # None /\ job'.op = "rm"
      BY <1>4, <2>1, CommandGoesOn, KindPhases
    <2>3. Pruning \in job'.todo /\ Pruning.verb = "prune"
      <3>1. Pruning \in RemovalScript(n) /\ Pruning.verb = "prune"
        BY Zenon DEF Pruning, RemovalScript, Action
      <3>2. Pruning \notin UserdelActions(n)
        BY DEF Pruning, UserdelActions, Action
      <3> QED BY <2>1, <3>1, <3>2 DEF RemovalActions, When
    <2>4. ~Opening' /\ ~Planned'
      BY <2>2, <2>3 DEF Opening, Planned
    <2>5. created = {}
      BY <2>1, OpeningSteps, SomeEntry DEF RecordInv, Unrecorded
    <2>6. Unrecorded'
      BY <2>1, <2>2, <2>4, <2>5 DEF Unrecorded
    <2> QED BY <1>b, <2>1, <2>6 DEF RecordInv, MadeShared
  <1> QED BY <1>1, <1>2, <1>3, <1>4, StepKinds

\* What has no entry, and what will have none.
LEMMA CommandKeepsGone ==
    ASSUME BaseInv, GoneInv, job # None, NEW s \in job.todo,
           ApplyNext(s) \/ RmNext(s) \/ Rejected(s) \/ Fault(s)
    PROVE  /\ GoneInv'
           /\ told'[job.unit] = Gone => NotFound(s) \/ PruneStep(s)
  <1> USE DEF BaseInv
  <1>a. PICK n \in Names : n = job.unit
    BY DEF Inv, Typed
  <1>1. told[n] = None /\ None # Gone /\ told \in [Names -> {None, Gone} \cup Targets]
    BY <1>a, ReportsAssumption DEF ToldInv
  <1>2. ASSUME told'[n] = Gone PROVE NotFound(s) \/ PruneStep(s)
    <2>1. CASE Ends(s)
      <3>1. CASE Refuse(s) \/ Rejected(s) \/ Fault(s)
        BY <1>1, <1>2, <3>1 DEF Refuse, Rejected, Fault
      <3>2. CASE NoChanges(s) \/ PrintStep(s)
        <4>1. told'[n] = job.target
          BY <1>a, <1>1, <3>2 DEF NoChanges, PrintStep
        <4>2. job.op = "apply"
          BY <3>2, KindPhases DEF Applying
        <4>3. job.target \in Targets
          BY <4>2 DEF Inv, Typed
        <4> QED BY <1>2, <4>1, <4>3, ReportsAssumption
      <3> QED BY <2>1, <3>1, <3>2 DEF Ends
    <2>2. CASE PutIncomplete(s) \/ LoadUnit(s) \/ Taken(s)
      <3>1. told' = told
        BY <2>2, TakenDone DEF PutIncomplete, LoadUnit, Done
      <3> QED BY <1>1, <1>2, <3>1
    <2> QED BY <2>1, <2>2, StepKinds
  <1>3. ASSUME NotFound(s) \/ PruneStep(s) PROVE ~Registered(n)
    <2>1. CASE NotFound(s)
      BY <1>a, <2>1 DEF NotFound
    <2>2. CASE PruneStep(s)
      <3>1. Removing /\ Emptying /\ First(s) /\ s.verb = "prune"
        BY <2>2, KindPhases DEF PruneStep, Doing, Emptying, Removing
      <3>2. s.at = 15
        <4>1. s \in RemovalScript(n)
          BY <1>a, <3>1 DEF Removing
        <4> QED BY <3>1, <4>1, ScriptFields
      <3>3. Dropping(n).at = 14
        BY DEF Dropping, Action
      <3>4. Dropping(n) \notin job.todo
        BY <3>1, <3>2, <3>3 DEF First
      <3> QED BY <1>a, <3>1, <3>4 DEF GoneInv
    <2> QED BY <1>3, <2>1, <2>2
  <1>4. ASSUME NEW m \in Names, told'[m] = Gone PROVE ~Registered(m)'
    <2>1. CASE m = n
      <3>1. ~Registered(n) /\ registry' = registry
        BY <1>2, <1>3, <1>4, <2>1 DEF NotFound, PruneStep
      <3> QED BY <2>1, <3>1 DEF Registered
    <2>2. CASE m # n
      <3>1. told'[m] = told[m]
        BY <1>a, <2>2, ToldSteps
      <3>2. registry'[m] = registry[m]
        BY <1>a, <2>2, RegistrySteps
      <3> QED BY <1>4, <3>1, <3>2 DEF GoneInv, Registered
    <2> QED BY <2>1, <2>2
  <1>5. ASSUME Emptying', NEW u, u = job'.unit
        PROVE  Dropping(u) \in job'.todo \/ ~Registered(u)'
    <2>1. CASE Ends(s)
      BY <1>5, <2>1, EndsJob DEF Emptying
    <2>2. CASE PutIncomplete(s)
      <3>1. job'.op = "apply"
        BY <2>2, KindPhases, PutOrdered
      <3> QED BY <1>5, <3>1 DEF Emptying
    <2>3. CASE LoadUnit(s)
      <3>1. u = n /\ job'.todo = RemovalActions(n)
        BY <1>5, <1>a, <2>3 DEF LoadUnit, Inv, Typed, JobFields
      <3>2. Dropping(n) \in RemovalScript(n)
        BY Zenon DEF Dropping, RemovalScript
      <3>3. Dropping(n) \notin UserdelActions(n)
        BY DEF Dropping, UserdelActions, Action
      <3> QED BY <3>1, <3>2, <3>3 DEF RemovalActions, When
    <2>4. CASE Taken(s)
      <3>1. job'.op = job.op /\ job'.unit = n /\ job'.todo = job.todo \ {s}
        BY <1>a, <2>4, TakenDone, DoneJob DEF Inv, Typed, JobTyped
      <3>2. job.op = "rm"
        BY <1>5, <3>1 DEF Emptying
      <3>3. Emptying /\ Removing /\ (RmStep(s) \/ DropStep(s))
        BY <2>4, <3>2, KindPhases DEF Emptying, Applying
      <3>4. CASE DropStep(s)
        <4>1. registry'[n] = None
          BY <1>a, <3>4 DEF DropStep, Inv, Typed
        <4> QED BY <1>5, <3>1, <4>1 DEF Registered
      <3>5. CASE ~DropStep(s)
        <4>1. s # Dropping(n)
          <5>1. Dropping(n).verb = "drop"
            BY DEF Dropping, Action
          <5> QED BY <3>3, <3>5, <5>1, Zenon DEF RmStep, DisableStep, RemoveTreeStep, StaleStep,
                  UserdelStep, DaemonReloadStep, ReloadCaddyStep, Doing
        <4>2. registry' = registry
          BY <3>3, <3>5, Zenon DEF RmStep, DisableStep, RemoveTreeStep, StaleStep, UserdelStep,
             DaemonReloadStep, ReloadCaddyStep
        <4>3. Dropping(n) \in job.todo \/ ~Registered(n)
          BY <1>a, <3>3 DEF GoneInv
        <4> QED BY <1>5, <3>1, <4>1, <4>2, <4>3 DEF Registered
      <3> QED BY <3>4, <3>5
    <2> QED BY <2>1, <2>2, <2>3, <2>4, StepKinds
  <1>6. Emptying' => Dropping(job.unit)' \in job'.todo \/ ~Registered(job.unit)'
    BY <1>5 DEF Dropping, Registered
  <1> QED BY <1>a, <1>2, <1>4, <1>6 DEF GoneInv

\* No command makes an account a stranger's.
LEMMA CommandKeepsStrangers ==
    ASSUME Inv, job # None, NEW s \in job.todo, ApplyNext(s) \/ RmNext(s) \/ Rejected(s) \/ Fault(s),
           NEW id \in Ids, users'[id] = "foreign"
    PROVE  users[id] = "foreign"
  <1>1. CASE UserStep(s)
    BY <1>1 DEF UserStep, CreateUser, Inv, Typed
  <1>2. CASE UserdelStep(s)
    BY <1>2 DEF UserdelStep, DeleteUser, Inv, Typed
  <1>3. CASE ~UserStep(s) /\ ~UserdelStep(s)
    <2>1. users' = users
      <3>1. CASE QuietStep(s)
        BY <3>1, QuietSteps
      <3>2. CASE ~QuietStep(s)
        BY <1>3, <3>2 DEF QuietStep, ApplyNext, RmNext, WriteStep, StaleStep, SweepStep, UnmarkStep, SyncStep,
               MarkStep, StartStep, DisableStep, RemoveTreeStep, accounts
      <3> QED BY <3>1, <3>2
    <2> QED BY <2>1
  <1> QED BY <1>1, <1>2, <1>3

LEMMA NextKeepsStrangers ==
    ASSUME Inv, RefusesNothing, NoStrangers, [Next]_vars
    PROVE  NoStrangers'
  <1>0. \A n \in Names : IdsOf(n) \subseteq Ids
    BY NamesAssumption DEF IdsOf
  <1>1. CASE \E s \in Todo : ApplyNext(s) \/ RmNext(s) \/ Rejected(s) \/ Fault(s)
    BY <1>0, <1>1, CommandKeepsStrangers DEF Todo, NoStrangers
  <1>2. CASE (\E id \in AdminIds : AdminAddsUser(id)) \/ (\E k \in AdminNames : AdminChmods(k))
    BY <1>0, <1>2 DEF AdminAddsUser, AdminChmods, accounts, NoStrangers, RefusesNothing, Inv, Typed
  <1>3. CASE \/ \E n \in Names : BeginRm(n) \/ \E t \in Targets : BeginApply(n, t)
             \/ \E n \in Writers : AppWrites(n)
             \/ UNCHANGED vars
    <2>1. users' = users
      BY <1>3 DEF BeginRm, BeginApply, Start_, AppWrites, vars, host, accounts
    <2> QED BY <2>1 DEF NoStrangers
  <1> QED BY <1>1, <1>2, <1>3 DEF Next

\* The beginning of a command, and what is no step of one.
LEMMA BeginKeepsRecord ==
    ASSUME BaseInv, RecordInv, GoneInv, NEW n \in Names,
           BeginRm(n) \/ \E t \in Targets : BeginApply(n, t)
    PROVE  RecordInv' /\ GoneInv' /\ (NoGroupLeft => Reversible)'
  <1> USE DEF BaseInv
  <1>1. /\ job = None /\ told' = [told EXCEPT ![n] = None] /\ MkdirP(Lib)
        /\ UNCHANGED <<registry, faults, temps>> /\ ~Planned'
    BY Begun
  <1>a. NoGroupLeft' => NoGroupLeft
    <2>1. UNCHANGED accounts
      BY DEF BeginRm, BeginApply, Start_
    <2> QED BY <2>1 DEF accounts, NoGroupLeft, LeftGroup
  <1>2. PICK verb \in {"plan", "load"} : job'.todo = {Action(0, verb, <<"unit", n>>)}
    BY DEF BeginRm, BeginApply, Start_
  <1>3. told'[n] = None /\ None # Gone
    BY <1>1, ReportsAssumption DEF ToldInv
  <1>4. Reversible'
    BY <1>3 DEF Reversible
  <1>5. ~Emptying'
    <2>1. Pruning.verb = "prune" /\ Action(0, verb, <<"unit", n>>).verb = verb
      BY DEF Pruning, Action
    <2> QED BY <1>2, <2>1 DEF Emptying
  <1>6. GoneInv'
    BY <1>1, <1>3, <1>5 DEF GoneInv, Registered, ToldInv
  <1>7. created = {} /\ Host \in dirs
    BY <1>1 DEF RecordInv, Unrecorded, PreInv
  <1>8. /\ created' \subseteq {Lib} /\ (Lib \in dirs => created' = {}) /\ Lib \in dirs'
    BY <1>1, <1>7, Parents DEF MkdirP
  <1>9. created' = {} \/ ~AnyRegistered(registry)'
    BY <1>1, <1>8 DEF RecordInv
  <1>10. job' # None
    BY BeginsTyped
  <1>11. Unrecorded'
    BY <1>1, <1>5, <1>8, <1>9, <1>10 DEF Unrecorded
  <1> QED BY <1>a, <1>1, <1>4, <1>6, <1>7, <1>8, <1>11, MkdirRecords DEF RecordInv

\* The directories are given back when the last unit is.
LEMMA CommandGivesBack ==
    ASSUME BaseInv, RecordInv, GoneInv, NoStrangers, job # None, NEW s \in job.todo,
           ApplyNext(s) \/ RmNext(s) \/ Rejected(s) \/ Fault(s), NoGroupLeft
    PROVE  Reversible'
  <1> USE DEF BaseInv
  <1> SUFFICES ASSUME faults' = 0, job' = None, \A n \in Names : told'[n] = Gone
               PROVE  dirs' = (PreDirs \cup {Host})
    BY DEF Reversible
  <1>1. job.unit \in Names
    BY DEF Inv, Typed
  <1>2. (NotFound(s) \/ PruneStep(s)) /\ \A n \in Names : ~Registered(n)'
    BY <1>1, CommandKeepsGone DEF GoneInv
  <1>3. /\ PruneCreated(AnyRegistered(registry))
        /\ faults = 0 /\ registry' = registry
    BY <1>2 DEF NotFound, PruneStep
  <1>4. ~AnyRegistered(registry)
    BY <1>2, <1>3 DEF Registered, AnyRegistered
  <1>5. Lib \in dirs /\ temps = {} /\ MadeShared \subseteq recorded \cup created
    BY <1>3 DEF RecordInv
  <1> QED BY <1>3, <1>4, <1>5, PruneRecords DEF RecordInv, Inv, TreeTyped

\* What is no step of a command leaves the directories and their record alone.
LEMMA OthersKeepRecord ==
    ASSUME RecordInv, GoneInv, NoGroupLeft => Reversible, NoGroupLeft' => NoGroupLeft,
           \/ \E id \in AdminIds : AdminAddsUser(id)
           \/ \E k \in AdminNames : AdminChmods(k)
           \/ \E n \in Writers : AppWrites(n)
           \/ UNCHANGED vars
    PROVE  RecordInv' /\ GoneInv' /\ (NoGroupLeft => Reversible)'
  <1>1. UNCHANGED <<dirs, temps, created, recorded, registry, job, told, faults>>
    BY DEF AdminAddsUser, AdminChmods, AppWrites, vars, host, tree, record
  <1>2. Unrecorded'
    BY <1>1 DEF RecordInv, Unrecorded, Opening, Emptying, Planned, Applying, Ordered, Due, Past, After
  <1>3. GoneInv'
    BY <1>1 DEF GoneInv, Emptying, Registered
  <1> QED BY <1>1, <1>2, <1>3 DEF RecordInv, MadeShared, Reversible

\* An apply on its way has its accounts, or makes them (PlaceInv says more of one unit).
MakingInv == Planned => Making(job.unit)

LEMMA NextKeepsMaking ==
    ASSUME Inv, OrderInv, MakingInv, [Next]_vars
    PROVE  MakingInv'
  <1>1. ASSUME NEW s \in Todo, ApplyNext(s) \/ RmNext(s) \/ Rejected(s) \/ Fault(s)
        PROVE  MakingInv'
    <2>0. job # None /\ s \in job.todo
      BY DEF Todo
    <2>1. CASE Ends(s)
      BY <2>1, EndsJob DEF MakingInv, Planned
    <2>2. CASE PutIncomplete(s)
      <3>1. job.op = "apply"
        BY <2>0, <2>2, KindPhases
      <3>2. Making(job.unit)' /\ job'.unit = job.unit
        BY <2>2, <3>1, PutMaking, PutOrdered
      <3> QED BY <3>2 DEF MakingInv
    <2>3. CASE LoadUnit(s)
      <3>1. job'.op = "rm"
        BY <2>0, <2>3, KindPhases DEF LoadUnit, Inv, Typed, JobFields
      <3> QED BY <3>1 DEF MakingInv, Planned
    <2>4. CASE Taken(s)
      <3>a. PICK n : n = job.unit
        OBVIOUS
      <3>1. Done(s) /\ First(s)
        BY <2>4, TakenDone
      <3>2. job'.unit = n /\ job'.op = job.op /\ job'.todo = job.todo \ {s}
        BY <2>0, <3>a, <3>1 DEF Done, Inv, Typed, JobFields
      <3>3. CASE Applying /\ Ordered /\ (ApplyStep(s) \/ CommitStep(s))
        <4>1. Planned
          BY <2>0, <3>3 DEF Planned, Applying
        <4>2. Making(n)'
          BY <2>0, <3>a, <3>1, <3>2, <3>3, <4>1, ApplyKeepsMaking DEF MakingInv
        <4> QED BY <3>2, <4>2 DEF MakingInv
      <3>4. CASE Removing
        BY <3>2, <3>4 DEF MakingInv, Planned, Removing
      <3> QED BY <2>0, <2>4, <3>3, <3>4, KindPhases
    <2> QED BY <1>1, <2>1, <2>2, <2>3, <2>4, StepKinds
  <1>2. ASSUME NEW n \in Names, BeginRm(n) \/ \E t \in Targets : BeginApply(n, t)
        PROVE  MakingInv'
    BY <1>2, Begun DEF MakingInv
  <1>3. CASE \/ \E id \in AdminIds : AdminAddsUser(id)
             \/ \E k \in AdminNames : AdminChmods(k)
             \/ \E m \in Writers : AppWrites(m)
             \/ UNCHANGED vars
    <2>1. CASE job = None
      <3>1. job' = None
        BY <1>3, <2>1 DEF AdminAddsUser, AdminChmods, AppWrites, vars
      <3> QED BY <3>1 DEF MakingInv, Planned
    <2>2. CASE job # None
      <3>1. UNCHANGED <<users, dirs, loose, job>> /\ owned \subseteq owned'
        BY <1>3, <2>2 DEF AdminAddsUser, AdminChmods, AppWrites, vars, host, accounts, tree
      <3>2. Planned' => Planned
        BY <3>1 DEF Planned, Ordered, Due, After
      <3>3. /\ \A verb, on : Pending(verb, on)' <=> Pending(verb, on)
            /\ \A a : Past(a)' <=> Past(a)
        BY <3>1 DEF Pending, Past, After
      <3>4. PICK n : n = job.unit
        OBVIOUS
      <3>5. Making(n) => Making(n)'
        BY <3>1, <3>3 DEF Making, InPlace, There
      <3> QED BY <3>1, <3>2, <3>4, <3>5 DEF MakingInv
    <2> QED BY <2>1, <2>2
  <1> QED BY <1>1, <1>2, <1>3 DEF Next

\* A group that userdel has left behind stays: nobody can make its account again.
LEMMA GroupsStayLeft ==
    ASSUME Inv, OrderInv, MakingInv, [Next]_vars, NoGroupLeft'
    PROVE  NoGroupLeft
  <1> SUFFICES ASSUME NEW id \in Ids, LeftGroup(id) PROVE LeftGroup(id)'
    BY DEF NoGroupLeft
  <1>0. id \in groups /\ users[id] = "none" /\ users \in [Ids -> {"none", "smallapp", "foreign"}]
    BY DEF LeftGroup, Inv, Typed
  <1>1. CASE UNCHANGED <<users, groups>>
    BY <1>1 DEF LeftGroup
  <1>2. ASSUME NEW s \in Todo, ApplyNext(s) \/ RmNext(s) \/ Rejected(s) \/ Fault(s)
        PROVE  LeftGroup(id)'
    <2>0. job # None /\ s \in job.todo
      BY DEF Todo
    <2>1. CASE UserStep(s)
      <3>1. ~LeftGroup(s.on[2]) /\ users' = [users EXCEPT ![s.on[2]] = "smallapp"] /\ UNCHANGED groups
        BY <2>1 DEF UserStep, CreateUser
      <3>2. s.on[2] # id
        BY <3>1
      <3> QED BY <1>0, <3>1, <3>2 DEF LeftGroup
    <2>2. CASE UserdelStep(s)
      <3>1. users' = [users EXCEPT ![s.on[2]] = "none"]
        BY <2>2 DEF UserdelStep, DeleteUser
      <3>2. id \in groups'
        BY <1>0, <2>2 DEF UserdelStep, DeleteUser
      <3> QED BY <1>0, <3>1, <3>2 DEF LeftGroup
    <2>3. CASE ~UserStep(s) /\ ~UserdelStep(s)
      <3>1. users' = users
        <4>1. CASE QuietStep(s)
          BY <4>1, QuietSteps
        <4>2. CASE ~QuietStep(s)
          BY <1>2, <2>3, <4>2 DEF QuietStep, ApplyNext, RmNext, WriteStep, StaleStep, UnmarkStep,
                 SyncStep, MarkStep, StartStep, DisableStep, RemoveTreeStep, accounts
        <4> QED BY <4>1, <4>2
      <3>2. id \in groups'
        <4>1. CASE LeaveStep(s)
          <5>1. s.verb = "leave" /\ groups' = groups \ {s.on[2]} /\ Taken(s) /\ First(s)
            BY <4>1 DEF LeaveStep, RemoveGroupMember, Doing, Taken, ApplyStep
          <5>2. Planned /\ Applying
            <6>1. ~RmStep(s) /\ ~DropStep(s)
              BY <5>1, Zenon DEF RmStep, DropStep, DisableStep, RemoveTreeStep, StaleStep, UserdelStep,
                     DaemonReloadStep, ReloadCaddyStep, Doing
            <6> QED BY <2>0, <5>1, <6>1, KindPhases DEF Planned, Applying
          <5>3. PICK n : n = job.unit
            OBVIOUS
          <5>4. s.on = <<"group", n>>
            BY <2>0, <5>1, <5>2, <5>3, JoiningPlace DEF Joining, Planned, Ordered
          <5>5. \A r \in job.todo : Slot(n, r) /\ r.at \in 1..29 /\ s.at <= r.at
            BY <2>0, <5>1, <5>2, <5>3, SlotNumbers DEF Planned, Ordered, First
          <5>6. s.at = 19
            BY <2>0, <5>1, <5>5, JoiningPlace DEF Joining
          <5>7. \A r \in job.todo : r.verb # "user"
            <6> SUFFICES ASSUME NEW r \in job.todo, r.verb = "user" PROVE FALSE
              OBVIOUS
            <6>1. r \notin Fixed(n)
              BY FixedNotPreparing DEF Preparing
            <6>2. r.at \in 1..8
              BY <5>5, <6>1 DEF Slot
            <6>3. 19 <= r.at
              BY <5>5, <5>6
            <6> QED BY ONLY <6>2, <6>3
          <5>8. users[n] # "none"
            BY <5>2, <5>3, <5>7 DEF MakingInv, Making, IdsOf, Pending
          <5>9. s.on[2] # id
            BY <1>0, <5>4, <5>8
          <5> QED BY <1>0, <5>1, <5>9
        <4>2. CASE ~LeaveStep(s)
          <5>1. groups \subseteq groups'
            <6>1. CASE JoinStep(s)
              BY <6>1, GroupSteps
            <6>2. CASE ~JoinStep(s)
              <7>1. \/ Ends(s) \/ PutIncomplete(s) \/ LoadUnit(s)
                    \/ ApplyStep(s) \/ CommitStep(s) \/ RmStep(s) \/ DropStep(s)
                BY <1>2, StepKinds DEF Taken
              <7> QED BY <2>3, <4>2, <6>2, <7>1, GroupSteps
            <6> QED BY <6>1, <6>2
          <5> QED BY <1>0, <5>1
        <4> QED BY <4>1, <4>2
      <3> QED BY <1>0, <3>1, <3>2 DEF LeftGroup
    <2> QED BY <2>1, <2>2, <2>3
  <1>3. ASSUME NEW i \in AdminIds, AdminAddsUser(i)
        PROVE  LeftGroup(id)'
    <2>1. ~LeftGroup(i) /\ users' = [users EXCEPT ![i] = "foreign"] /\ UNCHANGED groups
      BY <1>3 DEF AdminAddsUser
    <2>2. i # id
      BY <2>1
    <2> QED BY <1>0, <2>1, <2>2 DEF LeftGroup
  <1>4. CASE \/ \E n \in Names : BeginRm(n) \/ \E t \in Targets : BeginApply(n, t)
             \/ \E k \in AdminNames : AdminChmods(k)
             \/ \E m \in Writers : AppWrites(m)
             \/ UNCHANGED vars
    <2>1. UNCHANGED <<users, groups>>
      BY <1>4 DEF BeginRm, BeginApply, Start_, AdminChmods, AppWrites, vars, host, accounts
    <2> QED BY <1>1, <2>1
  <1> QED BY <1>2, <1>3, <1>4 DEF Next

RevInv == /\ BaseInv /\ NoStrangers /\ MakingInv /\ RecordInv /\ GoneInv
          /\ NoGroupLeft => Reversible

LEMMA InitRev == RefusesNothing /\ Init => RevInv
  <1> SUFFICES ASSUME RefusesNothing, Init PROVE RevInv
    OBVIOUS
  <1>1. job = None /\ \A n \in Names : told[n] = None /\ ~Registered(n)
    BY DEF Init, Registered
  <1>2. BaseInv
    <2>1. OrderInv /\ UnderwayInv /\ SecretsTyped /\ JobsTyped
      BY <1>1, BoundsAssumption DEF OrderInv, UnderwayInv, SecretsTyped, JobsTyped, Init
    <2>2. ToldInv
      BY <1>1, ReportsAssumption DEF ToldInv, Init, Applied, Planned
    <2>3. TreeTyped /\ PreInv
      BY PreDirsAssumption, DirTypes DEF TreeTyped, PreInv, PreexistingKept, Init, SystemInit
    <2>4. FilesTyped
      BY DEF FilesTyped, Init, SystemInit
    <2> QED BY <2>1, <2>2, <2>3, <2>4, InitInv DEF BaseInv
  <1>3. ~Opening /\ ~Emptying /\ ~Planned
    BY <1>1 DEF Opening, Emptying, Planned
  <1>4. RecordInv
    <2>1. dirs = PreDirs \cup {Host} /\ created = {}
      BY DEF Init, SystemInit
    <2>2. \A d \in dirs : Parent(d) \in dirs
      BY <2>1, Parents, PreDirsAssumption
    <2>3. ~AnyRegistered(registry)
      BY <1>1, SomeEntry
    <2>4. temps = {}
      BY DEF Init, SystemInit
    <2> QED BY <1>1, <1>3, <2>1, <2>2, <2>3, <2>4 DEF RecordInv, Unrecorded, MadeShared
  <1>5. GoneInv /\ Reversible
    BY <1>1, <1>3, ReportsAssumption DEF GoneInv, Reversible, Init, SystemInit
  <1>6. NoStrangers
    BY NamesAssumption DEF NoStrangers, RefusesNothing, IdsOf, Init, SystemInit
  <1>7. MakingInv
    BY <1>3 DEF MakingInv
  <1> QED BY <1>2, <1>4, <1>5, <1>6, <1>7 DEF RevInv

LEMMA NextRev == RefusesNothing /\ RevInv /\ [Next]_vars => RevInv'
  <1> SUFFICES ASSUME RefusesNothing, RevInv, [Next]_vars PROVE RevInv'
    OBVIOUS
  <1>1. BaseInv'
    BY NextInv, NextKeepsPre, NextKeepsOrder, NextKeepsUnderway, NextKeepsTold, NextKeepsTree,
       NextKeepsFiles, NextKeepsJobs DEF RevInv, BaseInv
  <1>2. NoStrangers' /\ MakingInv' /\ (NoGroupLeft' => NoGroupLeft)
    BY NextKeepsStrangers, NextKeepsMaking, GroupsStayLeft DEF RevInv, BaseInv
  <1>3. CASE \E s \in Todo : ApplyNext(s) \/ RmNext(s) \/ Rejected(s) \/ Fault(s)
    <2>1. PICK s \in Todo : ApplyNext(s) \/ RmNext(s) \/ Rejected(s) \/ Fault(s)
      BY <1>3
    <2>2. job # None /\ s \in job.todo
      BY DEF Todo
    <2>3. RecordInv' /\ GoneInv' /\ (NoGroupLeft => Reversible')
      BY <1>2, <2>1, <2>2, CommandKeepsRecord, CommandKeepsGone, CommandGivesBack DEF RevInv
    <2> QED BY <1>1, <1>2, <2>3 DEF RevInv
  <1>4. CASE \E n \in Names : BeginRm(n) \/ \E t \in Targets : BeginApply(n, t)
    BY <1>1, <1>2, <1>4, BeginKeepsRecord DEF RevInv
  <1>5. CASE \/ \E id \in AdminIds : AdminAddsUser(id)
             \/ \E k \in AdminNames : AdminChmods(k)
             \/ \E n \in Writers : AppWrites(n)
             \/ UNCHANGED vars
    BY <1>1, <1>2, <1>5, OthersKeepRecord DEF RevInv
  <1> QED BY <1>3, <1>4, <1>5 DEF Next

\* When `rm` has reported success for every unit and no command has failed, the
\* directories are those the host had (Promises.Reversible), whatever was applied
\* and removed in between: each directory all units share is in the record or in
\* what the process has yet to add to it. An apply that is refused does not record
\* the /var/lib/smallapp its lock has made, so the accounts of others must not meet
\* the units' (RefusesNothing), unless the host had that directory; nor does one that
\* stops at a group which a removal has left behind (NoGroupLeft).
THEOREM RemovalRestores == RefusesNothing => (Spec => [](NoGroupLeft => Reversible))
  <1>1. RevInv => (NoGroupLeft => Reversible)
    BY DEF RevInv
  <1>2. CASE RefusesNothing
    BY <1>1, <1>2, InitRev, NextRev, PTL DEF Spec
  <1> QED BY <1>2
=============================================================================
