-------------------------------- MODULE Plan --------------------------------
(***************************************************************************)
(* plan.py and render.py: what an apply of a target has to do, given what  *)
(* the host and the registry hold.  A plan is the set of its actions whose *)
(* state is not "unchanged"; `at` is the place of an action in the order   *)
(* the code appends (and so executes) them.  Two payload files share a     *)
(* place: which of them is written first is left open.                     *)
(***************************************************************************)
EXTENDS System

CONSTANTS
    Targets,   \* [kind, pages, deps, site]: payload and command-line arguments
    Tokens     \* secret, hash and one-time token, generated together

ASSUME TargetsAssumption ==
    \A t \in Targets :
        /\ t.kind \in {"python", "static"}
        /\ DOMAIN t.pages \subseteq Pages /\ t.pages \in [DOMAIN t.pages -> Versions]
        /\ t.deps \in BOOLEAN
        /\ t.kind = "python" => DOMAIN t.pages = {Entry}
        /\ t.deps => t.kind = "python"

ASSUME TokensAssumption == None \notin Tokens

VARIABLE registry      \* [Names -> entry of registry.json, or None]

Registered(n) == registry[n] # None

\* Mutant: an entry that was put counts as finished.
Complete_Registered(n) == Registered(n)

Complete(n) == Registered(n) /\ registry[n].complete
IdsOf(n) == {n, Gw[n]}

-----------------------------------------------------------------------------
(* Rendering: every file a unit consists of.                               *)

PagesOf(n, t) == {Page(n, p) : p \in DOMAIN t.pages}
RenderedFiles(n, t) == {Vhost(n), Env(n), Service(n), Service(Gw[n])} \cup PagesOf(n, t)

AppService(n, t) == [role |-> "app", name |-> n, kind |-> t.kind, deps |-> t.deps]
GatewayService(n) == [role |-> "gateway", name |-> n, kind |-> "gateway", deps |-> FALSE]
Site(t) == [kind |-> t.kind, site |-> t.site]

Rendered(n, t, secret, f) ==
    CASE f = Vhost(n) -> Site(t)
      [] f = Env(n) -> secret
      [] f = Service(n) -> AppService(n, t)
      [] f = Service(Gw[n]) -> GatewayService(n)
      [] OTHER -> t.pages[f[3]]

-----------------------------------------------------------------------------
(* The plan.                                                               *)

Action(at, verb, on) == [at |-> at, verb |-> verb, on |-> on]
When(condition, actions) == IF condition THEN actions ELSE {}

\* Mutant: only the app's account is looked at.
Refuses_AppOnly(n) == ~Registered(n) /\ users[n] # "none"

\* Mutant: a retry finds its own accounts and refuses them.
Refuses_Retry(n) == \E id \in IdsOf(n) : users[id] # "none"

\* An account smallapp has not made is never adopted by a first apply.
Refuses(n) == ~Registered(n) /\ \E id \in IdsOf(n) : users[id] # "none"

UserActions(n) ==
    When(users[n] = "none", {Action(1, "user", <<"user", n>>)}) \cup
    When(users[Gw[n]] = "none", {Action(2, "user", <<"user", Gw[n]>>)})

\* Mutant: a directory that exists is taken to have its mode.
MkdirActions_NoMode(at, d) ==
    When(d \notin dirs, {Action(at, "mkdir", d), Action(at + 1, "chmod", d)})

MkdirActions(at, d) ==
    When(d \notin dirs \/ d \in loose,
         {Action(at, "mkdir", d), Action(at + 1, "chmod", d)})

DirectoryActions(n) ==
    MkdirActions(3, App(n)) \cup MkdirActions(5, State(n)) \cup MkdirActions(7, State(Gw[n]))

\* Order of the sorted paths: /etc/caddy, /etc/smallapp, /etc/systemd, /opt.
WriteAt(n, f) ==
    CASE f = Vhost(n) -> 9
      [] f = Env(n) -> 10
      [] f = Service(Gw[n]) -> 11
      [] f = Service(n) -> 12
      [] OTHER -> 13

ToWrite(n, t, secret) ==
    {f \in RenderedFiles(n, t) : file[f] # Rendered(n, t, secret, f)}

WriteActions(n, t, secret) ==
    {Action(WriteAt(n, f), "write", f) : f \in ToWrite(n, t, secret)}

\* Mutant: removed pages are not looked for.
Stale_None(n, t) == {}

\* Mutant: the state directory is swept as well.
Stale_State(n, t) ==
    {f \in FilesIn(App(n)) \cup FilesIn(State(n)) : Exists(f)} \ RenderedFiles(n, t)

Stale(n, t) == {f \in FilesIn(App(n)) : Exists(f)} \ RenderedFiles(n, t)
TempsIn(d) == temps \cap FilesIn(d)

\* A temporary file left by a write that was cut off is no payload either.
StaleActions(n, t) ==
    {Action(14, "rm", f) : f \in Stale(n, t)} \cup
    {Action(14, "rm temp", f) : f \in TempsIn(App(n))}

\* Mutant: a script that changed keeps the environment of the old one.
DependencyActions_MarkerOnly(n, t, secret) ==
    When(t.deps /\ ~Exists(Marker(n)),
         {Action(15, "unmark", Marker(n)), Action(16, "sync", Cache(n)),
          Action(17, "mark", Marker(n))})

\* Synced again when the script is about to be written, or was never synced.
DependencyActions(n, t, secret) ==
    When(t.deps /\ (~Exists(Marker(n)) \/ Page(n, Entry) \in ToWrite(n, t, secret)),
         {Action(15, "unmark", Marker(n)), Action(16, "sync", Cache(n)),
          Action(17, "mark", Marker(n))})

ChgrpActions(n) == When(App(n) \notin dirs, {Action(18, "chgrp", App(n))})

\* Mutant: Caddy stays in the group of a unit that is static no more.
GroupActions_NeverLeaves(n, t) ==
    When(t.kind = "static" /\ n \notin groups,
         {Action(19, "join", <<"group", n>>), Action(20, "restart caddy", <<"caddy">>)})

\* Caddy reads a static payload itself, and no other; joining or leaving the
\* group is followed by a restart of Caddy.
GroupActions(n, t) ==
    LET restart == Action(20, "restart caddy", <<"caddy">>)
    IN  When(t.kind = "static" /\ n \notin groups,
             {Action(19, "join", <<"group", n>>), restart}) \cup
        When(t.kind # "static" /\ n \in groups,
             {Action(19, "leave", <<"group", n>>), restart})

ChownActions(n) ==
    When(State(n) \notin dirs, {Action(21, "chown", State(n))}) \cup
    When(State(Gw[n]) \notin dirs, {Action(22, "chown", State(Gw[n]))})

ServiceActions(n) ==
    {Action(23, "daemon-reload", <<"systemd">>), Action(24, "start", <<"service", n>>),
     Action(25, "start", <<"service", Gw[n]>>), Action(26, "reload caddy", <<"caddy">>)}

Changes(n, t, secret) ==
    UserActions(n) \cup DirectoryActions(n) \cup WriteActions(n, t, secret)
    \cup StaleActions(n, t) \cup DependencyActions(n, t, secret)
    \cup ChgrpActions(n) \cup GroupActions(n, t) \cup ChownActions(n)

\* Mutant: a change to a finished unit does not restart its services.
Build_NoRestart(n, t, secret) ==
    Changes(n, t, secret) \cup When(~Complete(n), ServiceActions(n))

Build(n, t, secret) ==
    LET changes == Changes(n, t, secret)
    IN  changes \cup When(changes # {} \/ ~Complete(n), ServiceActions(n))

-----------------------------------------------------------------------------
(* Secrets: those on disk are reused only by a unit whose last apply       *)
(* finished; a fresh token is one nobody holds.                            *)

\* Mutant: an env file is reused though its token may never have been printed.
Reused_Unfinished(n) == Registered(n) /\ Exists(Env(n))

Reused(n) == Complete(n) /\ Exists(Env(n))
InUse == {file[Env(m)] : m \in Names} \cup
         {proc[Gw[m]].read[1] : m \in {x \in Names : proc[Gw[x]] # None
                                                   /\ proc[Gw[x]].def.role = "gateway"}}
\* Mutant: every apply generates its secrets afresh.
SecretsFor_Fresh(n) == Tokens \ InUse

SecretsFor(n) == IF Reused(n) THEN {file[Env(n)]} ELSE Tokens \ InUse
=============================================================================
