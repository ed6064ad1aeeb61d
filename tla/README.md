# smallapp in TLA+

A verification project for smallapp, the command-line tool that deploys a Python
script or a static site on one host: a unix account per app and per gateway, a
payload directory, state directories, an env file with the login secrets, two
systemd services and a Caddy vhost per *unit*, a registry of the units, and an
authenticating gateway in front of each app.

The models answer questions the tests of the repository can hardly ask:

* what is true of the host after *any sequence* of `apply` and `rm` commands, on
  several units, with changing targets, each of which may fail or be interrupted
  before any of its steps or in the middle of a write (System, Plan, Apply, Promises);
* what is true of the registry and its lock when several commands run at once
  (Ports, Registry, Allocation);
* what a browser, the owner and the app may count on when requests follow each other
  on connections, clients and the app stop anywhere, cookies run out and secrets
  change (Tokens, Gateway, Exchange, Sessions);
* what is published when the author edits the files during an apply, the disk fills
  up and commands end between two system calls (Target, Payload, Publishing, Accepting).

## The system

| part | source | state it keeps | operations | who calls it |
|---|---|---|---|---|
| System, the seam to the host | `system.py` | the host: accounts, groups, directories, files, daemons; `created` (in memory), the created-directories record (on disk), the lock | `write`, `mkdir`, `remove`, `flush_created`, `prune_created`, `create_user`, `chown`, `systemctl`, ... | apply, rm, the registry |
| Plan | `plan.py` | none; reads the host | `build`, `resolve_secrets`, `stale_payload` | `plan`, `apply` |
| Render | `render.py`, `templates.py` | none | `render` | plan, apply |
| Apply and remove | `apply.py` | the list of actions being executed | `apply_unit`, `remove_unit` | the command line |
| Registry | `registry.py` | `registry.json` | `load`, `put`, `drop`, `allocate_ports` | plan, apply, rm |
| Names and ports | `naming.py` | none | validation, paths, `port_for` | all |
| Command line | `cli.py` | none; holds the lock during a command | `plan`, `apply`, `status`, `rm`, `doctor` | the operator |
| Target detection | `target.py` | none; reads the author's tree | `detect`, `reads_port`, `Target.files` | the command line, render |
| Tokens and cookies | `tokens.py` | none | `verify_token`, `sign_cookie`, `verify_cookie` | plan, the gateway |
| Gateway | `gateway.py` | per connection: the handler, its request, its body; sessions are in signed cookies | reading and refusing requests, login, logout, the cookie check, proxying | Caddy, browsers |
| Doctor | `system.py` | none | `preflight` | the operator |

Parts interact through the host: a command reads it to make a plan, executes the plan one
OS call at a time, and leaves what it did to the next command. There is no transaction and
nothing is undone. Two commands at once meet at the lock, a `flock` on the directory that
also holds the registry. That makes the behaviour hard in a few specific ways, which
PROJECT.json lists line by line under "hazards":

* a decision is taken from something a *previous, interrupted* command left: a
  directory that exists but has not been given to its unit, a marker of an
  environment that is about to be out of date, a membership without the restart
  that makes it effective, an entry that still says "complete" while its services
  are stopped, a temporary file;
* the host does more than it is asked: systemd sets the mode of a state directory at
  each start, `userdel` may leave a group, `useradd` may issue an id a running process
  still has;
* what a process only kept in memory (the directories it made, the token it has
  not printed) is lost when it ends early;
* a command reads the registry, chooses ports, and later writes the whole registry
  back: nothing but the lock keeps another command's writes out in between;
* the lock is on a directory that `rm` may remove while others wait for it;
* pruning, account deletion and the reload of Caddy and systemd act on the whole
  host on behalf of one unit;
* the author's tree is looked at before the lock is waited for and read twice after
  it, file by file, while its author may edit it;
* a connection is a stream of bytes: a body that some branch of the handler does not
  read becomes the head of the next request, and a response cannot be taken back once
  it has begun.

What makes each part correct: a reported apply leaves exactly what the target
renders to, running and readable (Plan, Render, Apply); whatever exists is reachable
by `rm` (Apply, Registry); removal gives back what was made and nothing else
(System); a command leaves the other units alone (Names, Plan, System); a retry
succeeds (Apply); concurrent commands exclude each other, no unit's entry is lost and
no two services share a port (Registry, the lock); a page changes at once, into
something whole its author had there (`System.write`, Render); what was looked at is
what is published (Target); each request is answered once, in order, by a response of
the documented contract (Gateway); only the holder of a token, or of a cookie given for
one, reaches the app, and is not sent back to the login too early (Gateway, Tokens).

## The modules

    System  <-  Plan  <-  Apply  <-  Promises  <-  MCApply             (TLC)
                                       ^-----  ApplyProofs             (TLAPS)
                                                 ^-----  DeployProofs
                                                           ^-----  ReportProofs

    Ports  <-  Registry  <-  Allocation  <-  MCAllocation              (TLC)
                   ^              ^---------  AllocationProofs         (TLAPS)
                   ^------  RegistryProofs                             (TLAPS)

    Tokens  <-  Gateway  <-  Sessions  <-  MCGateway                   (TLC)
                Exchange  <-----'   ^----  SessionsProofs              (TLAPS)
                                             ^-----  ClientProofs

    Target  <-  Payload  <-  Publishing  <-  Accepting  <-  MCPayload  (TLC)
                                  ^-----  PayloadProofs                (TLAPS)

* **System** is the host as `system.py` changes it. Each operator is one method or
  one external command, as an action over the variables it touches: `users`,
  `groups`; `dirs`, `loose` (directories whose mode is not the declared one),
  `owned` (paths given to their unit), `file`, `temps` (files beside which a write that
  was cut off has left its temporary file); `loaded`, `proc`, `served`, `caddyGroups`
  (what systemd and Caddy are running with, which is not what is on disk until they
  reload or restart); `freed` and `reissued`, the group ids Caddy's process has kept of
  groups that are gone and the groups they were given to since; `created` and `recorded`.
* **Plan** is `plan.py` and `render.py`: `Build(n, t, secret)` is the set of actions
  that are not "unchanged", each with its place in the order the code appends them.
  `SecretsFor` is `resolve_secrets`: the secrets on disk when the last apply
  finished, otherwise some that are in no use.
* **Apply** runs the commands. `job` is the command in progress with the actions
  it has left; one TLA+ action per kind of step executes the first of them.
  `PutIncomplete`, `CommitStep`, `FlushStep`, `PrintStep` are the code before and
  after the loop; `LoadUnit` to `PruneStep` are `rm`. `Fault` ends a command before
  any step, or between the temporary file of a write and its rename (`CutOff`): it
  stands for a failing command (StepError), an OSError, a signal and a crash, which
  differ in nothing the host remembers. `Rejected` is a command the host refuses by
  itself: `systemctl disable` of a unit without a file, `useradd` where a group of that
  name is left. `told` is what the last
  command on a unit reported, `shown` the tokens that have been printed: they are
  what the promises are about.
* **Promises** states the properties (below).
* **MCApply** has the small instances; **ApplyProofs**, **DeployProofs** and
  **ReportProofs** the theorems.
* **Ports** is `port_for`, `gw_port_for` and `allocate_ports`: the probing from the
  hash of the name, with its wrap-around, past the ports the registry has given out.
  The hash (crc32 modulo the span) is a constant function: any one.
* **Registry** is what the registry file promises, with one variable: a unit is
  registered at the first free port of its own probing, or removed; one at a time.
* **Allocation** is how the code keeps that promise, or does not: processes that run
  `apply` and `rm` one after another. Each goes through `mkdir_p` (look, then make),
  `open`, `flock`, and under the lock through its loads and saves of the registry,
  each a step (`Allocate`, two times `PutLoad` and `PutSave`; `Lookup`, `DropLoad`,
  `DropSave`), `Flush` or `Prune`, and ends, or is killed anywhere (`Fail`). `inode`
  is the directory's identity: `Prune` may unlink it, `MkDir` and `Save` make a new
  one, and `Flock` excludes those who opened the same one. What the commands do to
  the rest of the host is Apply's part: there one command runs at a time, which
  Allocation justifies. `R == INSTANCE Registry` and the property `Atomic == R!Spec`
  say that it implements the abstract one.
* **MCAllocation**, **RegistryProofs**, **AllocationProofs**: the instance, the theorems.
* **Tokens** is `tokens.py`: a token against its hash, a cookie signed, verified and
  running out. Secret, hash and token of one env file are one number.
* **Gateway** is `gateway.py`, a handler per connection. `wire` is what the client has
  sent and the handler not read: heads and pieces of bodies, which nothing but the
  handler's reading keeps apart. `pc` says where the handler is: `ReadRequest` is the
  standard library's reading of a head and `_read_body`, up to the body that has been read
  or refused, `Route` the branches of `_route` with `Login`, `Forward` and `Receive` the
  two halves of `_proxy`, each with the exceptions nothing catches (a target `urlsplit`
  refuses, "unparsable"; a request `http.client` refuses to send, "unsendable"; a response
  that is not HTTP), which end the connection, `WriteHead` and `WriteBody` the response,
  `BrokenPipe` the two ways a write to a client that has gone ends (in the `try` of
  `_proxy`: a second response). Clients send requests behind each other (`Ask`), with any
  cookie a login has set, and leave in the middle of one (`BreakOff`); `Tick` is the
  clock, `Restart` the end of the process and its start, with the same secrets or new
  ones.
* **Exchange** is what the gateway promises its clients, with no handlers, bytes or
  cookies: requests answered in order, each by one whole response of the contract of
  the specification's table, the app given each at most once, an end for a reason.
  In **Sessions** `E == INSTANCE Exchange WITH state <- client, open <- ...` and
  `InOrder == E!Spec` say that Gateway implements it.
* **Sessions** states the other promises; **MCGateway**, **SessionsProofs**,
  **ClientProofs**: the instance, the theorems.
* **Target** is `target.py`: `Detect` on a tree, and `ReadsPort` on the expressions
  `ast.walk` finds in a script, subscripts with their context (load, store, delete),
  which `reads_port` does not look at. **Payload** is one unit's payload: `Begin` detects
  before the lock, `List` and `ReadFile` are `Target.files` and `render`, `RenderAgain`
  the second render (`apply_unit` writes from the first, plans by the second), `Plan`
  what has to be written and removed, and `MakeParents`, `UnlinkTemp`, `CreateTemp`,
  `FillTemp`, `Rename` are `System.write`, system call by system call. `Edit` is the
  author, at any time; `Fault` the end of a command. `seen` is history: what each page
  was in the source since the command began.
* **Publishing** states the promises of Payload; **Accepting** that of `reads_port`.
  What a script does with PORT is defined there without the rules of `target.py`: from
  what its names are bound to (`Bindings`: `os`, the environment, a function that reads
  it or one that also changes it, a module that imports `os`, something else), what the
  members of those objects are (`Member`), and whether PORT is loaded, stored or deleted
  (`Reads`, `Changes`). **MCPayload**, **PayloadProofs**: the instance, the
  theorems.

`OneOperator` is the rule the comment of `System.lock` states ("one box, one
operator"): nobody runs `rm` beside another command. It is demanded only where
smallapp may prune the directory; if the host had it before, any commands may run
at once (`hosts`, either way in the same run). Without the rule see `ViolatedLock`.

What the host does is external. `systemctl disable --now` fails for a unit that has no
file. Starting a service makes its state directory when it is missing, gives it to the
service's account, recursively when the root is not owned by it yet, and sets its mode to
0755, since the units set `StateDirectory=` and no `StateDirectoryMode=`
(`templates.py:70`, `:97`; `plan.py:103` wants 0700). `userdel` removes the account's group
and Caddy's membership in it, but not the id from the running Caddy; where the group has
another member it may leave the group (shadow's does). `useradd` gives a new group any id
that is free, also one a process has kept. A Python process has read its script and
environment, a gateway its env file, when it starts.

Abstractions. File contents are values; the env file is its token (secret, hash and token
are generated together). A uv cache directory is one with its content. `rmtree`, `userdel`
and a `write` that comes to its end are each one step. Two payload files share a place in
the order: they are written in either order, more than the code does, never less. The
hollow directories pruned *below* a recorded one depend on the order a directory lists its
entries: any set of them. `enable --now` and `restart` of a service are one step.
Temporary files of the registry and of the record in `/var/lib/smallapp`, which the next
command replaces, are left out. Commands do not overlap in Apply (they hold `System.lock`,
whose exclusion is what Allocation is about); apps write when they like, an administrator
adds an account between commands, or gives state directories the mode `plan` asks for
(both in `Reported`). The root is the real one, not a `--root` prefix. In Allocation an
apply of a registered unit may find nothing to do whether or not its entry is complete;
reading a file, replacing it and pruning are one step each.

In Gateway the cryptography is perfect: a hash or a MAC is equal exactly for the same
secret, and a cookie that was never given is no cookie. Bodies have a length in units;
what a body holds is its sender's token. A length that is no number or a negative one
and a `Transfer-Encoding` are one thing, `chunked`, and refused alike. Reading the rest of a
body and writing a head are one step each. In Payload a content is a value with a size;
a file that is being written holds nothing or all of it, or (`Short`) what a full disk
had room for; walking the tree is one step, reading each of its files another. What
Apply has in detail (accounts, services, the steps of `rm`) is here the one bit
`complete` and the step `RemoveUnit`; that Apply may take a write for one step, or one cut
off, rests on `WholePages` and `NoLeftovers` of Payload. A script is its expressions, what
its names are bound to, and a bit for suffix, encoding and syntax.

## The runs

Apply: every run of MCApply has one to three units (`a` with gateway `a-gw`, ...), payload
contents `v1` to `v3`, pages `app.py`, `index.html`, `old.html`, and tokens as symmetric
model values, as many as can be in use at once (a file, a running gateway) and one more.
Commands are unbounded in number: sequences of any length are explored. The one bound on
behaviour is `MaxFaults`, the failures of one behaviour: 1. A failure is a lost tail of a
command, so that a second one before a success ends in a state of the same shape (a unit
with an unfinished entry); what one failure can leave, and every command started from
there, is covered in full. `Torn` names the files whose write may be cut off before its
rename: one in a directory all units share (the env file), one of the payload, one in a
state directory. `AdminNames` names the units whose state directories someone may chmod by
hand: without that no apply
would ever find nothing to do. With failures at
*every* step and five targets (a plain script, two with different dependencies, a site of
two pages, a site of one of them) each change of kind, of content and of file set occurs.

| run | instance | shows |
|---|---|---|
| `Faults` | one unit, all targets, a failure at any step or in the middle of a write | `TypeOK`; `FilesDeployed`: a reported apply left exactly the rendered files; `NothingOutdated`: no service or vhost runs from before it; `NoOrphans` and `JobAccountable`: at every step, whatever smallapp made is reachable through the registry, but for temporary files in directories no unit owns; `PreexistingKept`: directories the host had are not recorded or removed; `Reversible`: without failures, removal restores the directories; `UnfinishedWhileChanging`: an apply changes the host only under an unfinished entry |
| `Reported` | the same, failures at all steps but eight; an administrator adds an account and sets modes | what a reported apply means in full: `ServicesRunning`, `StateReady`, `CaddyAccess`, `DepsCurrent`, `TokenKnown`, and `Idempotent`: a second one would find nothing to do but the modes systemd has changed |
| `Units` | three units, the third colliding with an account of the host; a removal may be half done; one app writes data | `UnitsIsolated`, `DataKept`, `ForeignKept` |
| `Live` | one unit, a script and a site, a failure at any step | `ApplySucceeds`, `RmSucceeds`: repeating a command ends in success, but from the two states in which the host refuses it for ever (a group left behind, a service without its file) |
| `Concurrent` | three processes, three units of which two hash to the same of two ports, so that probing collides, wraps around and runs out; each process may end at any step; `OneOperator` | `TypeOK`; `MutualExclusion`; `NothingLost`: a unit whose apply succeeded stays registered until it is removed; `PortsDistinct`: no two services have one port; `Atomic`: the registry implements Registry |
| `Gateway` | two connections: on one every way to frame and route a request (right, wrong and oversized logins, too long a body, `chunked`, no such method, `Connection: close`, a target nothing parses, a request that cannot be sent on), on the other requests of the app and of the cookie check by a client that finishes, stalls or goes; a cookie of before; restarts | `TypeOK`; `Framed`: a handler that looks for a head finds one; `OnlyOwner`; `StaysSignedIn`: no 401 for a cookie in force; `InOrder`: Exchange is implemented; `Answered`: a client that waits gets all its answers or the end of the connection, whatever the others do |
| `Payload` | a site of an index and a page that turns into a directory, a symlink, a tree over the limit, one without an index, nothing, and scripts; 100 expressions under four bindings of their names for `reads_port`; edits, full disks and failures at any step | `TypeOK`; `Delivered`: a reported apply published for each page what its author had there meanwhile; `NoLeftovers`: and no temporary file; `Vetted`: without edits, no symlink followed, nothing over the limit; `AcceptsServers`: documented reads of PORT are accepted, and what is accepted reads it, but for two named exceptions; `WholePages`; `FailsForCause`: which failures a retry does not cure; `Converges`: and that it cures all others |
| `Violated...` | small instances | the findings, one property each |

Bounds of `Gateway`: `MaxAsked` = 2 requests in all, on one connection or on two (two
are what it takes for one to be misread as part of another, one to be answered out
of order, or one to hold up another), bodies of at most `MaxProxyBody` = 2 units and
one unit more, logins of `MaxLoginBody` = 1 and one more, `MaxConfigs` = 2 secrets, and
a clock that ends when the earlier cookie has run out (`MaxNow` = `Ttl` = 1). About
305,000 states. All of its properties but Answered are proved without the bounds. Bounds of
`Payload`: `MaxEdits` = 2 (the author changes a page and changes it back, or edits
between the two renders and again while files are written, or edits and removes the
unit), `MaxFaults` = 2 (a command ended in the middle of writing, the next one with a
full disk), three pages, two contents. About 225,000 states; its safety properties are
proved without the bounds.

Deadlock is checked in the runs of Apply and Allocation. In `Gateway` and `Payload`
the clients' requests and the author's edits are bounded and the system may stop when
they are used up, all connections closed: there CHECK_DEADLOCK is FALSE, and
`Answered` and `Converges` say what must not be waited for in vain.

Fairness. Apply: `CommandFair` says a command that can take a step takes one, which is
what a running process does; nothing is assumed of the operator, the liveness
properties speak of an operator who keeps trying. That failures stop is `MaxFaults`.
Gateway: `WF_vars(Handle(c))` for each connection, since each has a thread of its own
(`ThreadingHTTPServer`); a wait for the app ends by its answer or by the time-out of
30 s, a step of `Receive` either way; a wait for the *client* is no step that is
enabled, so that nothing is assumed of clients. Payload: a command goes on (`Step`) and
the operator runs it again (`Begin`); `Converges` is about such an operator.

### Where the promises stop

`Reported` leaves eight steps out of `FaultVerbs`, because a failure before one of
them does break a promise. With that step alone as the failure TLC finds:

| failure before | promise lost after a retry that reports success | why |
|---|---|---|
| `flush`, `print` | `TokenKnown` | the entry is complete before the token is printed (`apply.py:71`); the retry says "no changes" |
| `restart caddy` | `CaddyAccess` | the membership is in place, so the retry plans no restart (`apply.py:58`) |
| `unmark`, `rm` and `rm temp` (of what is stale) | `DepsCurrent` | the script is written, the old marker still there, so the retry does not sync (`plan.py:208`) |
| `disable`, `rm tree` (first of an `rm`) | `ServicesRunning` | services are stopped under an entry that is complete, with all files in place |

The violation runs show, of the disagreements between the code and what its
documents say, five: `ViolatedLock` (an `rm` that leaves no unit prunes the directory
an apply waits for; that apply and one that makes the directory anew then hold a lock
each, and choose the same port); `ViolatedToken` (the one above); `ViolatedPayloadGroup` (no
failure needed: the second apply of a changed payload leaves the new file to
root:root, since `chgrp` is planned only when the directory is missing; the
environment of a second `uv sync` has the same fate); `ViolatedOthersState` (`rm` of
one unit prunes another's empty state directory) and `ViolatedIsolated` (units `x`
and `x-gw` share the account and service of `x`'s gateway). Also found with these
modules, by changing a constant: an account an administrator makes after a failed
first apply is deleted by `rm` (`AdminIds`, against `ForeignKept`); directories made
by a failed apply outlive the unit's removal (`Reversible` without its `faults = 0`), and
so does the `/var/lib/smallapp` of an apply that was refused for an account of others, which
records nothing (`PreDirs` = {} with `PreUsers` = {"a"}); without any failure a static site
that publishes a page `app.py` takes the place of a script and its environment is not
synced when the script comes back (the hypothesis `ScriptsTell` below).

Other limits are named in the formulas of the properties, each of which would be violated
without its exception:

* *A second apply always finds something.* The specification promises "`apply` twice = same
  state; the second run reports no changes" (`src/specs/smallapp-unit.md:51`, and 158-161).
  Every start of a service opens its state directory to 0755 and every plan finds that it is
  not 0700 (`plan.py:103`), so that each apply sets the mode, restarts both services, and so
  opens it again. `Idempotent` says that this is *all* a second apply finds;
  `StateReady` promises the mode of the payload directory only.
* *An id outlives its group.* "`caddy`, and only `caddy`, is added to `sa-NAME` ...; the
  group is created and destroyed with the unit, so the membership goes with it"
  (specification, 82-85; `README.md:205` of the repository: "to no other unit's"). The
  running Caddy is only reloaded by `rm` (`apply.py:110`) and keeps the id of the removed
  static unit's group; when `useradd` issues it again, Caddy has the group of, say, a
  script unit. `CaddyAccess` excepts `reissued` groups and nothing else.
* *A group may outlive its account.* `rm` trusts that "deleting `sa-NAME` takes its group
  with it" (`apply.py:103`). shadow's `userdel` leaves a group that has another member, as
  a static unit's has Caddy; `useradd` then refuses the name for ever. It is the premise
  of `ApplySucceeds`; where it depends on the host's `userdel`, the model has both.
* *Not every removal can be repeated.* "a removal that fails part-way can be retried by
  running the same command again" (specification, 178-179). `systemctl disable` fails for
  a unit without a file and nothing tolerates it (`apply.py:87`): a removal that failed
  after it had removed a service file, and one of a unit whose first apply ended before it
  wrote them, fail at their first step every time. It is the premise of `RmSucceeds`.
* *A temporary file nobody removes.* A write of the env file, a vhost or a service that
  ends before its rename (`system.py:114-120`) leaves `.NAME.smallapp-tmp` in a directory
  no unit owns, the env file's with the secrets in it. Only the next write of that file
  takes it away; `rm` does not. `NoOrphans` promises it of the unit's own directories.
* *A page in the way of another.* A page `p` replaced by `p/q`, or `p/q` by `p`, makes every
  apply fail until the unit is removed: files are written before stale ones are removed,
  and directories are never removed (`plan.py:135`; the premise of `Converges`, and the only
  cause `FailsForCause` leaves).
* *What counts as reading PORT.* `reads_port` is "true only when the source really *reads*
  `PORT` from the environment" (`target.py:76`), and "the receiver must really be `os`"
  (`target.py:94`). A script that only stores or deletes `os.environ["PORT"]` is accepted
  (`target.py:83-85`), and so is one in which something else is called `os`, `environ` or
  `getenv`, or is an attribute `.os` (`target.py:53-57`). `AcceptsServers` excepts
  `Changes` and `Impostor`. In the other direction it promises the documented forms under
  `os`'s own names only: aliases (`import os as o`), `pop`, `setdefault` and `"PORT" in
  os.environ` are not recognised.
* *A short write* (`os.write`) is not noticed, and the short file moved into place
  (`Shortened` in `Delivered` and `WholePages`), though `write` is said to "write
  atomically" (`system.py:107`);
* *A page added between the two renders* is planned and not there to be written: the
  apply ends with a `KeyError` (`apply.py:25` and `:43`; `Unedited` in `FailsForCause`);
* *Requests without an answer.* What an app answers that is not HTTP, a request
  `http.client` refuses to send (`gateway.py:285`) and a target `urlsplit` refuses
  (`gateway.py:156`) raise what nothing catches: the handler ends, the client gets no
  answer, and requests it had sent behind are not answered either (the last case of
  Exchange's `HangUp`, `Breaking`). `InOrder` promises that nothing else ends so, that a
  refused request never reaches the app, and that what was answered before was whole.

## What is proved

`ApplyProofs`, `DeployProofs` and `ReportProofs`, checked by TLAPS, for every set of
units, identifiers, targets, pages and failures (two names may share identifiers, as
`x` and `x-gw` do, but where a theorem says `Apart`):

* **NothingOrphaned**, `Spec => []NoOrphans`. NoOrphans is not inductive: that `rm`
  may drop the entry depends on what it has removed by then. The invariant is

      Inv == Typed /\ Accounted /\ JobCovered

  with `Accounted` and `JobCovered` what NoOrphans and JobAccountable say of all but
  temporary files; those follow, since a temporary file stands in a directory that exists
  (`TempsInv`), which is accounted for. `JobCovered` says of the command in progress: it
  is about to read the registry; or it is an apply of a registered unit and everything on
  its list concerns that unit (`BuildShape`: a plan only names what is the unit's own); or
  it is an `rm`, its list is part of the removal script and *whatever still exists of the
  unit has its removal on the list* (`RemovalPending`). Steps of an apply make only what
  is the unit's own (`OnlyGrows`) and the unit has an entry, put before them. Steps of
  `rm` make nothing (but the reload of Caddy, which comes after the vhost's removal) and
  take away what they stand for (`PendingAfter`); when `drop` is the first step left,
  nothing is (`RemovedBefore`, by the places in the script), so nothing needs the entry
  (`DropStepInv`). An entry always says `createdUser`, since an apply that finds an
  account of its own name without an entry is refused (`PutIncompleteInv`).
* **HostKept**, `Spec => []PreexistingKept`, with `Host \in dirs`: what is recorded
  was missing before, removal trees are the units' own, and pruning takes recorded
  directories and their children, neither of which the host had.
* **JobsAccounted**, `Spec => []JobAccountable`: the second part of the invariant by itself.
* **ChangedUnfinished**, `Spec => UnfinishedWhileChanging`. A step of an apply that
  changes the host is one of its plan, and those come before the commit: `ClosingInv`
  says that every action has its place (`BuildPlaced`) and that once the entry is
  complete only `Closing` (flush, print) is left.
* **Isolation**, `Apart => (Spec => UnitsIsolated)`, and **DataSafe**, `Apart => (Spec
  => DataKept)`. `Apart`: no unit's gateway has the name of another unit, the condition
  `ViolatedIsolated` shows to be needed. What a step changes is named after the unit of
  its command (`OnlyOwn`, `CommandOwn`), step by step from `ApplyActionOf` and the
  removal script; and `rm` pending is all that removes a tree.
* **ForeignSafe**, `AdminsApart => (Spec => ForeignKept)`: no account an administrator
  made is deleted or taken over, given that administrators make none of the units'
  names (the run `Units` has one of them there from the start). Needed: while a unit has
  an entry its accounts are not foreign (`ForeignInv`), since its first apply was refused
  otherwise.
* **Deployed**, `Apart => (Spec => []FilesDeployed)`: a unit reported as deployed has
  exactly the files its target renders to, whatever failed before. Not inductive:
  `Underway` adds that an apply has left on its list whatever is not right yet, a rendered
  file to write, another one or a temporary file to remove (`PutUnderway`,
  `StepUnderway`), so that at `print`, the last place, all is right (`PrintDeployed`); the
  other units stay as they are because commands are isolated (`OthersStayDeployed`).
* **AlwaysTyped** (ReportProofs), `Spec => []TypeOK`. TypeOK says of a process that
  it runs a definition, so that none is started before one was on disk and loaded. That
  takes the order of a plan (`OrderInv`): every action has its place (`Slot`), and an action
  that every plan has is either still on the list or everything up to it is past (`Due`,
  `Ordered`). The theorems that follow use this order, too.
* What "reported as deployed" means beyond the files. `told` is what the last command on a
  unit reported; `ToldInv` says that a unit reported as deployed has a complete entry, and
  that the unit of the command in progress has no report. Each of the following adds what
  still *has to be done*, as long as it is not done yet, and shows that the step which
  could leave it undone is one of those in the table above. The hypotheses are that table:

  | theorem | states | inductive with | where |
  |---|---|---|---|
  | **NoneOutdated** | `NothingOutdated` | `CurrentInv`: the services of a complete unit run what is on disk (`Current`, `RunsAs`), and every fixed step of an apply that is past has had its effect (`Effects`) | `Apart` |
  | **BothRunning** | `ServicesRunning` | `UpInv`: an entry is complete only while both services are up (`Up`), or an `rm` is under way (`BeingRemoved`) or has come so far that files are missing (`Gutted`) | `Apart`, `RemovesUnits` (none fails at `disable`, `rm tree`) |
  | **TokensHeld** | `TokenKnown` | `TokenInv`: the token of a complete unit's env file was printed, or the unit has an apply under way whose own token is fresh or was printed | `Apart`, `ReportsFinish` (none fails at `flush`, `print`) |
  | **CaddyFollows** | `CaddyAccess` | `InStepInv`, `MembershipInv`: the memberships of Caddy's account are those of its process, ids issued again aside, or the restart is on the list (`Rejoining`) | `Apart`, `CaddyRestarts` (none fails at `restart caddy`) |
  | **ScriptsSynced** | `DepsCurrent` | `MarkedInv`, `SyncInv`: a marker beside a script with dependencies means that the environment is this script's, or the unmarking is on the list (`Resyncing`) | `Apart`, `MarkersCleared` (none fails at `rm`, `rm temp`, `unmark`), `ScriptsTell` (no site publishes such a script as `app.py`) |
  | **StatesReady**, **AppliesOnce** | `StateReady`, `Idempotent` | `PlaceInv`: directories are made, given to their accounts and in their mode in that order, whatever was there, and what a plan finds after a reported apply is a state directory that a start has opened (`Making`, `InPlace`, `Settled`, `OwnsStates`) | `Alone` (one unit: the `rm` of another prunes empty state directories) |

* **RemovalRestores**, `RefusesNothing => (Spec => [](NoGroupLeft => Reversible))`, for
  any number of units: every directory all units share that smallapp made is in the record
  or in what the process has still to add to it (`RecordInv`); of a unit whose removal was
  reported nothing is left that keeps them from being pruned (`GoneInv`); and nobody
  else's account makes an apply refuse (`NoStrangers`), since a refused apply records
  nothing; nor does one that `useradd` ends because a group was left behind, which stays
  so (`GroupsStayLeft`), hence `NoGroupLeft`. The run `Faults` has such groups and
  /var/lib/smallapp from the start, and Reversible holds there.

For ports and the lock, for any number of processes and units, any hash and span:

* **PortFound** (RegistryProofs): `port_for` returns a free port whenever the span has
  one. Its steps are a bijection with the span (`ProbeCovers`, the wrap-around), and
  a least free step exists (`LeastNat`, from the library's well-founded orderings).
* **NoPortTwice** (RegistryProofs): the abstract registry gives no port out twice.
  Inductive with the entries' types; `Span <= GwOffset` keeps gateways above apps.
* **Exclusion**, **UnitsKept**, **Implements**, **NoPortShared** (AllocationProofs):
  `OneOperator => (Spec => ...)` for `[]MutualExclusion`, `[]NothingLost`, `Atomic`
  and `[]PortsDistinct`. MutualExclusion is not inductive: two processes may hold
  locks on two inodes. `Inv` adds, per process (`Current`), that whoever waits for or
  holds the lock has opened *the directory there is*; that what a process has loaded
  is what is in the registry while it holds the lock, and that its port is the one
  the registry would give it now; and, per pair (`Apart`), that an `rm` is alone
  unless the directory is the host's own. One lemma handles the steps that touch
  nothing shared (`OwnStep`), one those of the lock's holder, which may change the
  registry because nobody else's knowledge of it counts (`HolderStep`). For
  `Implements`, `AtomicStep` shows that the first put is the abstract `Register`, the
  second one a stutter, `DropSave` the abstract `Deregister`, and every other step
  leaves the registry alone; `NoPortShared` follows with NoPortTwice.
  **AllTyped** is the type invariant by itself.

For the gateway (SessionsProofs, ClientProofs), for any number of connections, requests,
secrets and any lengths:

* **AlwaysFramed**, `Spec => []Framed`, and **AlwaysOnlyOwner**, `Spec => []OnlyOwner`.
  The invariant `Inv` says of a stream (`WireOK`) that heads come in order, each followed
  by its body, whole while the client has not left, and then by the next head; of the
  handler (`HandlerOK`) that it stands before a head, but after a refusal that closes the
  connection, and that what it has read are units of its own request; and of cookies
  (`Backed`, `RequestOK`) that each was given to a login, and that one which verifies came
  with a request of the owner. What reading takes off the front of a stream, what
  breaking off leaves of it and what asking adds are lemmas about sequences (`DropWire`,
  `CutWire`, `GrowWire`).
* **ImplementsExchange**, `Spec => InOrder`. The mapping is the identity but for `open`;
  what it takes beyond `Inv` is where the client stands (`Turns`): what a connection has in
  each state of its handler (`Stage`); that the handler is at no request the client has an
  answer to, nor, while the client listens, past the one it waits for (`NotBehind`,
  `NotBefore`); that the request at hand has its whole body, and has reached the app only
  if it waits for it (`AtHand`); and that the response being written is one of the contract
  (`Written`). `NextStep` maps each action to a step of Exchange or a stutter.
* **AlwaysStaysSignedIn**, `Spec => []StaysSignedIn`: a 401 is decided in one state and
  counted in a later one. `SignedIn` keeps the verdict true in between: cookies carry the
  time of their login (`Dated`), a handler about to send the login page, or whose client
  has been told, had a cookie that does not verify, and one that has run out stays so
  (`Onward`). **AlwaysTyped** is the type invariant.

For the payload (PayloadProofs), for any site, any trees and any number of edits,
failures and full disks:

* **AlwaysDelivered**, **NothingLeft**, **AlwaysWhole**: `[]Delivered`, `[]NoLeftovers`,
  `WholePages`. Inductive with: both renders are made of what the author had, and from
  each is missing only what was missing some time (`RenderOK`, `Whole`); while files are
  written, what is on neither list is right, or short, and what is to be removed was
  missing some time (`WritesOK`); every temporary file is one to remove or the one being
  written (`WritesOK`, `FileOK`); the directory is a tree (`AppOK`).
* **FailuresHaveCause**: `FailsForCause`, from the same invariant and `UneditedSeen`:
  without edits `seen` is what there is.
* **AlwaysVetted**, `[]Vetted`: a tree that `detect` accepted is among what was seen since
  the command began (`VettedInv`), so that, when one content was seen of every page, what
  is live is that tree's, or short. The size takes a lemma on sums over a finite set, that
  a part adds up to no more than the whole (`FewerSum`). The library's sum is a recursion
  and its induction theorems are out of reach, so the sums of all subsets are shown to
  exist, to be the library's and to be independent of the order, each by a smallest
  counterexample (`SumsExist`, `SumsAre`, `SumsWithout`).
* **AlwaysTyped**, `[]TypeOK`: besides `AppOK`, a temporary file stands in directories
  (`TempsPlaced`).
* **AlwaysAcceptsServers**, `[]AcceptsServers`, for scripts of any expressions and any
  bindings of their names: `Value` is recursive, but after three steps of `Member` nothing
  else is found out (`StepsStop`), so that its equation has a solution (`ValueIs`); and
  whatever `reads_port` goes by in the names and attributes of an expression is what it
  seems to be, or an `Impostor`.

Assumptions, each named where it is declared and evaluated by TLC on the instances.
Of Apply: `NamesAssumption` (a gateway's stem is not its unit's), `PreDirsAssumption` (what
the host had is of the directories all units share), `TargetsAssumption` (the shape of a
payload), `NoneAssumption`, `TokensAssumption`, `ReportsAssumption` ("no entry" is no entry,
"no token" no token; "no report" and "gone" are two, and neither is a target),
`BoundsAssumption`. Of the registry: `PortsAssumption` (the numbers of `naming.py`: a
gateway's offset is not below the span, and all are ports), `NoPortAssumption`,
`InodesAssumption` (there is always an inode nobody has open). Of the gateway:
`TtlAssumption`, `NoneAssumption` and `NoResponseAssumption` ("none" is no cookie and no
response), `ShapesAssumption`, `BreaksAssumption`, `BoundsAssumption`, `EarlierAssumption`
(cookies of before were given to logins with the right token, at the beginning, of the
secrets in force or older ones). Of the payload: `LimitAssumption`, `PathsAssumption`
(paths are sequences of names, finitely many, closed under what is above them; no page is
named `app.py`, below it, or like a temporary file), `ContentsAssumption`,
`TreesAssumption` (what the author has is a tree, whose files have sizes and are not what a
symlink leads to), `BindingsAssumption` and `ScriptsAssumption` (the shape of a syntax
tree, and what its names are bound to).

Only model-checked: liveness (`ApplySucceeds`, `RmSucceeds`, `Answered`, `Converges`: the
prover does neither fairness nor ENABLED); and the properties of the violation runs, of
which `PayloadGroup` and `OthersStateKept` are false of the code, as those runs show.
Every other property of the passing runs is a theorem, some under the hypotheses named
above: there the run has the instance that satisfies them, and the table of the failures
left out says what happens otherwise.

## Not modelled

* `doctor` (`preflight`), `status` and `plan` with `--out`: they print what they read and
  change nothing on the host.
* The text of the templates, of the pages and of the headers, and which headers `_proxy`
  passes on or sets: data. `Expect: 100-continue`, which `http.server` answers by itself,
  and heads that `http.server` refuses or that declare two lengths.
* Path confinement under `--root` and the validation of names and domains: properties of
  one string each.
* `config_from_env`: a gateway process that cannot read its configuration ends before it
  serves.
* Cookies and tokens that were never given: the cryptography is taken to be perfect.
* An app that sends its response a byte at a time for ever, each within the time-out:
  it would hold its own connection (`Answered` takes the end of a wait for granted).
* In Payload: pages named `app.py` or like a temporary file are taken not to occur; walking
  the source is one step; the dependencies and the start command of a script, which are
  read from it once more, are fields of Plan's targets; file modes are System's.
* A crash of the whole machine, after which what was renamed need not be on the disk:
  smallapp does not sync, and the models take what was done to be done.

Ways to go on: `Converges` with a fair host, as a theorem, would need a prover for
fairness. `StatesReady` and `AppliesOnce` are about a host with one unit; for several they
would have to say which directories another unit's `rm` has pruned since.
