# Verification of KVN VPN

This directory holds TLA+ models of KVN VPN (kvn-portal): what its state store,
its apply pipeline, its host-agent, its portal and its updates do under
concurrency, failures, crashes and timeouts; TLC checks the models on small
instances and TLAPS proves the core of them for every instance. Paths are
relative to the repository (`src/`).

## 1. The system

KVN VPN manages a stack of VPN services on one host. The desired state is one
JSON file, `users.json`. A web portal (Flask, unprivileged) talks over a Unix
socket to a host-agent (root), which changes `users.json`, renders the
configuration files of every service from it and applies them: Docker services
(xray, hysteria, telemt, mtg, ocserv, nginx) through Compose, host VPNs
(amneziawg, wireguard) through systemd and a sync script. `kvnctl` does the same
from a shell, in a process of its own.

| component | source | state it keeps | operations | what is hard | what makes it correct |
|---|---|---|---|---|---|
| users.json store | `tools/kvnlib/core/io.py` | the file, a lock file, one thread lock per process | load, save, update | two-level lock with deadlines, revision check, crash and power loss around `os.replace` | atomic transactions; no lost update; acknowledged is durable; calls return |
| render and apply | `tools/kvnlib/commands/implementation.py`, `runtime/plan.py` | generated files, copies under /etc, running services | render_all, restart_services, sync and verify | partial failure, comparison against files an interrupted request rewrote | enabled services run users.json; a failure is reported |
| desired state | `implementation.py`, `protocols/`, `control/legacy/implementation.py` | users, keys, addresses, SNI routes, parameters of the systems | the commands of kvnctl and the settings of the portal | any order of changes to aliases, overrides, self-steal and domains; renders that end between two files | the link a client was given reaches its service and is known there; who lost access has none; addresses are unique |
| portal control | `portal/control/legacy/implementation.py` | none of its own | apply_user, reconcile_state, apply_host_service, set_service_enabled and the settings operations | commit first, apply after: users.json may be ahead of the services | success means applied; reconcile and forced apply converge |
| host-agent RPC | `portal/agent.py`, `agent_handlers/dispatcher.py` | global and per-service locks, caches, sessions | one thread per request; reconcile at start | lock scopes, lost answers, restart between two steps | exclusion by scope; disabled stays down |
| host VPN sync | `wireguard/sync-host-service.sh`, `amneziawg/sync-host-service.sh` | copy under /etc, systemd unit, interface | syncconf or restart | what was replaced before an interruption is taken as applied afterwards | interface as rendered after success; sessions survive a change of peers |
| root shell | `agent_handlers/shell.py`, `root_shell_helper.py`, `shell_stream.py`, `root-shell.js` | sessions, output buffer, write sequence | open, stream, input, read, close | ordered exactly-once input, stream takeover, reaper against reader | input and output once and in order; one shell for each owner; none lost; no deadlock |
| migration | `portal/control/migration.py`, `agent_handlers/migration.py`, `routes/migration.py`, `kvnlib/*/migration.py` | previews in memory, archives on disk, private backups | upload, export, preview, commit, cancel, restore | capacity, expiry, single use, revision-bound commit, a directory two processes share | a commit does what was shown, once; users stay apart; nothing replaced is lost; nothing stays behind |
| dashboard cache | `agent_handlers/dispatcher.py`, `portal/app/cache.py` | snapshots per source | get, invalidate, background refresh | single flight, invalidation during a refresh | nothing stale shown as fresh; never back; invalidations served |
| portal sessions and routes | `portal/app/__init__.py`, `storage.py`, `boundary.py`, `hysteria_auth.py`, `routes/` | sessions, login failures, confirmations (SQLite), the users hysteria asks for | login, forms, confirmed operations, authentication | threads that share a row, a lost answer and a second submit, a form that is old | a confirmation does one thing; the lockout counts every failure; forms and authentication do not act on the past |
| prepared updates | `routes/implementation.py`, `storage.py`, `github_updates.py`, `dispatcher.py` | rows, archives, markers | upload, prepare, check, start, discard | an upload, a retention, a discard and a start of one archive; an agent and a portal that are replaced | one start; a running archive is kept |
| update script | `update.sh`, `install-host-agent.sh`, `project-backup.sh` | source tree, snapshot, fingerprint, maintenance lock | stage, install, render, restart the agent, sync, compose | the rollback boundary; a run that ends between two commands | the tree is of one version; OK means everywhere |
| metrics, release tooling, templates | the rest | none worth modelling | sampling, packaging, presentation | | |

Interactions: portal routes call the agent over the socket and give up after a
timeout while the handler goes on; agent handlers call the control operations in
the same process; control operations go through the store, then `render_all`,
then `restart_services`; kvnctl calls the same library from another process and
shares only files and the file lock with the agent; an update runs in a unit of
its own and restarts both the agent and the portal.

## 2. Plan

Order of work, the most important behaviour first. All of it is done.

1. `SerialStore`, `StateStore` (proofs in `UsersJson_proofs`): the store everything rests on.
2. `ServiceApply`, `ServiceApply_proofs`: from a committed state to running services.
3. `HostVpnSync`: the sync script step by step.
4. `DashboardCache`, `DashboardCache_proofs`: the background cache of the agent.
5. `TerminalStream`, `ShellStream`, `ShellStream_proofs`, `ShellRegistry`,
   `ShellRegistry_proofs`: root shells, one from end to end and all of them together.
6. `Migration`, `Migration_proofs`: the transfer of users between servers.
7. `Portal`, `Portal_proofs`: the threads of the portal, its sessions, lockout and
   confirmations, and their calls to the agent.
8. `UpdateScript`, `ProjectUpdate`: `update.sh`, and the prepared updates that start it;
   `HostScripts_proofs`: the proofs about it and about the sync script.
9. `DesiredState` (proofs in `UsersJson_proofs`): what `users.json` says, and the files and links
   that are rendered from it.

Compositions: `StateStore` implements `SerialStore`, and the modules that change
`users.json` (`ServiceApply`, `Migration`, `Portal`, `DesiredState`) take a transaction
as the one step that `SerialStore` promises. `ShellStream` implements `TerminalStream`.
`ProjectUpdate` extends `UpdateScript` by the portal and the agent that start its runs.

## 3. The modules

Each model takes the control of the code and leaves out the data: a configuration is a
version number, a character of the terminal its position, a content of `users.json` a model
value. The map from definitions to source lines is in `PROJECT.json`.

### StateStore, SerialStore: `tools/kvnlib/core/io.py`

A task is a thread that calls the store; `ProcessOf` says which process it runs in. `file`
is what a reader of `users.json` sees, `durable` what the directory entry on the disk leads
to, `fileSynced` whether the data blocks behind `file` are on the disk. `threadLock` has an
entry for each process (the `_thread_locks` of `StateFileLock`), `fileLock` is the `flock`.

| action | code |
|---|---|
| `Load` | `load()`, without a lock |
| `BeginUpdate`, `BeginSave` | `update()`, `save()` until the lock |
| `TakeThreadLock`, `TakeFileLock`, the two timeouts, `UnlockFile`, `UnlockThread` | `StateFileLock.__enter__` and `__exit__` |
| `Decide` | load under the lock, comparison of the revision, mutator |
| `WriteTemp`, `SyncTemp`, `Replace`, `SyncDirectory`, and their failures | `atomic_write_text` |
| `ProcessDies`, `PowerLoss` | external: the kernel drops the `flock`; the page cache is lost, the disk is not |

The revision is a hash of the content and is the content here: that two contents have
different revisions is the assumption behind the code, too. `edit()` is the transaction of
`update()` with another signature; no production caller uses it.

`SerialStore` is what callers are promised: one register, replaced in one step by what the
mutator makes of it, provided the revision holds; errors before and after that step;
acknowledgement only when a power loss no longer takes the change back. `StateStore`
implements it with `content <- file`, `stable <- durable`, `call <- request` and `installed`
the task between `os.replace` and the fsync of the directory: the linearisation point is
`os.replace`.

### ServiceApply: `portal/agent.py`, `portal/control`, `kvnlib/commands`, `runtime/plan.py`

`users` is `users.json`: a configuration version for every service and the enabled
preference. `generated` are the rendered files, `installed` the copies of host VPN files under
/etc, `running` what each service has loaded, or `Down`. A request (`thread[t]`) goes through
the steps of its handler: `Begin` (`mutation_lock_scope`: the request gets the global lock, or
the lock of its service for `service.action`; what waits for a lock has done nothing), `Commit`
or `CommitRefused` (`STATE_STORE.update`, one step by `SerialStore`), `Fingerprint`, one
`Render` for each file, `Plan` (`build_change_set` and the choice of `restart_services`),
`ApplyDocker`, `SyncHost`, `VerifyHost`, `Restart`, `Finish`. The six actions on a service
(start, stop, restart, reload, enable, disable) are `SwitchRuntime`, and `Persist` for the
preference that enable and disable save. Every one of them can fail where the code can.
`AgentRestart` ends all threads at whatever step they are and runs `reconcile_services`.

Three variables are history. `reported`: the services that an answer, or a crash without an
answer, left in doubt and that have not been seen with their configuration since. `contested`:
the services that two requests in progress under different locks work on; the last answer of
such a group puts them among those in doubt. `byHand`: what an action of the operator made of a
service where this is not what `users.json` asks for (an enabled service that was stopped, a
disabled one that was started, a host VPN that was started from an older copy under /etc). It is
forgotten when an apply brings the service up. An action that succeeds puts nothing in doubt.

Abstractions: the configurations of a host VPN differ in peers only (a change of the link
part is the subject of `HostVpnSync`); a sync is one step here; `telemt`, which watches its
file, is a Docker service whose hot update succeeds; a change is a step to the next version,
and the versions in `Unused` are those in which no user has the service. The settings
operations (protocols, SNI, AmneziaWG parameters) commit, render and apply in the same way
and are the same `change`.

### HostVpnSync: `sync-host-service.sh`, `_sync_wireguard`, `verify_wireguard_runtime`

The steps of the script, one action for each: compare the copy with the rendered file,
replace the copy, write the unit, choose between `syncconf` and a restart, do it; then the
verification. A configuration has a link part (address, MTU, rules: what only a restart
applies) and peers. `Interrupted` ends the script at any step (`set -e`, the 60 s timeout,
the end of the agent), `InterfaceLost` removes the interface under an active oneshot unit.
`halfway` is a history variable: a script was ended between the replacement of the copy and
its restart, and no restart for a change of the link part has followed. The amneziawg script
has the same steps.

### DashboardCache: `DashboardSnapshotCache` in `dispatcher.py`

The state of the host is a version that every service action (`Act`) increases before it
calls `Invalidate`. `Get` starts the refresh thread when a source is due and none runs;
`TakeContext`, `TakeNext`, `Load` or `LoadFails`, `Store` or `StoreError`, `End` are its
steps. Time is its effect: `Expire` makes any item due at any moment. `required` and
`collected` are history variables.

### ShellStream, TerminalStream: `root-shell.js`, `shell_stream.py`, `shell.py`

One root shell in the browser. A transport is one WebSocket with the two threads the portal
gives it; its number is the `stream_id`. `browser` has the variables of the script
(the queue, the pending message, the cursor, the frame being rendered), `portal`, `write`
and `read` are the main thread and the RPC requests of each transport, `session` is
`RootShellSession` with its buffer window, sequence number, pending write and offset.
Connections break at any moment; requests of a connection that is gone may still be served;
an RPC may time out. Input and output are intervals of character numbers, which is what
decides whether something is lost, doubled or out of order.

`TerminalStream` is what the terminal promises: both ends see prefixes, in order, once. A
mapping is not needed, the four variables of the ends are those of `ShellStream`.

Not modelled: the 256 KiB limit of the queue in the browser, the size of the window, the
rate limits, the retry delays.

### ShellRegistry: `_shell_*` in `dispatcher.py`, `close` in `shell.py`

The threads that open, use, attach to, poll and close shells, and the reaper, with
`root_shell_lock` (`registry`) and the lock of each session (`shellLock`). Every request begins
with `_cleanup_root_shells` (`Cleanup`, `CloseNext`, `Barrier`, `EndProcess`); `Enter` and
`Spawn` are the rest of `_shell_open`; `Lookup`, `Lock`, `Leave`, `FindEnded` and `Drop` a
request that names a shell; `Pop` is `_shell_close`. `process` is the shell itself: it has
ended, runs attached to its PTY, or runs astray, after it left the PTY (`Detach`) or a close
that did not stop it. `close` passes over what systemctl answers, and its last wait may raise:
`EndProcess` ends the process or leaves it astray, `EndRaises` ends with it the request or the
reaper, and what that had still to close stays registered. `FindEnded` is a poll that finds the
process ended, or that nobody has the other end of the PTY (EIO). Nothing is kept of an ended
shell that is no longer registered, so that its identity can be used again. The password and its
lockout are not modelled: a request that is refused does nothing here.

### Migration: the transfer of users between servers

`tab` is the wizard of a browser tab (`migration.js`), with the staged file, the preview and
the ticket it holds; `files` and `lock` are the directory of archives and its `flock`, which
portal (`routes/migration.py`) and agent (`agent_handlers/migration.py`) take without
waiting; `request` the RPC requests in the agent, of which one at a time holds `mutating`;
`previews` are the entries of `MigrationPreviews`; `users` and `backups` are `users.json` and
the private copies beside it.

| action | code |
|---|---|
| `UploadBegins`, `UploadCreates`, `UploadEnds`, `UploadFails` | `uploadFile` in the browser and `save_upload` |
| `AskPreview`, `AskCommit`, `AskCancel`, `AskExport`, `GiveUp` | the routes and the RPC, which the portal gives up after its timeout |
| `TicketRefused`, `TicketExpires`, `CancelTicket`, `FinishCancel`, `Reload` | tickets, and what the wizard does without an answer |
| `Begin`, `Refuse`, `Preview`, `Take`, `Update`, `Apply`, `Cancel` | the handlers of the agent; a commit takes the entry, backs `users.json` up, replaces it if the revision holds, applies it |
| `ExportBegins` to `ExportFails` | the export, which counts, creates and fills a file |
| `Cleanup`, `FileAges`, `PreviewExpires`, `TimerFires` | retention of files and previews |
| `Edit`, `RestoreBackup` | other changes of `users.json`, each one step |
| `PortalDies`, `AgentDies` | restarts |

A person is a name, a key and an address, which is what must not be shared; a site stands for
the server's own part of `users.json`, with its network. Encryption is not modelled: an
archive that is not complete (an upload that was cut) does not decrypt. The scrypt
parameters, the encoding and the size limits are left out.

### Portal: the Flask application and its storage

A thread (`thread[t]`) is one request in a gunicorn worker, `call[t]` its RPC in the agent,
which may outlive it. A handler of a route is a record: whether it asks for a confirmation,
whether it reads the state before, which revision it sends (that of the form, that it read, or
none), what it does, and which confirmations the page it renders offers; `AllHandlers` lists
those of the routes. The steps are those of a request: `LoginBegins`, `RecordFailure`,
`ClearFailures`, `CreateSession`; `RequestBegins`, `ConsumeLooks`, `Consume`, `ReadState`,
`Ask`, `Execute` or `Refuse` in the agent, `Reply`, `GiveUp`; the steps named `Auth...` are
`hysteria_auth.py`, which stats the users it is given, reads them again under a lock when their
signature has changed, and looks the client up. `SessionExpires`, `ConfirmationExpires`,
`BlockEnds`, `CountAges`, `Cleanup`, `WorkerRestarts` and `OtherChange` happen beside them.

The users that the portal is given are not `users.json` but the runtime copy
(`portal-runtime/users.json`, `docker-compose.yml:25`), `copy` here: its stamp, by which the
cache knows it, and the revision it was written from. A change is `Execute` (users.json is
saved), then `RenderAll`, which ends with the copy (`sync_portal_runtime_state`), or
`NothingRendered`, when the render fails or there is nothing to render; `service.action` works
under another lock than the changes (`Alone`), so that its render may be older and set the copy
back. `OtherChange` and `OtherCopies` are `save_state` of kvnctl, `OtherDies` its end in
between. Writing the same users again does not change the stamp here: the cache would read the
same. `served` is history: the newest revision that was copied with no older render under way.

`users.json` is its revision here. The row of `login_failures` is that of one address; the
rows of other addresses are independent. `Cleanup` deletes it when its block is over, and also
when nothing was added to it for `LOCKOUT_SECONDS` (`CountAges`). `denied` and `runs` are history
variables.

### UpdateScript, ProjectUpdate: `update.sh` and the updates the portal starts

`run[u]` is one run of `update.sh`, in the unit that the agent starts or by hand. Its steps
are those of the script: `MarkArchive` and `Execute` (the wrapper of the unit), `TakeLock`
(the maintenance lock), `Stage`, `InstallPart` for the two parts of the tree (what the
fingerprint of the agent covers, and the rest), `Plan`, `Render`, `InstallAgent`
(`install-host-agent.sh`, with its fingerprint), `SyncHost`, `ComposeUp`, `Finish`. Any
command may fail: `Fail` is the trap, which puts the tree back only before the containers
were replaced; `Kill` ends the script without it. Either way the step that was under way may
have been done in part (`HalfDone`): `.env` without the rendered files, an agent that was
restarted but not accepted, a host VPN or containers that are new or down. `ComposeUp` is
`docker compose up -d`: only containers with another image or definition are made anew
(`Definition`, by `Unchanged`), and only those load the rendered files; the others go on with
the ones they have, until they crash (`ServiceRestarts`). `BackupBegins`, `BackupReads`,
`BackupEnds` are `project-backup.sh` beside it. A version is the archive it came from, and a
state of the server the version that wrote each of its parts.

`ProjectUpdate` adds the portal: `rows` is the table `prepared_updates`, `req` the requests,
`call` their calls. `UploadBegins`, `UploadSaved`, `AskRelease`, `Prepare` (the download from
GitHub), `Inspect`, `Publish` lead to a prepared update; `Claim`, `CheckUpdate`, `LaunchUnit`,
`Settle` start it. `UploadBegins` first looks at the old archives and `Discard` at one, each in
two steps, `CheckMarker` and `RemoveArchive` (the retention then forgets its row, `RemoveRow`),
between which the wrapper of a run may set the marker (`RunMarks`; `made.overtaken` counts such
runs); `Admit` is the limit on the files, `ArchiveAges` makes them old. `GiveUp` ends a
call that goes on in the agent; `RunReplacesAgent` and `RunReplacesPortal` are the moments at
which an update ends the calls and the requests themselves.

### DesiredState: what is in `users.json`, and what is rendered from it

`state` is `users.json` as far as it decides which service answers a client: users with their
systems, keys, tokens, addresses and SNI overrides, the SNI routes with aliases, custom routes,
the domains of the site, the modes of Reality and the parameters of the systems. `files` are
the rendered files: the map of nginx, the inbounds of Xray, the users of hysteria, telemt and
ocserv, the peers of the tunnels, the directory of each client with his links and files, and
the subscriptions on the web. The operators carry the names of the functions they translate:
`cmd_add_user`, `apply_sni_route`, `validate_sni_uniqueness`, `server_names`,
`next_wireguard_client_address` and so on. An operation (`Kvn` for the commands of kvnctl,
`Portal` for those of the portal, `IssueCertificate`) validates, saves and renders; a render
that is interrupted has written the files up to some place of its order (`Interrupted`), and
`whole` says that the files are those of the state.

Abstractions: a key, a UUID and a token are numbers from `Secrets`; a list of SNI names is a
set with its first element; ocserv is enabled; the IP address of the server is known; the
wording of a link is left out, what is kept is the system, the name, the SNI, the port, the
parameters and the credential. The last step of a render, the runtime copy of `users.json` for
the portal, is not among `files`: it is the subject of `Portal`. MTProto over mtg has one secret
for all users, which is never changed (`implementation.py:5415`): it is no credential of a user,
and what is said of access here does not cover it (section 7).

## 4. What is model-checked

| run | instance | what it shows |
|---|---|---|
| `store_register` | a thread of the agent, a kvnctl process; three contents; create, edit, remove | the store implements `SerialStore` through failures, deaths and power losses; calls with a revision never overwrite what they have not seen; every call returns |
| `store_locks` | two threads of the agent, kvnctl; two contents | the two-level lock excludes within and between processes; what is acknowledged is durable |
| `apply_operations` | a thread for every operation, beside it one that enables and disables; a Docker service and a host VPN; two versions, the first without users | what no answer left in doubt is current or as the operator made it; a disabled service stays down; a reconcile that succeeds brings the host VPN up to `users.json`; a forced apply that succeeds repairs its service, whatever failed or died before |
| `apply_reconcile` | one thread; a Docker service | violated: a reconcile that succeeds leaves the service with its old configuration |
| `dashboard` | three sources, one of them derived, one not invalidated; two refresh threads; two actions | no fresh item from before an invalidation; no snapshot goes back; every invalidation is served |
| `sync_host` | three link parts, three sets of peers | what a sync that succeeds has brought up; sessions survive a change of peers |
| `shell_stream` | two connections; two characters typed, or three printed into a buffer of two, where the shell ends or is closed | input and output arrive once, in order, and all of it unless the terminal says that it has ended; output is discarded only afterwards; the checks of sequence numbers never end a session that is in order |
| `shell_registry` | two threads, three shells, two owners, limit two | no shell is lost, one for each owner, the limit; the only way to get stuck is the known one |
| `migration` | one tab, one request; a server with a user, archives of a person, complete or cut, one of a namesake to be added; room for one file and one preview; two of each, two edits | a commit does what its preview showed, once; users stay apart; what was replaced is backed up; the limits hold; no archive stays |
| `portal` | two threads, one session, a confirmation, a lockout after two failures; one change and one event beside; two changes of the runtime copy | a confirmation is behind one operation; denials are bounded; forms change what they showed; hysteria asks no older users than the copy held when its request came |
| `project_update` | an upload that leaves the portal's container as it was, a GitHub release that leaves those of the services, two requests, two runs (full and by hand), one fault | the tree is of one version; OK is everywhere; a running archive is kept; one start for each prepared update |
| `desired_state` | two names, two sets of systems, two kinds of fresh server; three operations, one of which may be interrupted | links are served; addresses are unique; access ends |

Why the bounds are enough. Two tasks of two processes and three of which two share one are the
two kinds of competition for the store's locks. Two versions of a service distinguish old from
new, and a host VPN without users from one with users. Two threads are one under the global lock
or that of a service and one under that of a service; two requests under the global lock exclude
each other, and so do two at one service. The second thread enables and disables, the two
actions that also write `users.json`; the other actions and an apply beside a change are left to
the theorems, which hold for any threads, operations and versions (section 5). Two service
actions are one before and one during a refresh. Three link parts and peers distinguish what was
rendered, copied and run. Two connections are one that is gone and one that has replaced it; two
characters let a write be partial, three characters in a buffer of two fill it and wait. Three
shells for two owners and a limit of two leave one to open while another is closed. One tab
competes with its own requests, which go on after it has given them up; two previews are one
that was replaced and one that replaces it; the theorems of `Migration_proofs` hold for any
number of tabs and requests. Two portal threads submit one form twice, or log in at once; the
theorems of `Portal_proofs` hold for any number of threads, sessions and confirmations. Two
changes of the copy are one and one that overtakes a request in progress, or sets it back. Two
runs are one that holds the maintenance lock and one that waits; one fault is one command that
fails, one answer that is lost, or one kill, at any place; one archive leaves the portal's
container alone and the other those of the services, so that each kind is met. Three operations
are a change, one that conflicts with it and one that takes it back; `Breaks = {5}` interrupts a
render in the middle of its order, between the services that were written and those that were
not.

Symmetry is used for threads, shells and owners (`shell_registry`), threads (`portal`),
requests (`project_update`) and names (`desired_state`), whose values are alike in every
action, and only in runs without liveness.

Deadlock. TLC checks it except in `shell_stream` (the terminal may have stopped, with nothing
left to do), `shell_registry` (the circular wait of section 7 is a deadlock;
`SomebodyProceeds` states that there is no other), `project_update` and `desired_state`
(which stop when the bounded runs, faults and operations are used up).

Fairness. `StateStore`: weak fairness of each task's next step (a running thread goes on; a
wait ends by the lock or its deadline). `DashboardCache`: weak fairness of the refresh
thread, and of `get()`, since an open dashboard polls. `ShellStream`: weak fairness of the
threads of the portal and the agent, of the timers and the events of the browser; strong
fairness of a write that the PTY accepts, since a program that goes on reading drains the
PTY again and again between the retries. Typing, printing, breaking connections, exits and
closes are never fair. `Migration`: weak fairness of what time does (files age, previews
expire, their timers fire) and of uploads and requests, which end or are given up; strong
fairness of the cleanup, which runs again and again and finds the directory free between
those who hold its lock. The others state no liveness: Python locks are not fair, so no
request has a guaranteed turn, and deadlock freedom is checked instead.

## 5. What is proved

With TLAPS, for every value of the constants that satisfies the assumption of the module.

`UsersJson_proofs` holds two sets of theorems, about how `users.json` is stored and about what
it says.

The first is about `StateStore`, from `StoreAssumption` (names of things that are not tasks or
contents, the types of `ProcessOf` and `Mutate`). `TypeOK`, mutual exclusion,
`GuardedReplaceIsSerial`, `AcknowledgedIsDurable`, and that the store implements `SerialStore`.
The inductive invariant is `TypeOK /\ LockInv /\ CallInv /\ GuardInv /\ fileSynced`. `LockInv`
says at which steps which lock is held: without it a step of another task could change the file
between the decision and the replacement. `CallInv` says that what was decided still holds when
it is acted on (the decision recomputed on the current file is the same, `working` is what the
mutator makes of it). `GuardInv` ties the basis of a save to the revision it names. `fileSynced`
is the order of fsync and replace. Each action maps to a step of the register or to a stutter:
`Replace` to `Install`, `SyncDirectory` to `Acknowledge`, the decisions to `Refuse`,
`ThreadLockTimeout`, `FileLockTimeout` and `UnlockThread` to `Close`.

The second is about `DesiredState`, from `DesiredAssumption` and `RouteAssumption`: hosts and
secrets are positive numbers, a certificate names the server, no domain that is entered is
empty, devices and routes are among those the code knows. `AddressesAreUnique`, `AccessEnds` and
`LinksAreServed`, for any users, systems, domains, certificates and addresses, any number of
operations of the command line and the portal, and any that are refused or end early, after
whichever file. The invariant `DInv` has three parts.

* `Good`: the state is well formed (no SNI and no backend is empty, which `collisions` and the
  fallback of nginx rely on) and the tunnel addresses of those who are there are apart. There is
  one lemma for each operation. The addresses of a user who lost a tunnel stay taken, which is
  what makes it inductive: with `TakenByHaving` a user could get the tunnel, and his old address,
  back after another user got it.
* `TlsKept`: the inbound of TLS, which is never written anew, has no parameters.
* `Rendered`: the files, when they are those of the state, are a whole render, over any older
  files, of a state that passed the checks and is `Prepared`: overrides are of systems that may
  have one, the routes of Reality with an override are set, and the names xHTTP answers for are at
  least those of its route.

`AccessEnds` follows from `Rendered` (`RenderedFiles`), because a render keeps of the older files
only the target of Reality, what is kept for TLS, and profiles of a user's own directory.
`LinksAreServed` needs the order of the claims. The check and the nginx map do not look at the
same claims: the check takes the users who are disabled too, and gives a route that is not set no
backend. `ClaimsAreChecked` finds for each claim of the map one that was checked and names the
same backend, or none where the backend is VLESS TLS, the only system whose override may stand
without its route (this is where `OverridesRouted` is needed); so all claims of one SNI agree
(`ClaimsAgree`), whichever comes first, and the map leads each where it says (`MapFollows`).
`ProfilesAreOf` says what is in the directories and subscriptions of a user, `ProfilesAreAdmitted`
what the services know of it, `ProfilesAreRouted` where the router leads it.

`ServiceApply_proofs`, from `ServiceAssumption`. `TypeOK`, and the four properties the run
checks, for any services, versions, threads and operations, and without a hypothesis on what
runs beside what: the properties themselves except the services that two requests under
different locks worked on at once, where the code guarantees nothing (section 7).

`RecordInv` says what a request is at each of its steps, `HeldInv` that a request in progress
holds its lock. `ApartInv`: two requests that work on one service have contested it, because
one that has a lock keeps out everybody who needs the same, and `Begin` counts the rest.
`FollowInv` follows a service that is not contested through the one request that works on it.
`Found` says what this request has found, rendered and brought up of it, in doubt or not: what
a forced sync left neither on the list nor failed runs its file, which gives
`ReconcileConvergesHost` and `ForcedApplyConverges`. `Kept` is `UnreportedIsCurrent` and
`DisabledStaysDown` made inductive (`Rests`): while the request is under way, what does not run
as `users.json` or the operator asks is about to be found different, is in the plan, or has
failed and will be reported; a switch that has been made and is not saved yet runs what it is
about to save (`Meant`).

`HostScripts_proofs` holds two sets of theorems, about what root's scripts do to the host.

The first is about `ProjectUpdate`, from `UpdateAssumption` and `PortalAssumption` (an upload is
an archive, the markers `Nobody` and `Archiver` are neither requests nor runs, bounds are natural
numbers): `TypeOK`, and the four properties of the run, for any archives, requests, numbers of
runs and faults of every kind.

* `SourcesAreWhole`. `LockInv`: whoever is past `TakeLock` holds the maintenance lock, and so
  does a backup that reads; they exclude each other. `SourceInv` adds the snapshot: outside
  `InstallPart` the tree is of one version, and what a run goes back to is too. `BackupInv`:
  what a backup has read is still there. All of it as long as no replacement was cut off
  (`NothingTorn`), which is the hypothesis of the property.
* `OkIsEverywhere`. `Brought` says for each step of a run what it has brought to its version so
  far, `AgentInv` that the agent runs the code of the saved fingerprint unless it was
  restarted with other code than that. Whether the service containers are those the run has
  found (`found`) decides whether they have loaded its files.
* `StartsAreSingle`. A row has a number of its own (`RowInv`), a row that is `starting` exactly
  one request that will settle it (`CallInv`, `ClaimInv`). For "run once" the theorem counts
  (`StartsInv`): the runs of a row, the calls that may still start or give back one, and the row
  itself while it is `ready` are together one, and one more for every answer that was lost.
* `RunningArchiveIsKept`. `MarkInv`: a run of the portal keeps the marker of its archive until it
  is extracted. `TargetInv`: when a request has found no marker and is about to remove an
  archive, no run of it has been marked since, but for those in `made.overtaken`, which the
  property excepts (section 7). What is left is the moment before the marker is set and the
  rollback of an upload, and `UploadInv` excludes it: until it has been inspected, no row, call
  or run knows the name of an upload. This is where the random name of an upload matters.

The second is about `HostVpnSync`, from `NoneAssumption`: `SyncTypeOK`,
`SessionsSurvivePeerChanges` and `Synchronised`. `SyncBaseInv` says what the script works
from (the rendered file, and the copy as it was) and that an interface and a unit came from
a copy. `SyncUnitInv` and `SyncLinkInv` carry the link part: unit and interface have that
of the copy, except between the replacement and the restart, or after a script that ended
there. The exception is what makes them inductive, and what the code does not handle
(section 7).

`DashboardCache_proofs`, from `DashboardAssumption`. `TypeOK`, `CollectedAfterInvalidation`
and `SnapshotNeverGoesBack`, for any sources, dependencies and refresh threads. `SingleInv`:
a refresh runs alone. `WorldInv`: nothing that is shown or required is newer than the host, and
what an action changes is newer than its last invalidation. `CollectInv`: while the generation a
refresh works with is current, what it has loaded is as new as what was required. `FlightInv`:
since nobody else writes the items, the context of a refresh is what is shown; a source computed
from another is never newer than that one; so what is about to be stored is not older than what
it replaces.

`ShellStream_proofs`, from `ShellAssumption` (bounds that are natural numbers and a buffer
that is not empty). `TypeOK`, `OutputIsKept`, `NoMismatch`, and that a shell implements
`TerminalStream`, for any number of connections and characters and any size of the buffer. The
invariant has three layers. `BaseInv`: a transport is new, runs and ends once, and all that it
knows of the output (its cursor, the one in its read, those in its messages) is on the screen, so
that `read_stream` discards nothing else. `OrderInv` adds the numbers: there is one input `d` such
that everything still on its way to the agent has a number up to `inputSeq + 1`, with the last
input or `d` as its data; what the browser waits for is one of the two. With the offset of a write
that the PTY took in part, the PTY has received a prefix of what was typed, and a late request
finds itself repeated or refused. Each step then shows a longer prefix, or stutters. `MatchInv`
adds what makes the checks superfluous for the current connection: its input is in one place
(on its way, in a call, on its way back) while the browser waits (`ChainInv`); one frame is on
its way, rendered or acknowledged (`FrameInv`), and no read is under way before the portal has
the acknowledgement (`CursorInv`); no older connection knows of more output, so that none can
make the agent discard what the current one asks for (`FloorInv`). That `NoMismatch` rests on
`FloorInv` is not obvious from the code: the lease may go back to an older connection (section
7), and it is its cursor that makes this harmless for the output.

`ShellRegistry_proofs`, from `RegistryAssumption`. `TypeOK`, `NoShellIsLost` and
`OneShellPerOwner`. `HoldInv` says who holds `root_shell_lock`: threads that pop, spawn or
close, except the one that closes the shell it was asked to close. `TargetInv`: what is
being closed is not registered and not registered again meanwhile; a poll that drops its
shell has seen it end. `PlaceInv`: while a thread makes room for an owner, the shells of
this owner that are registered are those it will still close. One lemma for each action
says what it does to its request, one what it does besides; the steps of the invariants
follow from these. `NeverStuck`, the part of `SomebodyProceeds` that speaks of states: while
requests are in progress one of them can go on, but in the circular wait of section 7. Of
`LockInv`, which it needs, `HolderInv` says that who holds `root_shell_lock` is closing shells
or about to open one, `ShellHoldInv` that who holds the lock of a session uses this session or
is about to drop it; so a thread that is kept from going on leads to one that is not, or to
this wait (`StuckOnlySo`). That `CanGoOn` says of a thread what its steps need is the other
part, which TLC checks.

`Migration_proofs`, from `MigrationAssumption` and `StartAssumption`. `TypeOK`,
`UsersStayApart`, `CommitIsWhatWasShown`, `ReplacedIsBackedUp` and `StagedIsBounded`, for any
tabs, requests, persons and bounds. `ActiveInv`: one request that is at work holds the mutation
lock. `ShownInv`: an entry is among the previews, or one commit has taken it; it shows what its
preview showed, so that no entry is committed twice or as something else. `ContentInv`: users
and backups fit together (no shared name, key or address), and a replaced content is in the
backups from the step before it was replaced. `LockInv` and `RoomInv`: whoever holds the `flock`
is alone in the directory, and the room it has counted is still there when it creates its file.

`Portal_proofs`, from `PortalAssumption`. `TypeOK`, `ConfirmedOnce`, `FormsSawTheState`,
`DenialsAreBounded` and `AuthIsCurrent`, for any threads, sessions and confirmations. `CallInv`:
a thread that is at a step of its own has no call that goes on. `TokenInv`: a
confirmation that a thread or a call carries is spent, has run nothing and is carried once.
`FormInv`: a form that was sent names the revision it was shown with. `LockoutInv` counts the
denied logins against the row, aged and deleted ones included, and the threads that have not
recorded theirs yet. `CopyInv`: what is served is neither newer than the copy nor than anything
that may still be copied over it. `AuthInv`: the users that are cached under the signature of the
copy are those of the copy, and those a thread answers with are not older than what was served
when its request came.

## 6. What is only model-checked, and what is not modelled

Out of the prover's reach: liveness (`CallReturns`, `InvalidationIsServed`,
`EverythingArrives`, `NothingIsKept`), and of `SomebodyProceeds` the part that speaks of
ENABLED: that a thread has a step exactly where `CanGoOn` says so. What it says of the states
is proved (`NeverStuck`).

Not modelled:

* What the routes present: templates, translation, CSS and the scripts of the pages except
  those of the terminal and the migration wizard. They keep no state beyond their form.
* Metrics and activity: samples and counters that nothing else reads.
* Release tooling, CI and the choice of a release on GitHub: sequential, offline, tested.
* Setup and the installation of the host: questions and package managers, run once by hand.
  What setup leaves in `users.json` is where `DesiredState` begins (`NewServers`).
* The wire format of the RPC, the encryption of archives, the formatting of links and
  configuration files: data that the properties do not tell apart.

`PROJECT.json` lists every component with what is left out of it, and the hazards with the
properties that cover them or the reason why none does.

## 7. Known divergences

Shown by a run that TLC must find violated:

* `apply_reconcile`: reconcile compares the generated files with what the interrupted request
  had already rewritten, so that a Docker service whose restart failed is not restarted, and
  reports success (`tools/kvnlib/commands/implementation.py:6664`; `README.md:710`,
  `DEPLOY.md:145`).

Found in the same models, and kept out of their runs by the bounds or by the property; each
can be reproduced with a change of a configuration:

* Lost update. kvnctl (`implementation.py:343`) replaces `users.json` by a copy it loaded
  earlier, without its revision; a change the portal committed in between is lost. The property
  `EveryReplaceIsSerial` on the instance of `store_register`.
* Actions beside a change. `service.action` and a change run under different locks
  (`portal/agent.py:57`). The change restarts what a disable has just stopped (`README.md:314`),
  and the render of an apply may write an older snapshot over that of a change (`README.md:712`);
  all of them report success. The properties except these services (`contested`). Without the
  exception (`Answer` leaves `contested` out of `reported`) `DisabledStaysDown` fails on the
  instance of `apply_operations` with `Operations` of a change for one thread and a disable for
  the other, and `UnreportedIsCurrent` with a change and an apply.
* Last user of a host VPN. Reconcile forces the sync only of systems some user has
  (`legacy/implementation.py:1512`): when the request that removed the last user was
  interrupted after the render, the removed peer stays. `ReconcileConverges` on the instance of
  `apply_reconcile` with `Docker = {}`, `Host = {xray}` and `Unused = {2}`.
* Start and enable of a host VPN. `systemctl start` and `enable --now` start the copy under /etc
  (`dispatcher.py:1407`); a change made while the service was disabled was not synced, and they
  do not sync it (`README.md:519`: users.json is the only source of truth), though the answer is
  success. A Docker service that was started while it was disabled keeps what it had loaded in
  the same way when it is enabled. `UnreportedIsCurrent` without `byHand`.
* Other actions. A stop leaves an enabled service down, until the next restart of the agent or
  an apply that touches it; a start, restart or reload of a disabled service brings it up
  (`README.md:314`: it does not come alive), until the next restart of the agent. `README.md:320`
  has them as commands of the operator, and so do the properties (`byHand`).
* Derived sources. `_refresh` computes the health summary from containers collected before
  an invalidation and stores it with a full TTL, because it compares only the generation of
  the summary itself (`dispatcher.py:268`; the docstring of `invalidate`, line 249). The
  invariant `DerivedAfterInvalidation` in place of `CollectedAfterInvalidation`.
* Sync ended halfway. The script replaces the copy under /etc before it restarts, and decides
  about the restart by that copy; when it ends in between, the next sync applies only the
  peers and is verified (`sync-host-service.sh:107`; its header, and `README.md:36`).
  `Synchronised` without `~halfway`.
* Lease of the stream. `start_stream` gives the lease to whatever attach is served last; that
  of a connection the portal gave up after 3 s (`shell_stream.py:62`) may still wait for
  `root_shell_lock` and takes it back (`shell.py:124`, docstring at 123). The property
  `LeaseGoesToNewest`.
* Shells without an entry. `close` is called after the shell was popped; it passes over a
  failure or a timeout of systemctl, and its last wait raises a second after SIGKILL
  (`shell.py:218`, `:233`), so that a shell that could not be stopped runs on where neither its
  owner nor the reaper finds it. A poll that gets EIO drops its shell without ending it
  (`dispatcher.py:897`), a program that has left the terminal included. An exception in the
  reaper ends its thread, which is not started again (`dispatcher.py:669`): what it had still to
  close stays registered, until the next request of any shell. `NoShellIsLost` with
  `process[s] # "ended"` in place of `process[s] = "attached"`.
* Polling reads. `_read_shell_locked` takes `root_shell_lock` while it holds the lock of the
  session (`dispatcher.py:911`); the reaper and `shell.open` close sessions the other way
  round (`dispatcher.py:661`, `:937`, `shell.py:212`). Both wait for ever, and with them every
  shell request. Only the route of polling reads, which the page of the portal does not
  use, can do it. The invariant `NoCircularWait`.
* Fingerprint of the agent. `install-host-agent.sh` restarts the agent when the sources differ
  from the saved fingerprint, which it saves only after the agent has answered
  (`install-host-agent.sh:126`, `:186`). An update that fails or is killed in between leaves the
  old fingerprint beside the new agent; installing the old version again finds its fingerprint,
  restarts nothing, and says OK over an agent of the failed version. `OkIsEverywhere` without
  `faults.restart = 0`, with `MaxRuns = 3` and one request. The
  property excepts an agent that was restarted, by an installation that did not end or by a
  crash, with other code than its saved fingerprint (`FailedAs`); one that restarts with the code of its fingerprint is not excepted.
* Configuration of unchanged containers. `docker compose up -d` (`update.sh:397`) leaves a
  container with the same image and definition alone, although the run has rendered the files
  that are mounted into it (`docker-compose.yml:95`); it goes on with the ones it has loaded,
  and the run says OK, after "every service is running". `OkIsEverywhere` with
  `containers'.loaded = v` for every run.
* Removal of an archive. The test for the marker and the removal are two steps without a lock
  (`routes/implementation.py:713`, `:744`), though `remove_update_archive` promises to delete only
  what is not executed (line 729): a run whose wrapper sets the marker in between loses its
  archive before it has extracted it. `RunningArchiveIsKept` without its third disjunct.
* Runtime copy. `users.json` is committed before the render, and the copy that hysteria asks is
  written at the end of it (`implementation.py:6025`): a user who was disabled is let in until
  then, and until the next render when this one fails (`legacy/implementation.py:1464`). The
  render of a service apply, which is under another lock, may set the copy back to an older
  state. kvnctl saves first as well (`implementation.py:343`). `AuthIsCurrent` with `revision` in
  place of `served` in `AuthStat`.
* mtg. Its secret is one for all users and never changes (`implementation.py:5415`), so that a
  user who loses mtg keeps a link that works as long as the service runs. `AccessEnds` says
  nothing of it.
* Links of a fresh server. The default answer of setup (`setup.sh:594`) leaves `users.json`
  without `sni_routes` (`setup.sh:673`), so that the map of nginx
  (`implementation.py:1519`) has no default name and the links on port 443 of the systems
  behind it reach the fallback. `LinksAreServed` without the first disjunct of `Excepted`.

Met while reading the code for the models, each outside what a property states:

* Portal. A login that verified the old password before a change of the password inserts its
  session after `invalidate_all_sessions` and keeps it. A call that timed out is executed and
  not audited; an answer of `portal.credentials` that comes too late leaves the sessions alive;
  the audit says "success" though the apply failed. `cmd_edit_user` renames and
  `cmd_remove_user` removes the directory of a client before the render and the save.
  `reapply_device_profiles` runs after `validate_state_inputs`. `WidgetCache` has no user.
* Updates. The EXIT trap of the unit's wrapper does not run after `exec`, so that `.running`
  markers stay, and after `MAX_FILES` of them uploads are refused (`dispatcher.py:2429`). A
  portal that is replaced between claim and finish leaves the row at `starting`, and two rows
  may be `ready`. The failure of the service plan behind a process substitution is not seen
  (`update.sh:283`). The fingerprint of the agent is saved before a later step can fail; an
  agent that crashes then starts from the restored sources, and a retry ends OK over it. A
  discard beside a preparation from GitHub unlinks an archive that was just published. A second
  run whose wrapper fails removes the marker of the first. `project-backup.sh` copies
  `users.json` without its lock and SQLite files while they are in use; the restore checks that
  its target is empty before it takes the lock, and the renewal of certificates takes no
  maintenance lock.
* Desired state. The server names of self-steal over xhttp leave out the override of another
  user, which is a manual step (`README.md:443`). The certificate commands save before their
  checks (`implementation.py:7757`, `:2953`), so that a domain that collides leaves a
  `users.json` that no operation renders until it is corrected. With `sni_enabled` false and a
  server name whose address is unknown, the export of openconnect points at port 443, where
  nginx routes the name to the site (`implementation.py:4461`, `:3579`). The JSON files of a
  system that was taken from a user stay in his directory. `remove-alias` of an alias some user
  overrides is undone by `validate_state_inputs`. MTProto can be moved to a local site in the
  portal only if the certificate already names its SNI, and the issue of that certificate
  collides before.
