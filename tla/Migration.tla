------------------------------ MODULE Migration ------------------------------
(***************************************************************************)
(* The transfer of VPN users between servers: the wizard in the browser    *)
(* (migration.js), the routes of the portal that stage encrypted archives  *)
(* (routes/migration.py), the previews and commits of the host-agent       *)
(* (agent_handlers/migration.py, control/migration.py) and the plan they   *)
(* apply to users.json (kvnlib/core/migration.py, runtime/migration.py).   *)
(*                                                                         *)
(* Portal and agent share a directory of archives under a flock that       *)
(* nobody waits for.  The agent serves one mutation at a time; users.json  *)
(* is also changed by others, each in one atomic step (module StateStore). *)
(* Time is its effect: a preview, a ticket or a file may become outdated   *)
(* at any moment.                                                          *)
(***************************************************************************)
EXTENDS Naturals, FiniteSets, Functions

CONSTANTS
    Tabs,           \* wizards open in browsers, each of a session of its own
    Requests,       \* RPC requests in the agent at a time
    Persons,        \* users with what identifies them: name, key and address
    Archives,       \* contents of the archives operators upload
    Sites,          \* the server's own part of users.json: keys and networks
    Network,        \* the addresses a site has for its users
    Start,          \* users.json at the beginning
    Capacity,       \* previews kept at a time
    MaxStaged,      \* files in the directory
    MaxPreviews, MaxFiles, MaxEdits,    \* bounds on what is done
    Nobody

ASSUME MigrationAssumption ==
    /\ Nobody \notin Tabs \cup Requests /\ Tabs \cap Requests = {}
    /\ {Capacity, MaxStaged, MaxPreviews, MaxFiles, MaxEdits} \subseteq Nat
    /\ Network \in [Sites -> SUBSET {p.address : p \in Persons}]
    /\ Start \in [people : SUBSET Persons, site : Sites]
    /\ Archives \subseteq [people : SUBSET Persons, site : Sites, complete : BOOLEAN]

VARIABLES
    users,      \* users.json: [people, site]
    backups,    \* the private copies made before a migration replaces it
    previews,   \* MigrationPreviews._entries
    files,      \* the archives in the directory, complete or not
    lock,       \* the flock of the directory: a tab (portal), a request (agent) or Nobody
    tab,        \* the wizard of each tab
    request,    \* RPC requests in the agent
    mutating,   \* the request that holds the mutation lock, or Nobody
    made,       \* how many previews, files and edits there have been
    history     \* what each preview showed, the previews that were committed,
                \* what migrations have replaced

vars == <<users, backups, previews, files, lock, tab, request, mutating, made, history>>
agentVars == <<previews, request, mutating>>

Contents == [people : SUBSET Persons, site : Sites]
Archive == [people : SUBSET Persons, site : Sites, complete : BOOLEAN]
Modes == {"restore", "merge"}
PreviewIds == 1..MaxPreviews
FileIds == 1..MaxFiles
File == [archive : Archive, old : BOOLEAN]
Entry == [owner : Tabs \cup {Nobody}, archive : Archive, base : Contents, mode : Modes, old : BOOLEAN]
Wizard == [pc : {"ready", "uploading", "receiving", "uploaded", "previewing", "pending", "committing",
                 "cancelling", "exporting", "cleaning", "removing", "removing-failed"},
           file : FileIds \cup {0}, preview : PreviewIds \cup {0}, ticket : BOOLEAN]
Request == [pc : {"free", "waiting", "preview", "take", "update", "apply", "cancel", "export", "create", "write"},
            kind : {"preview", "commit", "cancel", "export"},
            owner : Tabs \cup {Nobody}, tab : Tabs \cup {Nobody}, file : FileIds \cup {0}, mode : Modes,
            preview : PreviewIds \cup {0}, entry : Entry]
NoArchive == [people |-> {}, site |-> CHOOSE s \in Sites : TRUE, complete |-> FALSE]
NoEntry == [owner |-> Nobody, archive |-> NoArchive, base |-> Start, mode |-> "merge", old |-> FALSE]
NoTab == [pc |-> "ready", file |-> 0, preview |-> 0, ticket |-> FALSE]
NoRequest == [pc |-> "free", kind |-> "preview", owner |-> Nobody, tab |-> Nobody, file |-> 0, mode |-> "merge",
              preview |-> 0, entry |-> NoEntry]

(***************************************************************************)
(* The plan.                                                               *)
(***************************************************************************)

\* validate_migration: names, UUIDs, tokens, keys and addresses are unique.
Unique(people) ==
    \A p, q \in people : p # q => p.name # q.name /\ p.key # q.key /\ p.address # q.address

Addressable(c) == \A p \in c.people : p.address \in Network[c.site]

\* The server starts with users that are apart.
ASSUME StartAssumption == Unique(Start.people) /\ Addressable(Start)

\* Mutant: the merged set is not validated again.
PlannableUnchecked(c, archive, mode) == mode = "restore" => c.people = {}

\* A restore takes users and server identity of the archive, a merge the users only.
Planned(c, archive, mode) ==
    IF mode = "restore" THEN [people |-> archive.people, site |-> archive.site]
    ELSE [people |-> c.people \cup archive.people, site |-> c.site]

Plannable(c, archive, mode) ==
    /\ mode = "restore" => c.people = {}
    /\ mode = "merge" => c.people \cap archive.people = {}
    /\ Unique(Planned(c, archive, mode).people)
    /\ Addressable(Planned(c, archive, mode))

\* validate_identity_complete: nothing the rendering would have to make up.
Importable(archive) == archive.complete /\ Unique(archive.people)

\* Every variable has its type.
TypeOK ==
    /\ users \in Contents /\ backups \subseteq Contents
    /\ DOMAIN previews \subseteq PreviewIds /\ previews \in [DOMAIN previews -> Entry]
    /\ DOMAIN files \subseteq FileIds /\ files \in [DOMAIN files -> File]
    /\ lock \in Tabs \cup Requests \cup {Nobody} /\ mutating \in Requests \cup {Nobody}
    /\ tab \in [Tabs -> Wizard] /\ request \in [Requests -> Request]
    /\ made \in [previews : 0..MaxPreviews, files : 0..MaxFiles, edits : 0..MaxEdits]
    /\ DOMAIN history.shown \subseteq PreviewIds
    /\ history.shown \in [DOMAIN history.shown -> [base : Contents, result : Contents]]
    /\ history.committed \subseteq PreviewIds \cup {0} /\ history.replaced \subseteq Contents

Init ==
    /\ users = Start /\ backups = {}
    /\ previews = <<>> /\ files = <<>> /\ lock = Nobody
    /\ tab = [t \in Tabs |-> NoTab]
    /\ request = [r \in Requests |-> NoRequest] /\ mutating = Nobody
    /\ made = [previews |-> 0, files |-> 0, edits |-> 0]
    /\ history = [shown |-> <<>>, committed |-> {}, replaced |-> {}]

With(f, x, y) == [z \in DOMAIN f \cup {x} |-> IF z = x THEN y ELSE f[z]]
Without(f, S) == Restrict(f, DOMAIN f \ S)
Outdated(f) == {x \in DOMAIN f : f[x].old}

(***************************************************************************)
(* The directory of archives.  Portal and agent take its flock without     *)
(* waiting, drop what is outdated, count, create a file and fill it.       *)
(***************************************************************************)

Kept == Without(files, Outdated(files))

\* Mutant: the flock is not taken.
TakeDirectoryUnlocked(x) == Cardinality(DOMAIN Kept) < MaxStaged /\ files' = Kept /\ UNCHANGED lock

TakeDirectory(x) ==
    /\ lock = Nobody /\ lock' = x
    /\ Cardinality(DOMAIN Kept) < MaxStaged
    /\ files' = Kept

CreateFile ==
    /\ made.files < MaxFiles
    /\ files' = With(files, made.files + 1, [archive |-> NoArchive, old |-> FALSE])
    /\ made' = [made EXCEPT !.files = made.files + 1]

Filled(f, archive) == files' = [files EXCEPT ![f] = [files[f] EXCEPT !.archive = archive]]

FileAges(f) ==
    /\ f \in DOMAIN files /\ ~files[f].old
    /\ files' = [files EXCEPT ![f] = [files[f] EXCEPT !.old = TRUE]]
    /\ UNCHANGED <<users, backups, agentVars, lock, tab, made, history>>

\* Mutant: a file that was cut off is left alone.
CleanupComplete ==
    /\ lock = Nobody
    /\ files' = Without(files, {f \in Outdated(files) : files[f].archive # NoArchive})
    /\ UNCHANGED <<users, backups, agentVars, lock, tab, made, history>>

\* cleanup_expired_archives, a thread of the agent that tries every five minutes.
Cleanup ==
    /\ lock = Nobody
    /\ files' = Kept
    /\ UNCHANGED <<users, backups, agentVars, lock, tab, made, history>>

(***************************************************************************)
(* The wizard and the routes behind it.                                    *)
(***************************************************************************)

Move(t, to) == tab' = [tab EXCEPT ![t] = to]
Becomes(r, to) == request' = [request EXCEPT ![r] = to]

\* save_upload.
UploadBegins(t) ==
    /\ tab[t].pc = "ready" /\ TakeDirectory(t)
    /\ Move(t, [NoTab EXCEPT !.pc = "uploading"])
    /\ UNCHANGED <<users, backups, agentVars, made, history>>

UploadCreates(t) ==
    /\ tab[t].pc = "uploading" /\ CreateFile
    /\ Move(t, [NoTab EXCEPT !.pc = "receiving", !.file = made.files + 1])
    /\ UNCHANGED <<users, backups, agentVars, lock, history>>

UploadEnds(t, archive) ==
    /\ tab[t].pc = "receiving" /\ tab[t].file \in DOMAIN files
    /\ Filled(tab[t].file, archive)
    /\ lock' = Nobody
    /\ Move(t, [tab[t] EXCEPT !.pc = "uploaded", !.ticket = TRUE])
    /\ UNCHANGED <<users, backups, agentVars, made, history>>

\* The client stops, or sends nothing or too much.
UploadFails(t) ==
    /\ tab[t].pc \in {"uploading", "receiving"}
    /\ files' = Without(files, {tab[t].file})
    /\ lock' = Nobody
    /\ Move(t, NoTab)
    /\ UNCHANGED <<users, backups, agentVars, made, history>>

Waiting == {"previewing", "committing", "cancelling", "exporting"}

\* rpc(): a request to the agent for what the wizard waits for.
Send(t, r, kind, mode, waiting) ==
    /\ request[r].pc = "free"
    /\ Becomes(r, [NoRequest EXCEPT !.pc = "waiting", !.kind = kind, !.owner = t, !.tab = t,
                                    !.mode = mode, !.file = tab[t].file, !.preview = tab[t].preview])
    /\ Move(t, [tab[t] EXCEPT !.pc = waiting])
    /\ UNCHANGED <<users, backups, previews, files, lock, mutating, made, history>>

AskPreview(t, r, mode) ==
    tab[t].pc = "uploaded" /\ tab[t].ticket /\ Send(t, r, "preview", mode, "previewing")
AskCommit(t, r) ==
    tab[t].pc = "pending" /\ tab[t].ticket /\ Send(t, r, "commit", "merge", "committing")
AskCancel(t, r) ==
    tab[t].pc = "pending" /\ tab[t].ticket /\ Send(t, r, "cancel", "merge", "cancelling")
AskExport(t, r) == tab[t].pc = "ready" /\ Send(t, r, "export", "merge", "exporting")

\* verify_ticket refuses: a preview or a commit is given up, a cancel is not.
TicketRefused(t) ==
    /\ tab[t].pc \in {"uploaded", "pending"} /\ ~tab[t].ticket
    /\ Move(t, NoTab)
    /\ UNCHANGED <<users, backups, agentVars, files, lock, made, history>>

TicketExpires(t) ==
    /\ tab[t].ticket
    /\ Move(t, [tab[t] EXCEPT !.ticket = FALSE])
    /\ UNCHANGED <<users, backups, agentVars, files, lock, made, history>>

\* What the wizard does with an answer: a preview waits for the operator, after any
\* commit and after a preview that failed the archive is given up.
Told(t, ok, id) ==
    CASE tab[t].pc = "exporting" -> NoTab
      [] tab[t].pc = "previewing" /\ ok -> [tab[t] EXCEPT !.pc = "pending", !.preview = id]
      [] tab[t].pc = "cancelling" -> [tab[t] EXCEPT !.pc = IF ok THEN "removing" ELSE "removing-failed"]
      [] OTHER -> [tab[t] EXCEPT !.pc = "cleaning", !.preview = 0]

\* The portal gives up after its timeout; the agent goes on.
GiveUp(t) ==
    /\ tab[t].pc \in Waiting
    /\ request' = [r \in Requests |-> IF request[r].tab = t THEN [request[r] EXCEPT !.tab = Nobody] ELSE request[r]]
    /\ Move(t, Told(t, FALSE, 0))
    /\ UNCHANGED <<users, backups, previews, files, lock, mutating, made, history>>

\* The route of cancel: remove_archive, which fails when the directory is busy, the
\* ticket expired or the file is gone.
Removed(t) == IF lock = Nobody /\ tab[t].ticket /\ tab[t].file \in DOMAIN files THEN {tab[t].file} ELSE {}

CancelTicket(t) ==
    /\ tab[t].pc = "cleaning"
    /\ files' = Without(files, Removed(t))
    /\ Move(t, NoTab)
    /\ UNCHANGED <<users, backups, agentVars, lock, made, history>>

FinishCancel(t) ==
    /\ tab[t].pc \in {"removing", "removing-failed"}
    /\ files' = Without(files, Removed(t))
    /\ Move(t, IF tab[t].pc = "removing" /\ Removed(t) # {} THEN NoTab ELSE [tab[t] EXCEPT !.pc = "pending"])
    /\ UNCHANGED <<users, backups, agentVars, lock, made, history>>

\* The page is reloaded and forgets its preview.
Reload(t) ==
    /\ tab[t].pc = "pending"
    /\ Move(t, NoTab)
    /\ UNCHANGED <<users, backups, agentVars, files, lock, made, history>>

\* The portal is restarted: uploads leave what they wrote, answers are lost.
PortalDies ==
    /\ lock' = IF lock \in Tabs THEN Nobody ELSE lock
    /\ tab' = [t \in Tabs |-> IF tab[t].pc = "pending" THEN tab[t] ELSE NoTab]
    /\ request' = [r \in Requests |->
                      IF request[r].pc = "free" THEN request[r] ELSE [request[r] EXCEPT !.tab = Nobody]]
    /\ UNCHANGED <<users, backups, previews, files, mutating, made, history>>

(***************************************************************************)
(* The handlers of the agent, one at a time under the mutation lock.       *)
(***************************************************************************)

Begin(r) ==
    /\ request[r].pc = "waiting" /\ mutating = Nobody
    /\ mutating' = r
    /\ Becomes(r, [request[r] EXCEPT !.pc = IF request[r].kind = "commit" THEN "take" ELSE request[r].kind])
    /\ UNCHANGED <<users, backups, previews, files, lock, tab, made, history>>

Step(r, pc) == Becomes(r, [request[r] EXCEPT !.pc = pc]) /\ UNCHANGED <<tab, mutating>>

Answer(r, ok, id) ==
    /\ mutating' = Nobody
    /\ Becomes(r, NoRequest)
    /\ IF request[r].tab = Nobody THEN UNCHANGED tab ELSE Move(request[r].tab, Told(request[r].tab, ok, id))

\* _private_backup: users.json as it is, durable before it is replaced.
BackedUp == backups \cup {users}

\* The password is refused, GnuPG, the validation of the configuration or the
\* backup fails, or the disk does.
Refuse(r) ==
    /\ request[r].pc \in {"preview", "take", "update", "cancel", "export"}
    /\ backups' \in {backups, IF request[r].pc = "update" THEN BackedUp ELSE backups}
    /\ Answer(r, FALSE, 0)
    /\ UNCHANGED <<users, previews, files, lock, made, history>>

\* GnuPG refuses what was cut off.
Decrypts(archive) == archive # NoArchive

\* _read.
Staged(r) == IF request[r].file \in DOMAIN files THEN files[request[r].file].archive ELSE NoArchive

NewEntry(r) == [owner |-> request[r].owner, archive |-> Staged(r), base |-> users,
             mode |-> request[r].mode, old |-> FALSE]

\* MigrationHandler.preview: read, decrypt, plan for the state as it is now, and keep
\* the archive, unless there are too many already.  One step: what happens between
\* the load and the end of the request is as if it happened after it.
Preview(r) ==
    LET kept == Without(previews, Outdated(previews))
        id == made.previews + 1 IN
    /\ request[r].pc = "preview"
    /\ Decrypts(Staged(r)) /\ Importable(Staged(r))
    /\ Plannable(users, Staged(r), request[r].mode)
    /\ Cardinality(DOMAIN kept) < Capacity /\ id <= MaxPreviews
    /\ previews' = With(kept, id, NewEntry(r))
    /\ made' = [made EXCEPT !.previews = id]
    /\ history' = [history EXCEPT !.shown =
         With(history.shown, id, [base |-> users, result |-> Planned(users, Staged(r), request[r].mode)])]
    /\ Answer(r, TRUE, id)
    /\ UNCHANGED <<users, backups, files, lock>>

\* MigrationPreviews.commit: the entry is taken once, by its owner and for its archive.
Take(r) ==
    LET kept == Without(previews, Outdated(previews))
        id == request[r].preview IN
    /\ request[r].pc = "take"
    /\ IF id \in DOMAIN kept /\ kept[id].owner = request[r].owner /\ kept[id].archive = Staged(r)
       THEN /\ previews' = Without(kept, {id})
            /\ Becomes(r, [request[r] EXCEPT !.pc = "update", !.entry = kept[id]])
            /\ UNCHANGED <<tab, mutating>>
       ELSE previews' = kept /\ Answer(r, FALSE, 0)
    /\ UNCHANGED <<users, backups, files, lock, made, history>>

Replaced(r, c) ==
    history' = [history EXCEPT !.committed = history.committed \cup {request[r].preview},
                               !.replaced = history.replaced \cup {c}]

\* Mutants: the revision is not compared; the backup is left out.
UpdateAnyRevision(r) ==
    LET entry == request[r].entry IN
    /\ request[r].pc = "update" /\ Plannable(users, entry.archive, entry.mode)
    /\ users' = Planned(users, entry.archive, entry.mode)
    /\ backups' = BackedUp
    /\ Replaced(r, users) /\ Step(r, "apply")
    /\ UNCHANGED <<previews, files, lock, made>>

UpdateWithoutBackup(r) ==
    LET entry == request[r].entry IN
    /\ request[r].pc = "update" /\ users = entry.base
    /\ users' = Planned(users, entry.archive, entry.mode)
    /\ Replaced(r, users) /\ Step(r, "apply")
    /\ UNCHANGED <<backups, previews, files, lock, made>>

\* commit_migration: planned again for the state it replaces, which must have the
\* revision of the preview, and copied to the backups first.
Update(r) ==
    LET entry == request[r].entry IN
    /\ request[r].pc = "update"
    /\ users = entry.base /\ Plannable(users, entry.archive, entry.mode)
    /\ users' = Planned(users, entry.archive, entry.mode)
    /\ backups' = BackedUp
    /\ Replaced(r, users) /\ Step(r, "apply")
    /\ UNCHANGED <<previews, files, lock, made>>

\* Rendering and restarting (module ServiceApply), applied or degraded.
Apply(r, ok) ==
    /\ request[r].pc = "apply"
    /\ Answer(r, ok, 0)
    /\ UNCHANGED <<users, backups, previews, files, lock, made, history>>

\* MigrationPreviews.cancel.
Cancel(r) ==
    LET kept == Without(previews, Outdated(previews))
        id == request[r].preview IN
    /\ request[r].pc = "cancel"
    /\ previews' = Without(kept, {id})
    /\ Answer(r, id \in DOMAIN kept, 0)
    /\ UNCHANGED <<users, backups, files, lock, made, history>>

\* build_migration: only what is complete is exported.
Exported == [people |-> users.people, site |-> users.site, complete |-> TRUE]

\* MigrationHandler.export: an archive of some of the users, under the flock.
ExportBegins(r) ==
    /\ request[r].pc = "export" /\ TakeDirectory(r)
    /\ Becomes(r, [request[r] EXCEPT !.pc = "create", !.entry = [NoEntry EXCEPT !.archive = Exported]])
    /\ UNCHANGED <<users, backups, previews, tab, mutating, made, history>>

ExportCreates(r) ==
    /\ request[r].pc = "create" /\ CreateFile
    /\ Becomes(r, [request[r] EXCEPT !.pc = "write", !.file = made.files + 1])
    /\ UNCHANGED <<users, backups, previews, lock, tab, mutating, history>>

ExportEnds(r) ==
    /\ request[r].pc = "write" /\ request[r].file \in DOMAIN files
    /\ Filled(request[r].file, request[r].entry.archive)
    /\ lock' = Nobody
    /\ Answer(r, TRUE, 0)
    /\ UNCHANGED <<users, backups, previews, made, history>>

ExportFails(r) ==
    /\ request[r].pc \in {"create", "write"}
    /\ files' = Without(files, {request[r].file})
    /\ lock' = Nobody
    /\ Answer(r, FALSE, 0)
    /\ UNCHANGED <<users, backups, previews, made, history>>

PreviewExpires(i) ==
    /\ i \in DOMAIN previews /\ ~previews[i].old
    /\ previews' = [previews EXCEPT ![i] = [previews[i] EXCEPT !.old = TRUE]]
    /\ UNCHANGED <<users, backups, files, lock, tab, request, mutating, made, history>>

\* The timer of a preview: _expire.
TimerFires(i) ==
    /\ i \in DOMAIN previews /\ previews[i].old
    /\ previews' = Without(previews, {i})
    /\ UNCHANGED <<users, backups, files, lock, tab, request, mutating, made, history>>

\* The agent is restarted: previews are forgotten and requests end without an answer.
AgentDies ==
    /\ previews' = <<>> /\ mutating' = Nobody
    /\ request' = [r \in Requests |-> NoRequest]
    /\ lock' = IF lock \in Requests THEN Nobody ELSE lock
    /\ tab' = [t \in Tabs |-> IF tab[t].pc \in Waiting THEN Told(t, FALSE, 0) ELSE tab[t]]
    /\ UNCHANGED <<users, backups, files, made, history>>

(***************************************************************************)
(* Others who change users.json.                                           *)
(***************************************************************************)

\* A user is added with a name nobody has, new keys and a free address, or removed.
Edit(p) ==
    /\ made.edits < MaxEdits
    /\ p \in users.people \/ \A a \in Archives : p \notin a.people
    /\ users' = [users EXCEPT !.people = IF p \in users.people THEN users.people \ {p} ELSE users.people \cup {p}]
    /\ Unique(users'.people) /\ Addressable(users')
    /\ made' = [made EXCEPT !.edits = made.edits + 1]
    /\ UNCHANGED <<backups, agentVars, files, lock, tab, history>>

\* kvnctl migration-restore-backup, which keeps a copy as well.
RestoreBackup(c) ==
    /\ made.edits < MaxEdits
    /\ c \in backups
    /\ users' = c /\ backups' = BackedUp
    /\ made' = [made EXCEPT !.edits = made.edits + 1]
    /\ history' = [history EXCEPT !.replaced = history.replaced \cup {users}]
    /\ UNCHANGED <<agentVars, files, lock, tab>>

Upload(t) == UploadCreates(t) \/ UploadFails(t) \/ \E a \in Archives : UploadEnds(t, a)

Serve(r) ==
    \/ Refuse(r) \/ Preview(r) \/ Take(r) \/ Update(r) \/ Cancel(r)
    \/ \E ok \in BOOLEAN : Apply(r, ok)
    \/ ExportBegins(r) \/ ExportCreates(r) \/ ExportEnds(r) \/ ExportFails(r)

Next ==
    \/ \E t \in Tabs :
        \/ UploadBegins(t) \/ Upload(t)
        \/ \E r \in Requests : \/ \E mode \in Modes : AskPreview(t, r, mode)
                               \/ AskCommit(t, r) \/ AskCancel(t, r) \/ AskExport(t, r)
        \/ TicketRefused(t) \/ TicketExpires(t) \/ GiveUp(t) \/ CancelTicket(t) \/ FinishCancel(t) \/ Reload(t)
    \/ \E r \in Requests : Begin(r) \/ Serve(r)
    \/ \E f \in FileIds : FileAges(f)
    \/ \E i \in PreviewIds : PreviewExpires(i) \/ TimerFires(i)
    \/ Cleanup \/ PortalDies \/ AgentDies
    \/ \E p \in Persons : Edit(p)
    \/ \E c \in backups : RestoreBackup(c)

Spec == Init /\ [][Next]_vars

\* Time passes, timers fire, uploads and requests that hold the flock come to an
\* end; the cleanup finds the directory free again and again.
FairSpec ==
    /\ Spec
    /\ \A f \in FileIds : WF_vars(FileAges(f))
    /\ \A i \in PreviewIds : WF_vars(PreviewExpires(i)) /\ WF_vars(TimerFires(i))
    /\ \A t \in Tabs : WF_vars(Upload(t))
    /\ \A r \in Requests : WF_vars(Serve(r))
    /\ SF_vars(Cleanup)

(***************************************************************************)
(* Properties.                                                             *)
(***************************************************************************)

\* What a migration makes of users.json is what its preview showed for the state it
\* replaces, and no preview is applied twice, also when an answer was lost, the
\* state changed, the preview expired or the agent was restarted in between.
CommitIsWhatWasShown ==
    [][\A r \in Requests : request[r].pc = "update" /\ request'[r].pc = "apply" =>
          LET i == request[r].preview IN
          /\ i \in DOMAIN history.shown \ history.committed
          /\ users = history.shown[i].base /\ users' = history.shown[i].result]_vars

\* No migration makes two users share a name, a key or an address, or gives one an
\* address outside the network of the server.
UsersStayApart == Unique(users.people) /\ Addressable(users)

\* Whatever a migration or a restore has replaced can be restored.
ReplacedIsBackedUp == history.replaced \subseteq backups

\* The directory never holds more files than it may, whoever stages them, nor the agent
\* more decrypted archives.
StagedIsBounded == Cardinality(DOMAIN files) <= MaxStaged /\ Cardinality(DOMAIN previews) <= Capacity

\* A decrypted archive does not stay in memory, an encrypted one not on the disk,
\* whatever became of the wizard, the portal and the agent.
NothingIsKept ==
    /\ \A i \in PreviewIds : i \in DOMAIN previews ~> i \notin DOMAIN previews
    /\ \A f \in FileIds : f \in DOMAIN files ~> f \notin DOMAIN files
=============================================================================
