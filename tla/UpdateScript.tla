----------------------------- MODULE UpdateScript -----------------------------
(***************************************************************************)
(* One server under maintenance: runs of update.sh, started by the agent   *)
(* in a systemd unit of their own or by hand, with install-host-agent.sh   *)
(* inside, and tools/project-backup.sh beside them.  The runs take turns   *)
(* by the flock on kvn-vpn-maintenance.lock.                               *)
(*                                                                         *)
(* A version is the archive it came from.  The source tree has two parts:  *)
(* what the agent's fingerprint covers and the rest.  Every command may    *)
(* fail (set -e), and a run may be killed between any two of them.         *)
(***************************************************************************)
EXTENDS Naturals, FiniteSets

CONSTANTS
    Archives,       \* archives of new versions
    Releases,       \* those that bring Docker images (full release); the others are sources only
    Original,       \* the version installed before
    Archiver,       \* tools/project-backup.sh
    Down, Nobody,
    MaxRuns,        \* bound: runs
    MaxFaults,      \* bound: commands that fail, calls that are refused, answers that are lost,
                    \* kills, agent restarts, backups and archives that grow old, in all
    ByHand,         \* the pairs of an archive and a mode ("full", "bootstrap-only") run by hand
    Unchanged       \* the pairs of "portal" or "service" and an archive that leaves the image and
                    \* the definition of these containers as they were

ASSUME UpdateAssumption ==
    /\ Releases \subseteq Archives /\ Original \notin Archives
    /\ Down \notin Archives \cup {Original}
    /\ {MaxRuns, MaxFaults} \subseteq Nat /\ ByHand \subseteq Archives \X {"full", "bootstrap-only"}
    /\ Unchanged \subseteq {"portal", "service"} \X Archives
    /\ Archiver \notin 1..MaxRuns /\ Nobody \notin 1..MaxRuns \cup {Archiver}

VARIABLES
    archives,       \* the archives in portal-data/updates
    markers,        \* archives with a .running file beside them
    run,            \* the runs of update.sh
    maintenance,    \* who holds the maintenance lock: a run, the Archiver or Nobody
    source,         \* the source tree
    generated,      \* .env and the rendered configuration: the version that wrote them
    images,         \* the version the local image tags point to
    agent,          \* the code the agent runs and the fingerprint that was saved
    host,           \* the version the host VPNs were synchronised by
    containers,     \* the version that defines the containers of the portal and those of the services,
                    \* and the version of the rendered files these have loaded
    backup,         \* the backup in progress: what it has copied so far
    published,      \* the complete backups
    faults          \* what may still go wrong, and how many agent restarts and lost answers there were

systemVars == <<source, generated, images, agent, host, containers>>
scriptVars == <<archives, markers, run, maintenance, systemVars, backup, published, faults>>

Versions == Archives \cup {Original}
Runs == 1..MaxRuns
Parts == {"agent", "rest"}
Tree(v) == [p \in Parts |-> v]
Whole(tree) == tree \in {Tree(v) : v \in Versions}

NoRun == [pc |-> "unused", archive |-> Original, mode |-> "full", row |-> 0, plan |-> "none",
          before |-> Tree(Original), found |-> Down]
NoBackup == [pc |-> "idle", copy |-> Tree(Down)]

Waiting == {"begun", "marked", "waiting"}
BeforeSources == {"locked"}
SourcesChanged == {"installing", "planned", "rendered", "agented"}
AfterCompose == {"synced", "composed"}
Locked == BeforeSources \cup SourcesChanged \cup AfterCompose
Ended == {"ok", "failed", "killed", "torn"}

ScriptTypeOK ==
    /\ archives \subseteq Archives /\ markers \subseteq Versions
    /\ run \in [Runs -> [pc : {"unused"} \cup Waiting \cup Locked \cup Ended, archive : Versions,
                        mode : {"full", "bootstrap-only"}, row : Nat,
                        plan : {"none", "read", "lost"}, before : [Parts -> Versions],
                        found : Versions \cup {Down}]]   \* the service containers it found (history)
    /\ maintenance \in Runs \cup {Archiver, Nobody}
    /\ source \in [Parts -> Versions] /\ generated \in [env : Versions, config : Versions]
    /\ images \in Versions /\ agent \in [runs : Versions \cup {Down}, saved : Versions]
    /\ host \in Versions \cup {Down}
    /\ containers \in [portal : Versions \cup {Down}, service : Versions \cup {Down},
                       loaded : Versions \cup {Down}]
    /\ backup \in [pc : {"idle", "reading"}, copy : [Parts -> Versions \cup {Down}]]
    /\ published \subseteq [Parts -> Versions]
    /\ faults \in [left : Nat, restart : Nat, lost : Nat]

ScriptInit ==
    /\ archives = {} /\ markers = {}
    /\ run = [u \in Runs |-> NoRun] /\ maintenance = Nobody
    /\ source = Tree(Original) /\ generated = [env |-> Original, config |-> Original]
    /\ images = Original /\ agent = [runs |-> Original, saved |-> Original]
    /\ host = Original
    /\ containers = [portal |-> Original, service |-> Original, loaded |-> Original]
    /\ backup = NoBackup /\ published = {}
    /\ faults = [left |-> MaxFaults, restart |-> 0, lost |-> 0]

At(u, pc) == run[u].pc = pc
Goto(u, pc) == run' = [run EXCEPT ![u] =
    IF pc \in Ended THEN [NoRun EXCEPT !.pc = pc, !.archive = run[u].archive, !.row = run[u].row] ELSE [run[u] EXCEPT !.pc = pc]]
Unused == {u \in Runs : At(u, "unused")}
Happens(kind) ==
    /\ faults.left > 0
    /\ faults' = [k \in DOMAIN faults |->
                     IF k = "left" THEN faults[k] - 1 ELSE IF k = kind THEN faults[k] + 1 ELSE faults[k]]
NextRun == MaxRuns + 1 - Cardinality(Unused)

(***************************************************************************)
(* Up to the lock.                                                         *)
(***************************************************************************)

\* systemd-run starts the wrapper script of _project_update.
Launch(row, a, mode) ==
    /\ Unused # {}
    /\ run' = [run EXCEPT ![NextRun] = [NoRun EXCEPT !.pc = "begun", !.archive = a, !.mode = mode, !.row = row]]

\* sudo ./update.sh <archive>: without the wrapper, and so without a marker.
RunByHand(a, mode) ==
    /\ Unused # {} /\ a \in archives
    /\ run' = [run EXCEPT ![NextRun] = [NoRun EXCEPT !.pc = "waiting", !.archive = a, !.mode = mode]]
    /\ UNCHANGED <<archives, markers, maintenance, systemVars, backup, published, faults>>

MarkArchive(u) ==
    /\ At(u, "begun") /\ Goto(u, "marked")
    /\ markers' = markers \cup {run[u].archive}
    /\ UNCHANGED <<archives, maintenance, systemVars, backup, published, faults>>

\* The wrapper takes update.sh out of the archive, or uses the installed one for
\* a release, and executes it in its place: nobody is left to remove the marker.
Execute(u) ==
    /\ At(u, "marked") /\ run[u].archive \in archives
    /\ Goto(u, "waiting")
    /\ UNCHANGED <<archives, markers, maintenance, systemVars, backup, published, faults>>

\* The wrapper ends before the exec; its trap, if it is set already, removes the marker.
WrapperFails(u) ==
    /\ run[u].pc \in {"begun", "marked"} /\ Goto(u, "failed")
    /\ IF At(u, "marked") /\ run[u].archive \notin archives
       THEN markers' \in {markers \ {run[u].archive}, markers} /\ UNCHANGED faults
       ELSE markers' \in {markers \ {run[u].archive}} \cup (IF At(u, "begun") THEN {markers} ELSE {}) /\ Happens("fail")
    /\ UNCHANGED <<archives, maintenance, systemVars, backup, published>>

TakeLock(u) ==
    /\ At(u, "waiting") /\ run[u].archive \in archives
    /\ maintenance = Nobody /\ maintenance' = u
    /\ Goto(u, "locked")
    /\ UNCHANGED <<archives, markers, systemVars, backup, published, faults>>

\* No archive, the lock is still held after ten seconds, or a command is missing.
NotStarted(u) ==
    /\ At(u, "waiting") /\ Goto(u, "failed")
    /\ IF run[u].archive \in archives /\ maintenance = Nobody THEN Happens("fail") ELSE UNCHANGED faults
    /\ UNCHANGED <<archives, markers, maintenance, systemVars, backup, published>>

(***************************************************************************)
(* With the lock: from the archive to the source tree.                     *)
(***************************************************************************)

\* A release is extracted and its images are loaded; the sources are inspected,
\* extracted to a directory of this run and checked; then the installed ones are
\* copied to a snapshot.
Stage(u) ==
    /\ At(u, "locked") /\ run[u].archive \in archives
    /\ run' = [run EXCEPT ![u].pc = "installing", ![u].before = source, ![u].found = containers.service]
    /\ UNCHANGED <<archives, markers, maintenance, systemVars, backup, published, faults>>

InstallPart(u, p) ==
    /\ At(u, "installing") /\ source[p] # run[u].archive
    /\ source' = [source EXCEPT ![p] = run[u].archive]
    /\ UNCHANGED <<archives, markers, run, maintenance, generated, images, agent, host, containers, backup, published, faults>>

\* The loaded images get their local tags, and "kvnctl service-plan" says what is
\* enabled.  It is read from a process substitution: when it fails, the plan is
\* lost, and with it every service, and the script goes on.
Plan(u, read) ==
    /\ At(u, "installing") /\ source = Tree(run[u].archive)
    /\ images' = IF run[u].archive \in Releases /\ run[u].mode = "full" THEN run[u].archive ELSE images
    /\ run' = [run EXCEPT ![u].pc = "planned", ![u].plan = read]
    /\ IF read = "read" THEN UNCHANGED faults ELSE Happens("fail")
    /\ UNCHANGED <<archives, markers, maintenance, source, generated, agent, host, containers, backup, published>>

(***************************************************************************)
(* From the source tree to what runs.                                      *)
(***************************************************************************)

AtRender(u) == At(u, "planned") /\ run[u].mode = "full"

\* .env, then "kvnctl render".
Render(u) ==
    /\ AtRender(u)
    /\ generated' = [env |-> source["rest"], config |-> source["rest"]]
    /\ Goto(u, "rendered")
    /\ UNCHANGED <<archives, markers, maintenance, source, images, agent, host, containers, backup, published, faults>>

AtAgent(u) == run[u].pc = IF run[u].mode = "full" THEN "rendered" ELSE "planned"
RestartRequired == agent.runs = Down \/ agent.saved # source["agent"]
Restarted == [agent EXCEPT !.runs = IF RestartRequired THEN source["agent"] ELSE @]

\* Mutant: the fingerprint is saved before the agent has answered.
AgentHalfInstalledSaved == {agent, [agent EXCEPT !.saved = source["agent"]]}

\* install-host-agent.sh that fails: nothing has happened, or the agent was
\* restarted and runs, or does not run, and has not answered.
AgentHalfInstalled == {agent, Restarted, [Restarted EXCEPT !.runs = IF RestartRequired THEN Down ELSE @]}

\* install-host-agent.sh that succeeds, or "systemctl disable --now" without a plan.
AgentInstalled(u) ==
    IF run[u].plan = "read" THEN [Restarted EXCEPT !.saved = source["agent"]] ELSE [agent EXCEPT !.runs = Down]

InstallAgent(u) ==
    /\ AtAgent(u)
    /\ agent' = AgentInstalled(u)
    /\ Goto(u, IF run[u].mode = "full" THEN "agented" ELSE "ok")
    /\ maintenance' = IF run[u].mode = "full" THEN u ELSE Nobody
    /\ UNCHANGED <<archives, markers, source, generated, images, host, containers, backup, published, faults>>

SyncHost(u) ==
    /\ At(u, "agented")
    /\ host' = IF run[u].plan = "read" THEN generated.config ELSE Down
    /\ Goto(u, "synced")
    /\ UNCHANGED <<archives, markers, maintenance, source, generated, images, agent, containers, backup, published, faults>>

\* What "docker compose up" makes of a version: prebuilt images, or a build of the tree.
Built(u) == IF run[u].archive \in Releases THEN images ELSE source["rest"]

\* The version that first defined a container as v does.
Definition(c, v) == IF <<c, v>> \in Unchanged THEN Original ELSE v

\* A container with another image or definition is made anew; the others are left as
\* they are, with the files they have loaded.
NewServices(v) ==
    IF containers.service = Definition("service", v) THEN containers
    ELSE [containers EXCEPT !.service = Definition("service", v), !.loaded = generated.config]
Composed(v) == [NewServices(v) EXCEPT !.portal = Definition("portal", v)]

ComposeUp(u) ==
    /\ At(u, "synced")
    /\ containers' = IF run[u].plan = "read" THEN Composed(Built(u)) ELSE containers
    /\ Goto(u, "composed")
    /\ UNCHANGED <<archives, markers, maintenance, source, generated, images, agent, host, backup, published, faults>>

Finish(u) ==
    /\ At(u, "composed")
    /\ run[u].plan = "read" => agent.runs # Down
    /\ Goto(u, "ok") /\ maintenance' = Nobody
    /\ UNCHANGED <<archives, markers, systemVars, backup, published, faults>>

(***************************************************************************)
(* Failures.                                                               *)
(***************************************************************************)

\* Some of the containers are new, or stopped and not started again.
HalfComposed(v) ==
    {[services EXCEPT !.portal = p] :
        p \in {containers.portal, Definition("portal", v), Down},
        services \in {containers, NewServices(v), [containers EXCEPT !.service = Down, !.loaded = Down]}}

\* What a run that ends at a step may have done of it.
HalfDone(u) ==
    /\ generated' \in {generated} \cup IF AtRender(u) THEN {[generated EXCEPT !.env = source["rest"]]} ELSE {}
    /\ agent' \in IF AtAgent(u) /\ run[u].plan = "read" THEN AgentHalfInstalled ELSE {agent}
    /\ host' \in {host} \cup IF At(u, "agented") THEN {generated.config, Down} ELSE {}
    /\ containers' \in {containers} \cup
         IF At(u, "synced") /\ run[u].plan = "read" THEN HalfComposed(Built(u)) ELSE {}

\* An agent that was restarted with other code than its saved fingerprint says is counted
\* (history).
FailedAs(new) == IF new.runs \in {agent.runs, agent.saved, Down} THEN "fail" ELSE "restart"

\* Mutant: a failure leaves what has been copied.
FailNoRestore(u) ==
    /\ run[u].pc \in Locked /\ HalfDone(u)
    /\ Goto(u, "failed") /\ maintenance' = Nobody
    /\ Happens("fail")
    /\ UNCHANGED <<archives, markers, source, images, backup, published>>

\* A command fails and the trap of the script runs: up to "docker compose" the
\* sources come back from the snapshot, nothing else does.
Fail(u) ==
    /\ run[u].pc \in Locked /\ HalfDone(u)
    /\ source' = IF run[u].pc \in SourcesChanged THEN run[u].before ELSE source
    /\ Goto(u, "failed") /\ maintenance' = Nobody
    /\ IF At(u, "locked") /\ run[u].archive \notin archives THEN UNCHANGED faults ELSE Happens(FailedAs(agent'))
    /\ UNCHANGED <<archives, markers, images, backup, published>>

\* SIGKILL; also a restore that could not write.  The kernel releases the lock.
Kill(u) ==
    /\ run[u].pc \in Waiting \cup Locked /\ HalfDone(u)
    /\ Happens(FailedAs(agent'))
    /\ Goto(u, IF run[u].pc \in SourcesChanged THEN "torn" ELSE "killed")
    /\ maintenance' = IF maintenance = u THEN Nobody ELSE maintenance
    /\ UNCHANGED <<archives, markers, source, images, backup, published>>

\* The agent crashes: systemd starts it from the tree as it is.
AgentRestarts ==
    /\ agent.runs # Down
    /\ agent' = [agent EXCEPT !.runs = source["agent"]]
    /\ Happens(FailedAs(agent'))
    /\ UNCHANGED <<archives, markers, run, maintenance, source, generated, images, host, containers, backup, published>>

\* A service crashes, and Docker starts its container again: it loads the files as they are.
ServiceRestarts ==
    /\ containers.service # Down /\ Happens("crash")
    /\ containers' = [containers EXCEPT !.loaded = generated.config]
    /\ UNCHANGED <<archives, markers, run, maintenance, source, generated, images, agent, host, backup, published>>

(***************************************************************************)
(* tools/project-backup.sh.                                                *)
(***************************************************************************)

BackupBegins ==
    /\ backup.pc = "idle" /\ Happens("backup")
    /\ maintenance = Nobody /\ maintenance' = Archiver
    /\ backup' = [NoBackup EXCEPT !.pc = "reading"]
    /\ UNCHANGED <<archives, markers, run, systemVars, published>>

\* tar reads one file after the other.
BackupReads(p) ==
    /\ backup.pc = "reading" /\ backup.copy[p] = Down
    /\ backup' = [backup EXCEPT !.copy[p] = source[p]]
    /\ UNCHANGED <<archives, markers, run, maintenance, systemVars, published, faults>>

\* The finished archive is renamed; an unfinished one is removed.
BackupEnds ==
    /\ backup.pc = "reading" /\ backup' = NoBackup /\ maintenance' = Nobody
    /\ \/ (\A p \in Parts : backup.copy[p] # Down) /\ published' = published \cup {backup.copy}
       \/ UNCHANGED published
    /\ UNCHANGED <<archives, markers, run, systemVars, faults>>

Step(u) ==
    \/ Execute(u) \/ WrapperFails(u) \/ TakeLock(u) \/ NotStarted(u)
    \/ Stage(u) \/ \E p \in Parts : InstallPart(u, p)
    \/ \E read \in {"read", "lost"} : Plan(u, read)
    \/ Render(u) \/ SyncHost(u) \/ Finish(u)

(***************************************************************************)
(* Properties.                                                             *)
(***************************************************************************)

\* The source tree, and every backup of it, is of one version, unless a run is
\* replacing it or was killed while it did: the lock keeps runs and backups apart,
\* and a run that fails half-way puts every file back.
SourcesAreWhole ==
    (\A u \in Runs : run[u].pc # "torn") =>
        /\ (\A u \in Runs : run[u].pc # "installing") => Whole(source)
        /\ \A tree \in published : Whole(tree)

\* When a run says OK, everything on the server is of the version it installed:
\* sources, .env, rendered files, host VPNs, images and definitions of the containers,
\* the files the service containers have loaded if these are not those it found, and
\* the agent runs that code.  (Unless the plan was lost, or an agent was restarted, by a
\* crash or by an installation that did not end, with other code than its saved
\* fingerprint says.  Service containers that the version does not change go on with the
\* files they have loaded: README.md, known divergences.)
OkIsEverywhere == [][\A u \in Runs :
    ~At(u, "ok") /\ At(u, "ok")' /\ run[u].plan = "read" =>
        LET v == run[u].archive IN
        /\ source' = Tree(v)
        /\ faults.restart = 0 => agent'.runs = v
        /\ run[u].mode = "full" =>
            /\ generated' = [env |-> v, config |-> v] /\ host' = v
            /\ containers'.portal = Definition("portal", v) /\ containers'.service = Definition("service", v)
            /\ run[u].found # Definition("service", v) => containers'.loaded = v]_scriptVars
=============================================================================
