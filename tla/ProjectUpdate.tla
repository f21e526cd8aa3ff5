---------------------------- MODULE ProjectUpdate ----------------------------
(***************************************************************************)
(* Updates of the project from the portal: archives are uploaded or        *)
(* prepared from a GitHub release, inspected by the agent, published as a  *)
(* prepared update, started or discarded (routes/implementation.py, the    *)
(* table prepared_updates of storage.py, project.* in dispatcher.py,       *)
(* github_updates.py), together with the runs of update.sh they start,     *)
(* which restart the agent and the portal themselves.                      *)
(*                                                                         *)
(* A request is a thread of the portal.  It gives up its call to the agent *)
(* after a timeout; the handler goes on.                                   *)
(***************************************************************************)
EXTENDS UpdateScript

CONSTANTS
    Uploads,        \* the archives that are uploaded, each under a name of its own;
                    \* the others are assets of GitHub releases
    Requests,
    FromPortal,     \* the modes updates are started in from the portal
    MaxFiles,       \* UPDATE_UPLOAD_MAX_FILES
    MaxRows         \* bound: prepared updates

ASSUME PortalAssumption ==
    /\ Uploads \subseteq Archives /\ Nobody \notin Requests
    /\ FromPortal \subseteq {"full", "bootstrap-only"} /\ {MaxFiles, MaxRows} \subseteq Nat

VARIABLES
    rows,       \* prepared_updates, by archive (UNIQUE)
    old,        \* archives past UPDATE_UPLOAD_RETENTION_SECONDS
    req,        \* requests to the portal
    call,       \* their calls in the agent
    mutating,   \* the call that holds the mutation lock of the agent, or Nobody
    made        \* how many rows there have been, what was uploaded, whether the portal was replaced,
                \* which runs set their marker when a request had looked for it already (history)

portalVars == <<rows, old, req, call, mutating, made>>
vars == <<scriptVars, portalVars>>
\* What the portal and the agent leave to the runs of update.sh.
runVars == <<markers, maintenance, systemVars, backup, published>>

NoRow == [row |-> 0, status |-> "none"]
NoRequest == [pc |-> "free", archive |-> Original, todo |-> {}, target |-> Original]
NoCall == [pc |-> "none", method |-> "none", archive |-> Original, row |-> 0, mode |-> "full", ok |-> FALSE]
InAgent == {"asked", "checked"}

TypeOK ==
    /\ ScriptTypeOK
    /\ rows \in [Archives -> [row : Nat, status : {"none", "ready", "starting", "started"}]]
    /\ old \subseteq Archives
    /\ req \in [Requests -> [pc : {"free", "cleaning", "forgetting", "saving", "waiting", "publishing", "removing"},
                             archive : Versions, todo : SUBSET Archives, target : Versions]]
    /\ call \in [Requests -> [pc : {"none", "done"} \cup InAgent, method : {"none", "inspect", "prepare", "update"},
                              archive : Versions, row : Nat, mode : {"full", "bootstrap-only"}, ok : BOOLEAN]]
    /\ mutating \in Requests \cup {Nobody}
    /\ made \in [rows : Nat, uploads : SUBSET Uploads, replaced : BOOLEAN, overtaken : SUBSET Runs]

Init ==
    /\ ScriptInit
    /\ rows = [a \in Archives |-> NoRow] /\ old = {}
    /\ req = [r \in Requests |-> NoRequest] /\ call = [r \in Requests |-> NoCall]
    /\ mutating = Nobody /\ made = [rows |-> 0, uploads |-> {}, replaced |-> FALSE, overtaken |-> {}]

Status(a) == rows[a].status
Idle(r) == req[r].pc = "free" /\ call[r] = NoCall
\* The request goes on with an archive, and its call is over.
Move(r, pc, a) == req' = [req EXCEPT ![r] = [NoRequest EXCEPT !.pc = pc, !.archive = a]]
ThenRemove(r, S) ==
    req' = [req EXCEPT ![r] = IF S = {} THEN NoRequest ELSE [NoRequest EXCEPT !.pc = "removing", !.todo = S]]
Done(r) == req' = [req EXCEPT ![r] = NoRequest]
Ask(r, method, a, row, mode) ==
    /\ Move(r, "waiting", a)
    /\ call' = [call EXCEPT ![r] = [pc |-> "asked", method |-> method, archive |-> a, row |-> row, mode |-> mode,
                                     ok |-> FALSE]]
Remove(S) == archives' = archives \ S /\ old' = old \ S

(***************************************************************************)
(* The portal: from an archive to a prepared update.                       *)
(***************************************************************************)

ArchiveAges(a) ==
    /\ a \in archives \ old /\ old' = old \cup {a} /\ Happens("age")
    /\ UNCHANGED <<archives, run, runVars, rows, req, call, mutating, made>>

\* upload_update_archive begins with cleanup_update_uploads.
UploadBegins(r, a) ==
    /\ Idle(r) /\ a \in Uploads \ made.uploads
    /\ req' = [req EXCEPT ![r] = [NoRequest EXCEPT !.pc = "cleaning", !.archive = a, !.todo = old]]
    /\ made' = [made EXCEPT !.uploads = @ \cup {a}]
    /\ UNCHANGED <<scriptVars, rows, old, call, mutating>>

\* The old archives are gone; there is room for one more, or the upload is refused.
Admit(r) ==
    /\ req[r].pc = "cleaning" /\ req[r].todo = {} /\ req[r].target = Original
    /\ IF Cardinality(archives) < MaxFiles THEN Move(r, "saving", req[r].archive) ELSE Done(r)
    /\ UNCHANGED <<scriptVars, rows, old, call, mutating, made>>

\* save_update_upload renames the complete file; project_update_prepare has it inspected.
UploadSaved(r) ==
    /\ req[r].pc = "saving"
    /\ archives' = archives \cup {req[r].archive}
    /\ Ask(r, "inspect", req[r].archive, 0, "full")
    /\ UNCHANGED <<runVars, run, faults, rows, old, mutating, made>>

UploadFails(r) ==
    /\ req[r].pc \in {"cleaning", "forgetting", "saving"} /\ Done(r) /\ Happens("fail")
    /\ UNCHANGED <<archives, run, runVars, rows, old, call, mutating, made>>

\* project_release_prepare.
AskRelease(r, a) ==
    /\ Idle(r) /\ a \in Archives \ Uploads
    /\ Ask(r, "prepare", a, 0, "full")
    /\ UNCHANGED <<scriptVars, rows, old, mutating, made>>

\* publish_prepared_update: the update that was ready is replaced, and its archive
\* is removed next; one that is being started is left alone.
Publish(r) ==
    LET a == req[r].archive
        replaced == {b \in Archives \ {a} : Status(b) = "ready"}
    IN  /\ req[r].pc = "publishing"
        /\ IF Status(a) = "starting" THEN Done(r) /\ UNCHANGED <<rows, made>>
           ELSE /\ made.rows < MaxRows /\ made' = [made EXCEPT !.rows = @ + 1]
                /\ rows' = [b \in Archives |-> IF b = a THEN [row |-> made.rows + 1, status |-> "ready"]
                                               ELSE IF b \in replaced THEN NoRow ELSE rows[b]]
                /\ ThenRemove(r, replaced)
        /\ UNCHANGED <<scriptVars, old, call, mutating>>

\* project_update_discard.
Discard(r, a) ==
    /\ Idle(r) /\ Status(a) = "ready"
    /\ rows' = [rows EXCEPT ![a] = NoRow]
    /\ ThenRemove(r, {a})
    /\ UNCHANGED <<scriptVars, old, call, mutating, made>>

(***************************************************************************)
(* The portal: archives are removed, after their markers were looked for.  *)
(***************************************************************************)

\* The request has found no marker of a and removes it next.
Checked(r, a) == req[r].pc \in {"cleaning", "removing"} /\ req[r].target = a

\* A request that has no archive left to remove ends.
Loop(r, todo, target) ==
    req' = [req EXCEPT ![r] = IF todo = {} /\ target = Original /\ @.pc = "removing" THEN NoRequest
                              ELSE [req[r] EXCEPT !.pc = IF @ = "forgetting" THEN "cleaning" ELSE @,
                                                  !.todo = todo, !.target = target]]

\* What the retention and remove_update_archive leave alone.
InUse(r) == markers \cup IF req[r].pc = "cleaning" THEN Archives \ old ELSE {}

\* Mutant: an archive that is in use is removed too.
CheckNothing(r, a) ==
    /\ Checked(r, Original) /\ a \in req[r].todo
    /\ Loop(r, req[r].todo \ {a}, a)
    /\ UNCHANGED <<scriptVars, rows, old, call, mutating, made>>

\* One archive after the other is looked at.
CheckMarker(r, a) ==
    /\ Checked(r, Original) /\ a \in req[r].todo
    /\ Loop(r, req[r].todo \ {a}, IF a \in InUse(r) THEN Original ELSE a)
    /\ UNCHANGED <<scriptVars, rows, old, call, mutating, made>>

\* It is removed, whatever has happened to it since.  The retention forgets its row next.
RemoveArchive(r, a) ==
    /\ Checked(r, a) /\ Remove({a})
    /\ IF req[r].pc = "cleaning" /\ a \in archives THEN req' = [req EXCEPT ![r].pc = "forgetting"]
       ELSE Loop(r, req[r].todo, Original)
    /\ UNCHANGED <<runVars, run, faults, rows, call, mutating, made>>

\* remove_prepared_update_by_archive.
RemoveRow(r) ==
    /\ req[r].pc = "forgetting"
    /\ rows' = [rows EXCEPT ![req[r].target] = NoRow]
    /\ Loop(r, req[r].todo, Original)
    /\ UNCHANGED <<scriptVars, old, call, mutating, made>>

(***************************************************************************)
(* The portal: the start of a prepared update.                             *)
(***************************************************************************)

\* Mutant: whoever finds the row may start it.
ClaimAny(r, a, mode) ==
    /\ Idle(r) /\ Status(a) \in {"ready", "starting"}
    /\ rows' = [rows EXCEPT ![a].status = "starting"]
    /\ Ask(r, "update", a, rows[a].row, mode)
    /\ UNCHANGED <<scriptVars, old, mutating, made>>

\* project_update_start: claim_prepared_update, then the call.
Claim(r, a, mode) ==
    /\ Idle(r) /\ Status(a) = "ready"
    /\ rows' = [rows EXCEPT ![a].status = "starting"]
    /\ Ask(r, "update", a, rows[a].row, mode)
    /\ UNCHANGED <<scriptVars, old, mutating, made>>

\* finish_ and release_prepared_update: only of the row that was claimed.
Settle(r, status) ==
    rows' = [a \in Archives |-> IF rows[a] = [row |-> call[r].row, status |-> "starting"]
                                THEN [rows[a] EXCEPT !.status = status] ELSE rows[a]]

\* What the request does when its call fails: a row that was claimed becomes ready
\* again, an upload that was not accepted is deleted.
Refused(r) ==
    /\ Done(r) /\ Settle(r, "ready")
    /\ IF call[r].method = "inspect" THEN Remove({call[r].archive}) ELSE UNCHANGED <<archives, old>>

Answered(r) ==
    /\ req[r].pc = "waiting" /\ call[r].pc = "done"
    /\ IF ~call[r].ok THEN Refused(r)
       ELSE IF call[r].method = "update" THEN Done(r) /\ Settle(r, "started") /\ UNCHANGED <<archives, old>>
       ELSE Move(r, "publishing", call[r].archive) /\ UNCHANGED <<archives, old, rows>>
    /\ call' = [call EXCEPT ![r] = NoCall]
    /\ UNCHANGED <<runVars, run, faults, mutating, made>>

\* The timeout of the call, or a connection that breaks; the handler does not notice.
GiveUp(r) ==
    /\ req[r].pc = "waiting" /\ Happens("lost")
    /\ Refused(r)
    /\ call' = [call EXCEPT ![r] = IF @.pc = "done" THEN NoCall ELSE @]
    /\ UNCHANGED <<runVars, run, mutating, made>>

(***************************************************************************)
(* The agent.                                                              *)
(***************************************************************************)

Reached(r, method) == agent.runs # Down /\ call[r].pc = "asked" /\ call[r].method = method
\* The answer; nobody reads it if the portal has given up.
Returned(r, ok) == IF req[r].pc = "waiting" THEN [call[r] EXCEPT !.pc = "done", !.ok = ok] ELSE NoCall
Return(r, ok) == call' = [call EXCEPT ![r] = Returned(r, ok)]

\* _inspect_project_update_archive accepts an archive only if it is there.
Inspect(r) ==
    /\ Reached(r, "inspect")
    /\ Return(r, call[r].archive \in archives)
    /\ UNCHANGED <<scriptVars, rows, old, req, mutating, made>>

\* GitHubReleaseSource.prepare: the asset that was checked is there already, or is
\* downloaded under a temporary name, checked and renamed.
Prepare(r) ==
    /\ Reached(r, "prepare") /\ mutating = Nobody
    /\ archives' = archives \cup {call[r].archive}
    /\ old' = IF call[r].archive \in archives THEN old ELSE old \ {call[r].archive}
    /\ Return(r, TRUE)
    /\ UNCHANGED <<runVars, run, faults, rows, req, mutating, made>>

\* _project_update: password, archive and digest are right.
CheckUpdate(r) ==
    /\ Reached(r, "update") /\ mutating = Nobody /\ mutating' = r
    /\ call[r].archive \in archives
    /\ call' = [call EXCEPT ![r].pc = "checked"]
    /\ UNCHANGED <<scriptVars, rows, old, req, made>>

\* systemd-run.  It may be given up after it has started the unit.
LaunchUnit(r, ok) ==
    /\ call[r].pc = "checked" /\ mutating' = Nobody
    /\ Launch(call[r].row, call[r].archive, call[r].mode)
    /\ Return(r, ok)
    /\ IF ok THEN UNCHANGED faults ELSE Happens("lost")
    /\ UNCHANGED <<archives, runVars, rows, old, req, made>>

\* Any check that fails, or an agent that cannot be reached.
CallFails(r) ==
    /\ call[r].pc \in InAgent /\ Return(r, FALSE)
    /\ mutating' = IF mutating = r THEN Nobody ELSE mutating
    /\ IF agent.runs = Down \/ (call[r].method # "prepare" /\ call[r].archive \notin archives)
       THEN UNCHANGED faults ELSE Happens("refusal")
    /\ UNCHANGED <<archives, run, runVars, rows, old, req, made>>

\* The calls an agent takes with it: their connections break.
CallsEnd ==
    /\ call' = [r \in Requests |-> IF call[r].pc \in InAgent THEN Returned(r, FALSE) ELSE call[r]]
    /\ mutating' = Nobody

(***************************************************************************)
(* The runs of update.sh, and what they do to agent and portal.            *)
(***************************************************************************)

RunStep(u) == Step(u) /\ UNCHANGED portalVars

RunMarks(u) ==
    /\ MarkArchive(u)
    /\ made' = [made EXCEPT !.overtaken = @ \cup {w \in {u} : \E r \in Requests : Checked(r, run[u].archive)}]
    /\ UNCHANGED <<rows, old, req, call, mutating>>

\* The agent starts again, or ends.
RunReplacesAgent(u) ==
    /\ InstallAgent(u)
    /\ IF RestartRequired \/ agent'.runs = Down THEN CallsEnd ELSE UNCHANGED <<call, mutating>>
    /\ UNCHANGED <<rows, old, req, made>>

\* A new container of the portal, and the requests of the old one are gone.
ReplacePortal ==
    /\ req' = [r \in Requests |-> NoRequest]
    /\ call' = [r \in Requests |-> IF call[r].pc = "done" THEN NoCall ELSE call[r]]
    /\ made' = [made EXCEPT !.replaced = TRUE]
    /\ UNCHANGED mutating

RunReplacesPortal(u) ==
    /\ ComposeUp(u)
    /\ IF containers'.portal = containers.portal THEN UNCHANGED <<req, call, mutating, made>> ELSE ReplacePortal
    /\ UNCHANGED <<rows, old>>

\* The agent and the portal may have been replaced, or have ended, before.
RunFails(u) ==
    /\ Fail(u) \/ Kill(u)
    /\ UNCHANGED <<rows, old>>
    /\ \/ containers'.portal # containers.portal /\ ReplacePortal
       \/ containers'.portal = containers.portal /\ agent' = agent /\ UNCHANGED <<req, call, mutating, made>>
       \/ AtAgent(u) /\ RestartRequired /\ CallsEnd /\ UNCHANGED <<req, made>>

RunBegins(a, mode) == RunByHand(a, mode) /\ UNCHANGED portalVars
AgentCrashes == AgentRestarts /\ CallsEnd /\ UNCHANGED <<rows, old, req, made>>
ServiceCrashes == ServiceRestarts /\ UNCHANGED portalVars
Backup == (BackupBegins \/ (\E p \in Parts : BackupReads(p)) \/ BackupEnds) /\ UNCHANGED portalVars

Next ==
    \/ \E r \in Requests, a \in Archives :
        \/ UploadBegins(r, a) \/ AskRelease(r, a) \/ Discard(r, a) \/ \E mode \in FromPortal : Claim(r, a, mode)
        \/ CheckMarker(r, a) \/ RemoveArchive(r, a)
    \/ \E r \in Requests :
        \/ Admit(r) \/ UploadSaved(r) \/ UploadFails(r) \/ Publish(r) \/ RemoveRow(r) \/ Answered(r) \/ GiveUp(r)
        \/ Inspect(r) \/ Prepare(r) \/ CheckUpdate(r) \/ CallFails(r) \/ \E ok \in BOOLEAN : LaunchUnit(r, ok)
    \/ \E a \in Archives : ArchiveAges(a)
    \/ \E x \in ByHand : RunBegins(x[1], x[2])
    \/ \E u \in Runs : RunStep(u) \/ RunMarks(u) \/ RunReplacesAgent(u) \/ RunReplacesPortal(u) \/ RunFails(u)
    \/ AgentCrashes \/ ServiceCrashes \/ Backup

Spec == Init /\ [][Next]_vars

(***************************************************************************)
(* Properties.                                                             *)
(***************************************************************************)

\* An archive that a run has marked and has not extracted yet is not removed, by
\* the retention, by a discard or by a newer update, whichever answer was lost in
\* between; only another run of the same archive may take the marker away, and only a
\* request that has looked for the marker before it was set may still remove the archive
\* (README.md, known divergences).
RunningArchiveIsKept ==
    \A u \in Runs : run[u].row # 0 /\ run[u].pc \in {"waiting", "locked"} =>
        \/ run[u].archive \in archives
        \/ \E w \in Runs \ {u} : run[w].archive = run[u].archive /\ At(w, "failed")
        \/ u \in made.overtaken

\* A prepared update is being started by exactly one request, which will settle it
\* (unless the portal has been replaced under it), and is run once: a second run of
\* it needs an answer that was lost.
StartsAreSingle ==
    /\ \A a \in Archives : Status(a) = "starting" /\ ~made.replaced =>
        Cardinality({r \in Requests : req[r].pc = "waiting" /\ call[r].row = rows[a].row}) = 1
    /\ \A i \in 1..made.rows : Cardinality({u \in Runs : run[u].row = i}) <= 1 + faults.lost
=============================================================================
