--------------------------- MODULE HostScripts_proofs ---------------------------
(***************************************************************************)
(* What the scripts that root runs on the server guarantee: update.sh, for *)
(* any archives, requests and numbers of runs and faults, with the         *)
(* prepared updates of the portal that start it; and, at the end, the sync *)
(* of a host VPN, for all configurations.                                  *)
(***************************************************************************)
EXTENDS ProjectUpdate, HostVpnSync, TLAPS, FiniteSetTheorems

(***************************************************************************)
(* The runs of update.sh: the lock, the sources, and what runs.            *)
(***************************************************************************)

\* The runs that have begun are the first ones.
BegunInv == \E n \in 0..MaxRuns : Unused = (n + 1)..MaxRuns

\* The maintenance lock keeps runs and backups apart.
LockInv ==
    /\ \A u \in Runs : run[u].pc \in Locked => maintenance = u
    /\ backup.pc = "reading" => maintenance = Archiver

NothingTorn == \A u \in Runs : run[u].pc # "torn"

\* As long as no restore was cut off: outside the replacement the tree is of one
\* version, and so is the snapshot a run goes back to.
SourceInv ==
    NothingTorn =>
        /\ (\A u \in Runs : run[u].pc # "installing") => Whole(source)
        /\ \A u \in Runs : run[u].pc \in SourcesChanged => Whole(run[u].before)
        /\ \A tree \in published : Whole(tree)

\* What a backup has read is what is there.
BackupInv == backup.pc = "reading" => \A p \in Parts : backup.copy[p] \in {Down, source[p]}

\* What a run has brought to its version so far.
Brought(r) ==
    /\ r.pc \in {"planned", "rendered", "agented", "synced", "composed"} =>
          /\ source = Tree(r.archive)
          /\ r.mode = "full" /\ r.archive \in Releases => images = r.archive
    /\ r.pc \in {"rendered", "agented", "synced", "composed"} =>
          r.mode = "full" /\ generated = [env |-> r.archive, config |-> r.archive]
    /\ r.pc \in {"agented", "synced", "composed"} /\ r.plan = "read" /\ faults.restart = 0 => agent.runs = r.archive
    /\ r.pc \in {"synced", "composed"} /\ r.plan = "read" => host = r.archive
    /\ r.pc \in SourcesChanged \cup {"synced"} => r.found = containers.service
    /\ r.pc = "composed" /\ r.plan = "read" =>
          /\ containers.portal = Definition("portal", r.archive)
          /\ containers.service = Definition("service", r.archive)
          /\ r.found # Definition("service", r.archive) => containers.loaded = r.archive

\* An agent nothing else has restarted runs the code of its fingerprint.
AgentInv == faults.restart = 0 => agent.runs \in {agent.saved, Down}

BroughtInv == AgentInv /\ \A u \in Runs : Brought(run[u])

(***************************************************************************)
(* The prepared updates, and the calls that start them.                    *)
(***************************************************************************)

\* A row has a number of its own, calls that start it and runs of it carry it.
RowInv ==
    /\ \A a \in Archives : rows[a].status = "none" <=> rows[a].row = 0
    /\ \A a \in Archives : rows[a].row <= made.rows
    /\ \A a, b \in Archives : rows[a].row = rows[b].row /\ rows[a].row # 0 => a = b
    /\ \A u \in Runs : run[u].row <= made.rows /\ (run[u].pc = "unused" => run[u].row = 0)

CallInv == \A r \in Requests :
    /\ req[r].pc = "waiting" => call[r].pc # "none"
    /\ call[r].pc = "done" => req[r].pc = "waiting"
    /\ call[r].pc = "checked" => call[r].method = "update"
    /\ call[r].method = "update" <=> call[r].row # 0
    /\ call[r].row <= made.rows
    /\ call[r].pc # "none" => call[r].archive \in Archives
    /\ req[r].pc \in {"cleaning", "forgetting", "saving", "publishing"} => req[r].archive \in Archives

\* The request that has claimed an update and has not settled it.
Claims(r) == req[r].pc = "waiting" /\ call[r].method = "update"

ClaimInv ==
    /\ \A r \in Requests, a \in Archives :
          Claims(r) /\ rows[a].row = call[r].row => rows[a].status = "starting"
    /\ \A r, q \in Requests : Claims(r) /\ Claims(q) /\ call[r].row = call[q].row => r = q
    /\ ~ made.replaced => \A a \in Archives :
          rows[a].status = "starting" => \E r \in Requests : Claims(r) /\ call[r].row = rows[a].row

\* What row i has been, or may still be, started by: its runs, the calls that have not
\* answered or were refused, and the row itself while it is ready.
Pending(r) == call[r].pc \in InAgent \/ (call[r].pc = "done" /\ ~ call[r].ok)
RunsOf(i) == {u \in Runs : run[u].row = i}
CallsOf(i) == {r \in Requests : call[r].row = i /\ Pending(r)}
ReadyOf(i) == {a \in Archives : rows[a] = [row |-> i, status |-> "ready"]}
Starts(i) == ({"run"} \X RunsOf(i)) \cup ({"call"} \X CallsOf(i)) \cup ({"row"} \X ReadyOf(i))

StartsInv == \A i \in Nat \ {0} : IsFiniteSet(Starts(i)) /\ Cardinality(Starts(i)) <= 1 + faults.lost

(***************************************************************************)
(* The archives.                                                           *)
(***************************************************************************)

\* Request r makes room for upload a, receives it or waits for its inspection; or it is about to publish a.
Uploading(r, a) ==
    \/ req[r].pc \in {"cleaning", "forgetting", "saving"} /\ req[r].archive = a
    \/ req[r].pc = "waiting" /\ call[r].method = "inspect" /\ call[r].archive = a
Publishing(r, a) == req[r].pc = "publishing" /\ req[r].archive = a

\* There is no prepared update of a, no call starts one and no run was started by one,
\* and no request of R is about to make one.
Unknown(a, R) ==
    /\ rows[a].status = "none"
    /\ \A r \in Requests : call[r].method = "update" => call[r].archive # a
    /\ \A u \in Runs : run[u].row # 0 => run[u].archive # a
    /\ \A r \in R : ~ Uploading(r, a) /\ ~ Publishing(r, a)

\* The name of an upload is its own: until it has been inspected nothing else knows it.
UploadInv ==
    /\ \A a \in Uploads \ made.uploads : Unknown(a, Requests)
    /\ \A r \in Requests, a \in Archives : Uploading(r, a) => a \in made.uploads /\ Unknown(a, Requests \ {r})
    /\ \A r \in Requests :
          /\ call[r].method = "prepare" => call[r].archive \notin Uploads
          /\ call[r].pc # "none" => call[r].method # "none"

\* Another run of the same archive failed, and its wrapper has taken the marker away.
Unmarked(u) == \E w \in Runs \ {u} : run[w].archive = run[u].archive /\ At(w, "failed")

\* What a run from the portal has marked keeps its marker until it is extracted.
MarkInv == \A u \in Runs :
    run[u].row # 0 /\ run[u].pc \in {"marked", "waiting", "locked"} => run[u].archive \in markers \/ Unmarked(u)

\* A request that has found no marker of an archive: no run of it has been marked since,
\* but for those that are counted.
TargetInv == \A r \in Requests, u \in Runs :
    /\ run[u].archive \in Archives /\ Checked(r, run[u].archive)
    /\ run[u].row # 0 /\ run[u].pc \in {"marked", "waiting", "locked"}
    => u \in made.overtaken \/ Unmarked(u)

(***************************************************************************)
(* Types.                                                                  *)
(***************************************************************************)

RunRecord ==
    [pc : {"unused"} \cup Waiting \cup Locked \cup Ended, archive : Versions, mode : {"full", "bootstrap-only"},
     row : Nat, plan : {"none", "read", "lost"}, before : [Parts -> Versions], found : Versions \cup {Down}]
Containers == [portal : Versions \cup {Down}, service : Versions \cup {Down}, loaded : Versions \cup {Down}]

Faults == [left : Nat, restart : Nat, lost : Nat]

\* A fault is counted, and nothing is forgotten.
LEMMA FaultCounted ==
    ASSUME faults \in Faults, NEW kind, Happens(kind)
    PROVE  /\ faults' \in Faults /\ faults'.lost >= faults.lost
           /\ kind = "lost" => faults'.lost = faults.lost + 1
           /\ kind # "restart" => faults'.restart = faults.restart
           /\ faults'.restart = 0 => faults.restart = 0 /\ kind # "restart"
<1> DEFINE F == [k \in DOMAIN faults |-> IF k = "left" THEN faults[k] - 1 ELSE IF k = kind THEN faults[k] + 1 ELSE faults[k]]
<1>1. DOMAIN faults = {"left", "restart", "lost"}
  BY DEF Faults
<1>2. faults' = F /\ faults.left > 0
  BY DEF Happens
<1>3. F["left"] = faults.left - 1
  BY <1>1
<1>4. F["restart"] = IF kind = "restart" THEN faults.restart + 1 ELSE faults.restart
  BY <1>1
<1>5. F["lost"] = IF kind = "lost" THEN faults.lost + 1 ELSE faults.lost
  BY <1>1
<1>6. faults.left \in Nat /\ faults.restart \in Nat /\ faults.lost \in Nat
  BY DEF Faults
<1>7. F = [left |-> F["left"], restart |-> F["restart"], lost |-> F["lost"]]
  BY <1>1
<1>8. F["left"] \in Nat /\ F["restart"] \in Nat /\ F["lost"] \in Nat
  BY <1>2, <1>3, <1>4, <1>5, <1>6
<1> HIDE DEF F
<1>9. F \in Faults
  BY <1>7, <1>8 DEF Faults
<1> QED BY <1>2, <1>4, <1>5, <1>6, <1>9

\* Run u goes to another step and keeps what it is a run of.
Goes(u, pc) ==
    /\ run' \in [Runs -> RunRecord]
    /\ run'[u].pc = pc /\ run'[u].archive = run[u].archive /\ run'[u].row = run[u].row
    /\ pc \notin Ended =>
          /\ run'[u].mode = run[u].mode /\ run'[u].plan = run[u].plan
          /\ run'[u].before = run[u].before /\ run'[u].found = run[u].found
    /\ \A w \in Runs \ {u} : run'[w] = run[w]

LEMMA NoRunTyped == NoRun \in RunRecord /\ Tree(Original) \in [Parts -> Versions]
  BY DEF NoRun, RunRecord, Tree, Versions, Waiting, Locked, Ended

LEMMA GotoGoes ==
    ASSUME run \in [Runs -> RunRecord], NEW u \in Runs, NEW pc \in Waiting \cup Locked \cup Ended, Goto(u, pc)
    PROVE  Goes(u, pc)
<1> DEFINE r == IF pc \in Ended THEN [NoRun EXCEPT !.pc = pc, !.archive = run[u].archive, !.row = run[u].row]
                ELSE [run[u] EXCEPT !.pc = pc]
<1>1. run' = [run EXCEPT ![u] = r]
  BY DEF Goto
<1>2. run[u] \in RunRecord /\ NoRun \in RunRecord
  BY NoRunTyped
<1>3. r \in RunRecord /\ r.pc = pc /\ r.archive = run[u].archive /\ r.row = run[u].row
  BY <1>2 DEF RunRecord
<1>4. pc \notin Ended => r.mode = run[u].mode /\ r.plan = run[u].plan /\ r.before = run[u].before
                          /\ r.found = run[u].found
  BY <1>2 DEF RunRecord
<1> HIDE DEF r
<1> QED BY <1>1, <1>3, <1>4 DEF Goes

\* The number of the next run is that of the first one that has not begun.
LEMMA NextIsFirst ==
    ASSUME ScriptTypeOK, BegunInv, Unused # {}
    PROVE  \E n \in 0..(MaxRuns - 1) : Unused = (n + 1)..MaxRuns /\ NextRun = n + 1
<1>1. MaxRuns \in Nat
  BY UpdateAssumption
<1>2. PICK n \in 0..MaxRuns : Unused = (n + 1)..MaxRuns
  BY DEF BegunInv
<1>3. n < MaxRuns
  BY <1>1, <1>2
<1>4. Cardinality(Unused) = MaxRuns - n
  BY <1>1, <1>2, <1>3, FS_Interval
<1> QED BY <1>1, <1>2, <1>3, <1>4 DEF NextRun

\* A run begins: the first that has not.
Begins(r) ==
    /\ r \in RunRecord /\ r.pc # "unused"
    /\ \E n \in 0..(MaxRuns - 1) : Unused = (n + 1)..MaxRuns /\ run' = [run EXCEPT ![n + 1] = r]

LEMMA BeginsTyped ==
    ASSUME ScriptTypeOK, NEW r, Begins(r)
    PROVE  /\ run' \in [Runs -> RunRecord] /\ BegunInv'
           /\ \E u \in Runs : run[u].pc = "unused" /\ run' = [run EXCEPT ![u] = r]
<1>1. PICK n \in 0..(MaxRuns - 1) : Unused = (n + 1)..MaxRuns /\ run' = [run EXCEPT ![n + 1] = r]
  BY DEF Begins
<1>2. MaxRuns \in Nat /\ run \in [Runs -> RunRecord] /\ r \in RunRecord /\ r.pc # "unused"
  BY UpdateAssumption DEF ScriptTypeOK, RunRecord, Begins
<1>3. n + 1 \in Runs /\ n + 1 \in Unused /\ n \in Nat
  BY <1>1, <1>2 DEF Runs
<1>4. Unused' = Unused \ {n + 1}
  BY <1>1, <1>2, <1>3 DEF Unused, At
<1>5. Unused' = ((n + 1) + 1)..MaxRuns /\ n + 1 \in 0..MaxRuns
  BY <1>1, <1>2, <1>3, <1>4
<1>6. BegunInv'
  BY <1>5 DEF BegunInv
<1>7. run[n + 1].pc = "unused"
  BY <1>3 DEF Unused, At
<1> QED BY <1>1, <1>2, <1>3, <1>6, <1>7

LEMMA GoesBegun ==
    ASSUME ScriptTypeOK, BegunInv, NEW u \in Runs, NEW pc, Goes(u, pc), run[u].pc # "unused", pc # "unused"
    PROVE  BegunInv'
<1>1. Unused' = Unused
  BY DEF Unused, At, Goes
<1> QED BY <1>1 DEF BegunInv

LEMMA LaunchBegins ==
    ASSUME ScriptTypeOK, BegunInv, NEW row \in Nat, NEW a \in Versions, NEW mode \in {"full", "bootstrap-only"}, Launch(row, a, mode)
    PROVE  Begins([NoRun EXCEPT !.pc = "begun", !.archive = a, !.mode = mode, !.row = row])
<1> DEFINE r == [NoRun EXCEPT !.pc = "begun", !.archive = a, !.mode = mode, !.row = row]
<1>1. r \in RunRecord /\ r.pc = "begun"
  BY NoRunTyped DEF RunRecord, Waiting
<1>2. PICK n \in 0..(MaxRuns - 1) : Unused = (n + 1)..MaxRuns /\ NextRun = n + 1
  BY NextIsFirst DEF Launch
<1>3. run' = [run EXCEPT ![n + 1] = r]
  BY <1>2 DEF Launch
<1> HIDE DEF r
<1>4. Begins(r)
  BY <1>1, <1>2, <1>3 DEF Begins
<1> QED BY <1>4 DEF r

LEMMA RunByHandBegins ==
    ASSUME ScriptTypeOK, BegunInv, NEW x \in ByHand, RunByHand(x[1], x[2])
    PROVE  Begins([NoRun EXCEPT !.pc = "waiting", !.archive = x[1], !.mode = x[2]])
<1> DEFINE r == [NoRun EXCEPT !.pc = "waiting", !.archive = x[1], !.mode = x[2]]
<1>0. x[1] \in Versions /\ x[2] \in {"full", "bootstrap-only"}
  BY UpdateAssumption DEF Versions
<1>1. r \in RunRecord /\ r.pc = "waiting"
  BY <1>0, NoRunTyped DEF RunRecord, Waiting
<1>2. PICK n \in 0..(MaxRuns - 1) : Unused = (n + 1)..MaxRuns /\ NextRun = n + 1
  BY NextIsFirst DEF RunByHand
<1>3. run' = [run EXCEPT ![n + 1] = r]
  BY <1>2 DEF RunByHand
<1> HIDE DEF r
<1>4. Begins(r)
  BY <1>1, <1>2, <1>3 DEF Begins
<1> QED BY <1>4 DEF r

\* A step of a run, or of what it runs beside.
OtherStep ==
    \/ \E x \in ByHand : RunByHand(x[1], x[2])
    \/ \E u \in Runs : Step(u) \/ InstallAgent(u) \/ ComposeUp(u) \/ Fail(u) \/ Kill(u)
    \/ AgentRestarts \/ ServiceRestarts \/ BackupBegins \/ (\E p \in Parts : BackupReads(p)) \/ BackupEnds
ScriptStep == OtherStep \/ \E u \in Runs : MarkArchive(u)

\* The effect of every action of a run on its record.
LEMMA StepGoes ==
    ASSUME ScriptTypeOK, NEW u \in Runs
    PROVE  /\ MarkArchive(u) => Goes(u, "marked")
           /\ Execute(u) => Goes(u, "waiting")
           /\ WrapperFails(u) => Goes(u, "failed")
           /\ TakeLock(u) => Goes(u, "locked")
           /\ NotStarted(u) => Goes(u, "failed")
           /\ Render(u) => Goes(u, "rendered")
           /\ InstallAgent(u) => Goes(u, IF run[u].mode = "full" THEN "agented" ELSE "ok")
           /\ SyncHost(u) => Goes(u, "synced")
           /\ ComposeUp(u) => Goes(u, "composed")
           /\ Finish(u) => Goes(u, "ok")
           /\ Fail(u) => Goes(u, "failed")
           /\ Kill(u) => Goes(u, IF run[u].pc \in SourcesChanged THEN "torn" ELSE "killed")
<1>1. run \in [Runs -> RunRecord]
  BY DEF ScriptTypeOK, RunRecord
<1>2. \A pc \in Waiting \cup Locked \cup Ended : Goto(u, pc) => Goes(u, pc)
  BY <1>1, GotoGoes
<1>3. {"marked", "waiting", "failed", "locked", "rendered", "agented", "ok", "synced", "composed", "torn", "killed"}
        \subseteq Waiting \cup Locked \cup Ended
  BY DEF Waiting, Locked, BeforeSources, SourcesChanged, AfterCompose, Ended
<1> QED
  BY <1>2, <1>3 DEF MarkArchive, Execute, WrapperFails, TakeLock, NotStarted, Render, InstallAgent, SyncHost,
                    ComposeUp, Finish, Fail, Kill

LEMMA StageGoes ==
    ASSUME ScriptTypeOK, NEW u \in Runs, Stage(u)
    PROVE  /\ run' \in [Runs -> RunRecord] /\ \A w \in Runs \ {u} : run'[w] = run[w]
           /\ run'[u].pc = "installing" /\ run'[u].before = source /\ run'[u].archive = run[u].archive
           /\ run'[u].row = run[u].row /\ run'[u].mode = run[u].mode /\ run'[u].found = containers.service
<1>1. run[u] \in RunRecord /\ source \in [Parts -> Versions] /\ run \in [Runs -> RunRecord]
      /\ containers.service \in Versions \cup {Down}
  BY DEF ScriptTypeOK, RunRecord
<1> DEFINE r == [run[u] EXCEPT !.pc = "installing", !.before = source, !.found = containers.service]
<1>2. /\ r \in RunRecord /\ r.pc = "installing" /\ r.before = source /\ r.archive = run[u].archive
      /\ r.row = run[u].row /\ r.mode = run[u].mode /\ r.found = containers.service
  BY <1>1 DEF RunRecord, Locked, SourcesChanged
<1>3. run' = [run EXCEPT ![u] = r]
  BY <1>1 DEF Stage
<1> HIDE DEF r
<1> QED BY <1>1, <1>2, <1>3

LEMMA PlanGoes ==
    ASSUME ScriptTypeOK, NEW u \in Runs, NEW read \in {"read", "lost"}, Plan(u, read)
    PROVE  /\ run' \in [Runs -> RunRecord] /\ \A w \in Runs \ {u} : run'[w] = run[w]
           /\ run'[u].pc = "planned" /\ run'[u].plan = read /\ run'[u].archive = run[u].archive
           /\ run'[u].row = run[u].row /\ run'[u].mode = run[u].mode /\ run'[u].before = run[u].before
           /\ run'[u].found = run[u].found
<1>1. run[u] \in RunRecord /\ run \in [Runs -> RunRecord]
  BY DEF ScriptTypeOK, RunRecord
<1> DEFINE r == [run[u] EXCEPT !.pc = "planned", !.plan = read]
<1>2. /\ r \in RunRecord /\ r.pc = "planned" /\ r.plan = read /\ r.archive = run[u].archive
      /\ r.row = run[u].row /\ r.mode = run[u].mode /\ r.before = run[u].before /\ r.found = run[u].found
  BY <1>1 DEF RunRecord, Locked, SourcesChanged
<1>3. run' = [run EXCEPT ![u] = r]
  BY <1>1 DEF Plan
<1> HIDE DEF r
<1> QED BY <1>1, <1>2, <1>3

\* The types but for the run and the faults.
ThingsTyped ==
    /\ archives \subseteq Archives /\ markers \subseteq Versions
    /\ maintenance \in Runs \cup {Archiver, Nobody}
    /\ source \in [Parts -> Versions] /\ generated \in [env : Versions, config : Versions]
    /\ images \in Versions /\ agent \in [runs : Versions \cup {Down}, saved : Versions]
    /\ host \in Versions \cup {Down} /\ containers \in Containers
    /\ backup \in [pc : {"idle", "reading"}, copy : [Parts -> Versions \cup {Down}]]
    /\ published \subseteq [Parts -> Versions]

LEMMA TypesInParts == ScriptTypeOK <=> ThingsTyped /\ run \in [Runs -> RunRecord] /\ faults \in Faults
  BY DEF ScriptTypeOK, ThingsTyped, RunRecord, Faults, Containers

LEMMA AgentTyped ==
    ASSUME ThingsTyped, NEW u \in Runs
    PROVE  /\ AgentInstalled(u) \in [runs : Versions \cup {Down}, saved : Versions]
           /\ AgentHalfInstalled \subseteq [runs : Versions \cup {Down}, saved : Versions]
<1>1. agent \in [runs : Versions \cup {Down}, saved : Versions] /\ source["agent"] \in Versions
  BY DEF ThingsTyped, Parts
<1>2. Restarted \in [runs : Versions \cup {Down}, saved : Versions]
  BY <1>1 DEF Restarted
<1>3. AgentInstalled(u) \in [runs : Versions \cup {Down}, saved : Versions]
  BY <1>1, <1>2 DEF AgentInstalled
<1>4. [Restarted EXCEPT !.runs = IF RestartRequired THEN Down ELSE @] \in [runs : Versions \cup {Down}, saved : Versions]
  BY <1>2
<1> QED BY <1>1, <1>2, <1>3, <1>4 DEF AgentHalfInstalled

LEMMA ComposedTyped ==
    ASSUME ThingsTyped, NEW v \in Versions
    PROVE  /\ NewServices(v) \in Containers /\ Composed(v) \in Containers
           /\ HalfComposed(v) \subseteq Containers
           /\ Composed(v).portal = Definition("portal", v) /\ Composed(v).service = Definition("service", v)
           /\ containers.service # Definition("service", v) => Composed(v).loaded = generated.config
<1>1. containers \in Containers /\ generated.config \in Versions
  BY DEF ThingsTyped
<1>2. Definition("portal", v) \in Versions /\ Definition("service", v) \in Versions
  BY DEF Definition, Versions
<1>3. /\ NewServices(v) \in Containers /\ NewServices(v).service = Definition("service", v)
      /\ containers.service # Definition("service", v) => NewServices(v).loaded = generated.config
  BY <1>1, <1>2 DEF NewServices, Containers
<1>4. ASSUME NEW c \in Containers, NEW p \in Versions \cup {Down}
      PROVE  /\ [c EXCEPT !.portal = p] \in Containers /\ [c EXCEPT !.portal = p].portal = p
             /\ [c EXCEPT !.portal = p].service = c.service /\ [c EXCEPT !.portal = p].loaded = c.loaded
  BY DEF Containers
<1>5. [containers EXCEPT !.service = Down, !.loaded = Down] \in Containers
  BY <1>1 DEF Containers
<1>6. {containers.portal, Definition("portal", v), Down} \subseteq Versions \cup {Down}
  BY <1>1, <1>2 DEF Containers
<1>7. {containers, NewServices(v), [containers EXCEPT !.service = Down, !.loaded = Down]} \subseteq Containers
  BY <1>1, <1>3, <1>5
<1>8. HalfComposed(v) \subseteq Containers
  <2> SUFFICES ASSUME NEW x \in HalfComposed(v) PROVE x \in Containers
    OBVIOUS
  <2>1. PICK p \in {containers.portal, Definition("portal", v), Down},
             c \in {containers, NewServices(v), [containers EXCEPT !.service = Down, !.loaded = Down]} :
               x = [c EXCEPT !.portal = p]
    BY DEF HalfComposed
  <2>2. c \in Containers /\ p \in Versions \cup {Down}
    BY <1>6, <1>7
  <2> QED BY <1>4, <2>1, <2>2
<1> QED BY <1>2, <1>3, <1>4, <1>8 DEF Composed

LEMMA HalfTyped ==
    ASSUME ThingsTyped, NEW u \in Runs, HalfDone(u)
    PROVE  /\ agent' \in [runs : Versions \cup {Down}, saved : Versions]
           /\ generated' \in [env : Versions, config : Versions]
           /\ host' \in Versions \cup {Down} /\ containers' \in Containers
<1>1. agent' \in [runs : Versions \cup {Down}, saved : Versions]
  BY AgentTyped DEF HalfDone, ThingsTyped
<1>2. source["rest"] \in Versions /\ Built(u) \in Versions
  BY DEF ThingsTyped, Parts, Built
<1>3. generated' \in [env : Versions, config : Versions]
  BY <1>2 DEF HalfDone, ThingsTyped
<1>4. host' \in Versions \cup {Down} /\ containers' \in Containers
  BY <1>2, ComposedTyped DEF HalfDone, ThingsTyped
<1> QED BY <1>1, <1>3, <1>4

LEMMA ScriptInitial == ScriptInit => ScriptTypeOK /\ BegunInv
<1> SUFFICES ASSUME ScriptInit PROVE ScriptTypeOK /\ BegunInv
  OBVIOUS
<1>1. run \in [Runs -> RunRecord] /\ Original \in Versions
  BY NoRunTyped DEF ScriptInit, Versions
<1>2. faults \in Faults
  BY UpdateAssumption DEF ScriptInit, Faults
<1>3. ThingsTyped
  BY <1>1 DEF ScriptInit, ThingsTyped, NoBackup, Tree, Containers
<1>4. Unused = (0 + 1)..MaxRuns /\ 0 \in 0..MaxRuns
  BY UpdateAssumption DEF ScriptInit, Unused, At, NoRun, Runs
<1> QED BY <1>1, <1>2, <1>3, <1>4, TypesInParts DEF BegunInv

LEMMA ScriptTypes ==
    ASSUME ScriptTypeOK, BegunInv, ScriptStep
    PROVE  ScriptTypeOK' /\ BegunInv'
<1>1. /\ ThingsTyped /\ run \in [Runs -> RunRecord] /\ faults \in Faults
      /\ ThingsTyped' /\ (run \in [Runs -> RunRecord])' /\ (faults \in Faults)' => ScriptTypeOK'
  BY TypesInParts, PTL DEF ScriptTypeOK, ThingsTyped, RunRecord, Faults, Containers
<1>2. \A kind : Happens(kind) => faults' \in Faults
  BY <1>1, FaultCounted
<1> DEFINE Ok == ScriptTypeOK' /\ BegunInv'
<1>3. ASSUME NEW x \in ByHand, RunByHand(x[1], x[2]) PROVE Ok
  <2>1. run' \in [Runs -> RunRecord] /\ BegunInv'
    BY <1>3, RunByHandBegins, BeginsTyped
  <2>2. ThingsTyped' /\ faults' \in Faults
    BY <1>1, <1>3 DEF RunByHand, ThingsTyped, systemVars
  <2> QED BY <1>1, <2>1, <2>2
<1>4. ASSUME NEW u \in Runs, NEW pc \in (Waiting \cup Locked \cup Ended), Goes(u, pc), run[u].pc # "unused",
             ThingsTyped', faults' \in Faults
      PROVE  Ok
  <2>1. pc # "unused"
    BY DEF Waiting, Locked, BeforeSources, SourcesChanged, AfterCompose, Ended
  <2>2. BegunInv'
    BY <1>4, <2>1, GoesBegun
  <2>3. run' \in [Runs -> RunRecord]
    BY <1>4 DEF Goes
  <2> QED BY <1>1, <1>4, <2>2, <2>3
<1>5. {"marked", "waiting", "failed", "locked", "rendered", "agented", "ok", "synced", "composed", "torn", "killed"}
        \subseteq Waiting \cup Locked \cup Ended
  BY DEF Waiting, Locked, BeforeSources, SourcesChanged, AfterCompose, Ended
<1>6. ASSUME NEW u \in Runs PROVE run[u].archive \in Versions
  BY <1>1 DEF RunRecord
<1>7. ASSUME NEW u \in Runs, MarkArchive(u) \/ Step(u) PROVE Ok
  <2>1. CASE MarkArchive(u)
    <3>1. ThingsTyped' /\ faults' \in Faults /\ run[u].pc # "unused"
      BY <1>1, <1>6, <2>1 DEF MarkArchive, ThingsTyped, systemVars, At
    <3> QED BY <1>4, <1>5, <2>1, <3>1, StepGoes
  <2>2. CASE Execute(u)
    <3>1. ThingsTyped' /\ faults' \in Faults /\ run[u].pc # "unused"
      BY <1>1, <2>2 DEF Execute, ThingsTyped, systemVars, At
    <3> QED BY <1>4, <1>5, <2>2, <3>1, StepGoes
  <2>3. CASE WrapperFails(u)
    <3>1. ThingsTyped' /\ run[u].pc # "unused"
      BY <1>1, <2>3 DEF WrapperFails, ThingsTyped, systemVars, At
    <3>2. faults' \in Faults
      BY <1>1, <1>2, <2>3 DEF WrapperFails
    <3> QED BY <1>4, <1>5, <2>3, <3>1, <3>2, StepGoes
  <2>4. CASE TakeLock(u)
    <3>1. ThingsTyped' /\ faults' \in Faults /\ run[u].pc # "unused"
      BY <1>1, <2>4 DEF TakeLock, ThingsTyped, systemVars, At
    <3> QED BY <1>4, <1>5, <2>4, <3>1, StepGoes
  <2>5. CASE NotStarted(u)
    <3>1. ThingsTyped' /\ run[u].pc # "unused"
      BY <1>1, <2>5 DEF NotStarted, ThingsTyped, systemVars, At
    <3>2. faults' \in Faults
      BY <1>1, <1>2, <2>5 DEF NotStarted
    <3> QED BY <1>4, <1>5, <2>5, <3>1, <3>2, StepGoes
  <2>6. CASE Stage(u)
    <3>1. run[u].pc # "unused" /\ run'[u].pc # "unused" /\ run' \in [Runs -> RunRecord]
          /\ \A w \in Runs \ {u} : run'[w] = run[w]
      BY <1>1, <2>6, StageGoes DEF Stage, At, RunRecord
    <3>2. Unused' = Unused
      BY <3>1 DEF Unused, At
    <3>3. ThingsTyped' /\ faults' \in Faults
      BY <1>1, <2>6 DEF Stage, ThingsTyped, systemVars
    <3> QED BY <1>1, <3>1, <3>2, <3>3 DEF BegunInv
  <2>7. ASSUME NEW p \in Parts, InstallPart(u, p) PROVE Ok
    <3>1. source' \in [Parts -> Versions]
      BY <1>1, <1>6, <2>7 DEF InstallPart, ThingsTyped
    <3>2. ThingsTyped' /\ faults' \in Faults /\ run' = run
      BY <1>1, <2>7, <3>1 DEF InstallPart, ThingsTyped
    <3> QED BY <1>1, <3>2 DEF BegunInv, Unused, At
  <2>8. ASSUME NEW read \in {"read", "lost"}, Plan(u, read) PROVE Ok
    <3>1. run[u].pc # "unused" /\ run'[u].pc # "unused" /\ run' \in [Runs -> RunRecord]
          /\ \A w \in Runs \ {u} : run'[w] = run[w]
      BY <1>1, <2>8, PlanGoes DEF Plan, At, RunRecord
    <3>2. Unused' = Unused
      BY <3>1 DEF Unused, At
    <3>3. ThingsTyped'
      BY <1>1, <1>6, <2>8 DEF Plan, ThingsTyped
    <3>4. faults' \in Faults
      BY <1>1, <1>2, <2>8 DEF Plan
    <3> QED BY <1>1, <3>1, <3>2, <3>3, <3>4 DEF BegunInv
  <2>9. CASE Render(u)
    <3>1. ThingsTyped' /\ faults' \in Faults /\ run[u].pc # "unused"
      BY <1>1, <2>9 DEF Render, AtRender, ThingsTyped, At, Parts
    <3> QED BY <1>4, <1>5, <2>9, <3>1, StepGoes
  <2>10. CASE SyncHost(u)
    <3>1. ThingsTyped' /\ faults' \in Faults /\ run[u].pc # "unused"
      BY <1>1, <2>10 DEF SyncHost, ThingsTyped, At
    <3> QED BY <1>4, <1>5, <2>10, <3>1, StepGoes
  <2>11. CASE Finish(u)
    <3>1. ThingsTyped' /\ faults' \in Faults /\ run[u].pc # "unused"
      BY <1>1, <2>11 DEF Finish, ThingsTyped, systemVars, At
    <3> QED BY <1>4, <1>5, <2>11, <3>1, StepGoes
  <2> QED BY <1>7, <2>1, <2>2, <2>3, <2>4, <2>5, <2>6, <2>7, <2>8, <2>9, <2>10, <2>11 DEF Step
<1>8. ASSUME NEW u \in Runs, InstallAgent(u) PROVE Ok
  <2>1. agent' \in [runs : Versions \cup {Down}, saved : Versions]
    BY <1>1, <1>8, AgentTyped DEF InstallAgent
  <2>2. ThingsTyped' /\ faults' \in Faults /\ run[u].pc # "unused"
    BY <1>1, <1>8, <2>1 DEF InstallAgent, AtAgent, ThingsTyped
  <2> QED BY <1>4, <1>5, <1>8, <2>2, StepGoes
<1>9. ASSUME NEW u \in Runs PROVE Built(u) \in Versions
  BY <1>1 DEF Built, ThingsTyped, Parts
<1>10. ASSUME NEW u \in Runs, ComposeUp(u) PROVE Ok
  <2>1. containers' \in Containers
    BY <1>1, <1>9, <1>10, ComposedTyped DEF ComposeUp, ThingsTyped
  <2>2. ThingsTyped' /\ faults' \in Faults /\ run[u].pc # "unused"
    BY <1>1, <1>10, <2>1 DEF ComposeUp, ThingsTyped, At
  <2> QED BY <1>4, <1>5, <1>10, <2>2, StepGoes
<1>11. ASSUME NEW u \in Runs, Fail(u) PROVE Ok
  <2>1. HalfDone(u) /\ run[u].before \in [Parts -> Versions] /\ run[u].pc \in Locked
    BY <1>1, <1>11 DEF RunRecord, Fail
  <2>2. source' \in [Parts -> Versions] /\ maintenance' = Nobody
    BY <1>1, <1>11, <2>1 DEF Fail, ThingsTyped
  <2>3. ThingsTyped' /\ run[u].pc # "unused"
    BY <1>1, <1>11, <2>1, <2>2, HalfTyped DEF Fail, ThingsTyped, Locked, BeforeSources, SourcesChanged, AfterCompose
  <2>4. faults' \in Faults
    BY <1>1, <1>2, <1>11 DEF Fail
  <2> QED BY <1>4, <1>5, <1>11, <2>3, <2>4, StepGoes
<1>12. ASSUME NEW u \in Runs, Kill(u) PROVE Ok
  <2>1. HalfDone(u) /\ run[u].pc \in Waiting \cup Locked
    BY <1>12 DEF Kill
  <2>2. ThingsTyped' /\ run[u].pc # "unused"
    BY <1>1, <1>12, <2>1, HalfTyped
    DEF Kill, ThingsTyped, Waiting, Locked, BeforeSources, SourcesChanged, AfterCompose
  <2>3. faults' \in Faults
    BY <1>2, <1>12 DEF Kill
  <2> QED BY <1>4, <1>5, <1>12, <2>2, <2>3, StepGoes
<1>13. ASSUME run' = run, ThingsTyped', faults' \in Faults PROVE Ok
  BY <1>1, <1>13 DEF BegunInv, Unused, At
<1>14. CASE AgentRestarts
  <2>1. ThingsTyped' /\ faults' \in Faults
    BY <1>1, <1>2, <1>14 DEF AgentRestarts, ThingsTyped, Parts
  <2> QED BY <1>13, <1>14, <2>1 DEF AgentRestarts
<1>15. CASE BackupBegins
  <2>1. [NoBackup EXCEPT !.pc = "reading"] \in [pc : {"idle", "reading"}, copy : [Parts -> Versions \cup {Down}]]
    BY DEF NoBackup, Tree
  <2>2. ThingsTyped' /\ faults' \in Faults
    BY <1>1, <1>2, <1>15, <2>1 DEF BackupBegins, ThingsTyped, systemVars
  <2> QED BY <1>13, <1>15, <2>2 DEF BackupBegins
<1>16. ASSUME NEW p \in Parts, BackupReads(p) PROVE Ok
  <2>1. backup' \in [pc : {"idle", "reading"}, copy : [Parts -> Versions \cup {Down}]]
    BY <1>1, <1>16 DEF BackupReads, ThingsTyped
  <2>2. ThingsTyped' /\ faults' \in Faults
    BY <1>1, <1>16, <2>1 DEF BackupReads, ThingsTyped, systemVars
  <2> QED BY <1>13, <1>16, <2>2 DEF BackupReads
<1>17. CASE BackupEnds
  <2>1. NoBackup \in [pc : {"idle", "reading"}, copy : [Parts -> Versions \cup {Down}]]
    BY DEF NoBackup, Tree
  <2>2. (\A p \in Parts : backup.copy[p] # Down) => backup.copy \in [Parts -> Versions]
    BY <1>1 DEF ThingsTyped
  <2>3. published' \subseteq [Parts -> Versions]
    BY <1>1, <1>17, <2>2 DEF BackupEnds, ThingsTyped
  <2>4. ThingsTyped' /\ faults' \in Faults
    BY <1>1, <1>17, <2>1, <2>3 DEF BackupEnds, ThingsTyped, systemVars
  <2> QED BY <1>13, <1>17, <2>4 DEF BackupEnds
<1>18. CASE ServiceRestarts
  <2>1. [containers EXCEPT !.loaded = generated.config] \in Containers
    BY <1>1 DEF ThingsTyped, Containers
  <2>2. ThingsTyped' /\ faults' \in Faults
    BY <1>1, <1>2, <1>18, <2>1 DEF ServiceRestarts, ThingsTyped
  <2> QED BY <1>13, <1>18, <2>2 DEF ServiceRestarts
<1> QED BY <1>3, <1>7, <1>8, <1>10, <1>11, <1>12, <1>14, <1>15, <1>16, <1>17, <1>18 DEF ScriptStep, OtherStep

(***************************************************************************)
(* The lock, the sources and what is brought to a version: the steps of    *)
(* the runs.                                                               *)
(***************************************************************************)

LEMMA StepsApart ==
    /\ Locked \cap Ended = {} /\ Locked \cap Waiting = {} /\ SourcesChanged \subseteq Locked
    /\ "unused" \notin Locked \cup Waiting /\ "torn" \notin Locked \cup Waiting \cup {"unused"}
    /\ "locked" \in Locked /\ "installing" \in SourcesChanged /\ {"planned", "rendered", "agented"} \subseteq SourcesChanged
    /\ {"synced", "composed"} \subseteq Locked \ SourcesChanged /\ "locked" \notin SourcesChanged
    /\ {"begun", "marked", "waiting"} = Waiting /\ {"ok", "failed", "killed", "torn"} = Ended
  BY DEF Locked, BeforeSources, SourcesChanged, AfterCompose, Ended, Waiting

\* Whoever holds the lock is alone.
LEMMA Alone ==
    ASSUME LockInv, NEW u \in Runs, run[u].pc \in Locked
    PROVE  maintenance = u /\ backup.pc # "reading" /\ \A w \in Runs \ {u} : run[w].pc \notin Locked
  BY UpdateAssumption DEF LockInv, Runs

LEMMA LockGoes ==
    ASSUME LockInv, NEW u \in Runs, NEW pc, Goes(u, pc), backup' = backup,
           \/ maintenance' = maintenance /\ (pc \in Locked => run[u].pc \in Locked)
           \/ maintenance = Nobody /\ maintenance' = u
           \/ pc \notin Locked /\ maintenance' = IF maintenance = u THEN Nobody ELSE maintenance
    PROVE  LockInv'
<1>1. u # Archiver /\ u # Nobody /\ Archiver # Nobody /\ Nobody \notin Runs
  BY UpdateAssumption DEF Runs
<1>2. run'[u].pc = pc /\ \A w \in Runs \ {u} : run'[w] = run[w]
  BY DEF Goes
<1> QED BY <1>1, <1>2 DEF LockInv

LEMMA LockStep ==
    ASSUME ScriptTypeOK, BegunInv, LockInv, ScriptStep
    PROVE  LockInv'
<1>1. ASSUME NEW x \in ByHand, RunByHand(x[1], x[2]) PROVE LockInv'
  <2> DEFINE r == [NoRun EXCEPT !.pc = "waiting", !.archive = x[1], !.mode = x[2]]
  <2>1. r.pc = "waiting"
    BY DEF NoRun
  <2>2. PICK w \in Runs : run[w].pc = "unused" /\ run' = [run EXCEPT ![w] = r]
    BY <1>1, RunByHandBegins, BeginsTyped
  <2>3. run \in [Runs -> RunRecord] /\ maintenance' = maintenance /\ backup' = backup
    BY <1>1, TypesInParts DEF RunByHand
  <2> HIDE DEF r
  <2>4. \A u \in Runs : run'[u].pc \in Locked => run[u].pc \in Locked
    BY <2>1, <2>2, <2>3, StepsApart
  <2> QED BY <2>3, <2>4 DEF LockInv
<1>2. ASSUME NEW u \in Runs, MarkArchive(u) PROVE LockInv'
  BY <1>2, StepGoes, LockGoes, StepsApart DEF MarkArchive
<1>3. ASSUME NEW u \in Runs, Execute(u) PROVE LockInv'
  BY <1>3, StepGoes, LockGoes, StepsApart DEF Execute
<1>4. ASSUME NEW u \in Runs, WrapperFails(u) PROVE LockInv'
  BY <1>4, StepGoes, LockGoes, StepsApart DEF WrapperFails
<1>5. ASSUME NEW u \in Runs, TakeLock(u) PROVE LockInv'
  BY <1>5, StepGoes, LockGoes DEF TakeLock
<1>6. ASSUME NEW u \in Runs, NotStarted(u) PROVE LockInv'
  BY <1>6, StepGoes, LockGoes, StepsApart DEF NotStarted
<1>7. ASSUME NEW u \in Runs, run[u].pc \in Locked, \A w \in Runs \ {u} : run'[w] = run[w],
             maintenance' = maintenance, backup' = backup
      PROVE  LockInv'
  BY <1>7, Alone DEF LockInv
<1>8. ASSUME NEW u \in Runs, Stage(u) PROVE LockInv'
  <2>1. run[u].pc \in Locked /\ maintenance' = maintenance /\ backup' = backup
    BY <1>8, StepsApart DEF Stage, At
  <2>2. \A w \in Runs \ {u} : run'[w] = run[w]
    BY <1>8, StageGoes
  <2> QED BY <1>7, <2>1, <2>2
<1>9. ASSUME NEW u \in Runs, NEW p \in Parts, InstallPart(u, p) PROVE LockInv'
  BY <1>9 DEF InstallPart, LockInv
<1>10. ASSUME NEW u \in Runs, NEW read \in {"read", "lost"}, Plan(u, read) PROVE LockInv'
  <2>1. run[u].pc \in Locked
    BY <1>10, StepsApart DEF Plan, At
  <2>2. \A w \in Runs \ {u} : run'[w] = run[w]
    BY <1>10, PlanGoes
  <2> QED BY <1>7, <1>10, <2>1, <2>2 DEF Plan
<1>11. ASSUME NEW u \in Runs, Render(u) PROVE LockInv'
  BY <1>11, StepGoes, LockGoes, StepsApart DEF Render, AtRender, At
<1>12. ASSUME NEW u \in Runs, SyncHost(u) PROVE LockInv'
  BY <1>12, StepGoes, LockGoes, StepsApart DEF SyncHost, At
<1>13. ASSUME NEW u \in Runs, Finish(u) PROVE LockInv'
  <2>1. run[u].pc \in Locked /\ "ok" \notin Locked
    BY <1>13, StepsApart DEF Finish, At
  <2> QED BY <1>13, <2>1, Alone, StepGoes, LockGoes DEF Finish
<1>14. ASSUME NEW u \in Runs, InstallAgent(u) PROVE LockInv'
  <2>1. run[u].pc \in Locked /\ "ok" \notin Locked /\ backup' = backup
    BY <1>14, StepsApart DEF InstallAgent, AtAgent
  <2>2. maintenance = u
    BY <2>1, Alone
  <2>3. CASE run[u].mode = "full"
    BY <1>14, <2>1, <2>2, <2>3, StepGoes, LockGoes DEF InstallAgent
  <2>4. CASE run[u].mode # "full"
    BY <1>14, <2>1, <2>2, <2>4, StepGoes, LockGoes DEF InstallAgent
  <2> QED BY <2>3, <2>4
<1>15. ASSUME NEW u \in Runs, ComposeUp(u) PROVE LockInv'
  BY <1>15, StepGoes, LockGoes, StepsApart DEF ComposeUp, At
<1>16. ASSUME NEW u \in Runs, Fail(u) PROVE LockInv'
  <2>1. run[u].pc \in Locked /\ "failed" \notin Locked
    BY <1>16, StepsApart DEF Fail
  <2> QED BY <1>16, <2>1, Alone, StepGoes, LockGoes DEF Fail
<1>17. ASSUME NEW u \in Runs, Kill(u) PROVE LockInv'
  BY <1>17, StepGoes, LockGoes, StepsApart DEF Kill
<1>18. CASE AgentRestarts
  BY <1>18 DEF AgentRestarts, LockInv
<1>19. CASE BackupBegins
  BY <1>19, UpdateAssumption DEF BackupBegins, LockInv, Runs
<1>20. ASSUME NEW p \in Parts, BackupReads(p) PROVE LockInv'
  BY <1>20 DEF BackupReads, LockInv
<1>21. CASE BackupEnds
  BY <1>21, UpdateAssumption DEF BackupEnds, LockInv, Runs, NoBackup
<1>22. CASE ServiceRestarts
  BY <1>22 DEF ServiceRestarts, LockInv
<1> QED
  BY <1>1, <1>2, <1>3, <1>4, <1>5, <1>6, <1>8, <1>9, <1>10, <1>11, <1>12, <1>13, <1>14, <1>15, <1>16, <1>17,
     <1>18, <1>19, <1>20, <1>21, <1>22
  DEF ScriptStep, OtherStep, Step

\* A step of run u that leaves the sources: it must not end their replacement.
LEMMA SourceGoes ==
    ASSUME SourceInv, NEW u \in Runs, run[u].pc # "torn", \A w \in Runs \ {u} : run'[w] = run[w],
           run'[u].pc \in SourcesChanged => run[u].pc \in SourcesChanged /\ run'[u].before = run[u].before,
           run[u].pc = "installing" => run'[u].pc \in {"installing", "torn"},
           source' = source, published' = published
    PROVE  SourceInv'
<1> SUFFICES ASSUME NothingTorn' PROVE SourceInv'
  BY DEF SourceInv
<1>1. NothingTorn
  BY DEF NothingTorn
<1>2. (\A w \in Runs : run'[w].pc # "installing") => \A w \in Runs : run[w].pc # "installing"
  BY DEF NothingTorn
<1> QED BY <1>1, <1>2 DEF SourceInv, Whole

LEMMA SourceStep ==
    ASSUME ScriptTypeOK, BegunInv, LockInv, SourceInv, BackupInv, ScriptStep
    PROVE  SourceInv'
<1>0. run \in [Runs -> RunRecord] /\ source \in [Parts -> Versions] /\ backup.copy \in [Parts -> Versions \cup {Down}]
  BY TypesInParts DEF ThingsTyped
<1>1. ASSUME NEW x \in ByHand, RunByHand(x[1], x[2]) PROVE SourceInv'
  <2> DEFINE r == [NoRun EXCEPT !.pc = "waiting", !.archive = x[1], !.mode = x[2]]
  <2>1. r.pc = "waiting"
    BY DEF NoRun
  <2>2. PICK w \in Runs : run[w].pc = "unused" /\ run' = [run EXCEPT ![w] = r]
    BY <1>1, RunByHandBegins, BeginsTyped
  <2> HIDE DEF r
  <2>3. run'[w].pc = "waiting" /\ \A u \in Runs \ {w} : run'[u] = run[u]
    BY <1>0, <2>1, <2>2
  <2>4. "waiting" \notin SourcesChanged
    BY StepsApart
  <2> QED BY <1>1, <2>2, <2>3, <2>4, SourceGoes DEF RunByHand, systemVars
<1>2. ASSUME NEW u \in Runs, NEW pc, Goes(u, pc), pc \notin SourcesChanged, run[u].pc # "torn",
             run[u].pc # "installing" \/ pc = "torn", source' = source, published' = published
      PROVE  SourceInv'
  BY <1>2, SourceGoes DEF Goes
<1>3. ASSUME NEW u \in Runs, MarkArchive(u) PROVE SourceInv'
  BY <1>2, <1>3, StepGoes, StepsApart DEF MarkArchive, At, systemVars
<1>4. ASSUME NEW u \in Runs, Execute(u) PROVE SourceInv'
  BY <1>2, <1>4, StepGoes, StepsApart DEF Execute, At, systemVars
<1>5. ASSUME NEW u \in Runs, WrapperFails(u) PROVE SourceInv'
  BY <1>2, <1>5, StepGoes, StepsApart DEF WrapperFails, systemVars
<1>6. ASSUME NEW u \in Runs, TakeLock(u) PROVE SourceInv'
  BY <1>2, <1>6, StepGoes, StepsApart DEF TakeLock, At, systemVars
<1>7. ASSUME NEW u \in Runs, NotStarted(u) PROVE SourceInv'
  BY <1>2, <1>7, StepGoes, StepsApart DEF NotStarted, At, systemVars
<1>8. ASSUME NEW u \in Runs, Stage(u) PROVE SourceInv'
  <2>1. run[u].pc = "locked" /\ source' = source /\ published' = published
    BY <1>8 DEF Stage, At, systemVars
  <2>2. run'[u].pc = "installing" /\ run'[u].before = source /\ \A w \in Runs \ {u} : run'[w] = run[w]
    BY <1>8, StageGoes
  <2>3. \A w \in Runs : run[w].pc # "installing"
    BY <2>1, Alone, StepsApart
  <2>4. NothingTorn' => NothingTorn
    BY <2>1, <2>2 DEF NothingTorn
  <2> QED BY <2>1, <2>2, <2>3, <2>4 DEF SourceInv, Whole
<1>9. ASSUME NEW u \in Runs, NEW p \in Parts, InstallPart(u, p) PROVE SourceInv'
  BY <1>9 DEF InstallPart, At, SourceInv, NothingTorn, Whole
<1>10. ASSUME NEW u \in Runs, NEW read \in {"read", "lost"}, Plan(u, read) PROVE SourceInv'
  <2>1. run[u].pc = "installing" /\ source = Tree(run[u].archive) /\ source' = source /\ published' = published
    BY <1>10 DEF Plan, At
  <2>2. run'[u].pc = "planned" /\ run'[u].before = run[u].before /\ \A w \in Runs \ {u} : run'[w] = run[w]
    BY <1>10, PlanGoes
  <2>3. Whole(source)
    BY <1>0, <2>1 DEF Whole, RunRecord
  <2>4. NothingTorn' => NothingTorn
    BY <2>1, <2>2 DEF NothingTorn
  <2> QED BY <2>1, <2>2, <2>3, <2>4, StepsApart DEF SourceInv, Whole
<1>11. ASSUME NEW u \in Runs, NEW pc, Goes(u, pc), run[u].pc \in {"planned", "rendered", "agented"},
              pc \in Locked \cup {"ok"}, source' = source, published' = published
       PROVE  SourceInv'
  <2>1. pc \in SourcesChanged => run'[u].before = run[u].before
    BY <1>11, StepsApart DEF Goes
  <2> QED BY <1>11, <2>1, SourceGoes, StepsApart DEF Goes
<1>12. ASSUME NEW u \in Runs, Render(u) PROVE SourceInv'
  BY <1>11, <1>12, StepGoes, StepsApart DEF Render, AtRender, At
<1>13. ASSUME NEW u \in Runs, SyncHost(u) PROVE SourceInv'
  BY <1>11, <1>13, StepGoes, StepsApart DEF SyncHost, At
<1>14. ASSUME NEW u \in Runs, Finish(u) PROVE SourceInv'
  BY <1>2, <1>14, StepGoes, StepsApart DEF Finish, At, systemVars
<1>15. ASSUME NEW u \in Runs, InstallAgent(u) PROVE SourceInv'
  BY <1>11, <1>15, StepGoes, StepsApart DEF InstallAgent, AtAgent
<1>16. ASSUME NEW u \in Runs, ComposeUp(u) PROVE SourceInv'
  BY <1>2, <1>16, StepGoes, StepsApart DEF ComposeUp, At
<1>17. ASSUME NEW u \in Runs, Fail(u) PROVE SourceInv'
  <2>1. Goes(u, "failed") /\ run[u].pc \in Locked /\ published' = published
    BY <1>17, StepGoes DEF Fail
  <2>2. CASE run[u].pc \notin SourcesChanged
    BY <1>2, <1>17, <2>1, <2>2, StepsApart DEF Fail
  <2>3. CASE run[u].pc \in SourcesChanged
    <3>1. source' = run[u].before
      BY <1>17, <2>3 DEF Fail
    <3>2. run'[u].pc = "failed" /\ \A w \in Runs \ {u} : run'[w] = run[w]
      BY <2>1 DEF Goes
    <3>3. \A w \in Runs \ {u} : run[w].pc \notin SourcesChanged
      BY <2>1, Alone, StepsApart
    <3>4. NothingTorn' => NothingTorn
      BY <2>1, <3>2, StepsApart DEF NothingTorn
    <3> QED BY <2>1, <2>3, <3>1, <3>2, <3>3, <3>4, StepsApart DEF SourceInv, Whole
  <2> QED BY <2>2, <2>3
<1>18. ASSUME NEW u \in Runs, Kill(u) PROVE SourceInv'
  <2>1. "torn" \notin SourcesChanged /\ "killed" \notin SourcesChanged /\ run[u].pc # "torn"
    BY <1>18, StepsApart DEF Kill
  <2>2. CASE run[u].pc \in SourcesChanged
    BY <1>2, <1>18, <2>1, <2>2, StepGoes DEF Kill
  <2>3. CASE run[u].pc \notin SourcesChanged
    BY <1>2, <1>18, <2>1, <2>3, StepGoes, StepsApart DEF Kill
  <2> QED BY <2>2, <2>3
<1>19. ASSUME run' = run, source' = source, published' = published PROVE SourceInv'
  BY <1>19 DEF SourceInv, NothingTorn, Whole
<1>20. CASE AgentRestarts
  BY <1>19, <1>20 DEF AgentRestarts
<1>21. CASE BackupBegins
  BY <1>19, <1>21 DEF BackupBegins, systemVars
<1>22. ASSUME NEW p \in Parts, BackupReads(p) PROVE SourceInv'
  BY <1>19, <1>22 DEF BackupReads, systemVars
<1>23. CASE BackupEnds
  <2>1. backup.pc = "reading" /\ run' = run /\ source' = source
    BY <1>23 DEF BackupEnds, systemVars
  <2>2. maintenance = Archiver
    BY <2>1 DEF LockInv
  <2>3. \A w \in Runs : run[w].pc # "installing"
    BY <2>2, UpdateAssumption, StepsApart DEF LockInv, Runs
  <2>4. (\A p \in Parts : backup.copy[p] # Down) => backup.copy = source
    BY <1>0, <2>1 DEF BackupInv
  <2>5. published' = published \/ published' = published \cup {source}
    BY <1>23, <2>4 DEF BackupEnds
  <2>6. NothingTorn' => NothingTorn
    BY <2>1 DEF NothingTorn
  <2> QED BY <2>1, <2>3, <2>5, <2>6 DEF SourceInv, Whole
<1>24. CASE ServiceRestarts
  BY <1>19, <1>24 DEF ServiceRestarts
<1> QED
  BY <1>1, <1>3, <1>4, <1>5, <1>6, <1>7, <1>8, <1>9, <1>10, <1>12, <1>13, <1>14, <1>15, <1>16, <1>17, <1>18,
     <1>20, <1>21, <1>22, <1>23, <1>24
  DEF ScriptStep, OtherStep, Step

LEMMA BackupStep ==
    ASSUME ScriptTypeOK, LockInv, BackupInv, ScriptStep
    PROVE  BackupInv'
<1>1. CASE backup' = backup /\ source' = source
  BY <1>1 DEF BackupInv
<1>2. ASSUME NEW u \in Runs, run[u].pc \in Locked, backup' = backup PROVE BackupInv'
  BY <1>2, Alone DEF BackupInv
<1>3. ASSUME NEW u \in Runs, NEW p \in Parts, InstallPart(u, p) PROVE BackupInv'
  BY <1>2, <1>3, StepsApart DEF InstallPart, At
<1>4. ASSUME NEW u \in Runs, Fail(u) PROVE BackupInv'
  BY <1>2, <1>4 DEF Fail
<1>5. CASE BackupBegins
  BY <1>5 DEF BackupBegins, BackupInv, NoBackup, Tree
<1>6. ASSUME NEW p \in Parts, BackupReads(p) PROVE BackupInv'
  <2>1. backup \in [pc : {"idle", "reading"}, copy : [Parts -> Versions \cup {Down}]]
    BY TypesInParts DEF ThingsTyped
  <2>2. backup'.copy = [backup.copy EXCEPT ![p] = source[p]] /\ source' = source /\ backup.pc = "reading"
    BY <1>6, <2>1 DEF BackupReads, systemVars
  <2> QED BY <2>1, <2>2 DEF BackupInv
<1>7. CASE BackupEnds
  BY <1>7 DEF BackupEnds, BackupInv, NoBackup
<1>8. ASSUME NEW x \in ByHand, RunByHand(x[1], x[2]) PROVE BackupInv'
  BY <1>1, <1>8 DEF RunByHand, systemVars
<1>9. ASSUME NEW u \in Runs, MarkArchive(u) \/ Step(u) \/ InstallAgent(u) \/ ComposeUp(u) \/ Kill(u) PROVE BackupInv'
  BY <1>1, <1>3, <1>9
  DEF Step, MarkArchive, Execute, WrapperFails, TakeLock, NotStarted, Stage, Plan, Render, SyncHost, Finish,
      InstallAgent, ComposeUp, Kill, systemVars
<1>10. CASE AgentRestarts \/ ServiceRestarts
  BY <1>1, <1>10 DEF AgentRestarts, ServiceRestarts
<1> QED BY <1>3, <1>4, <1>5, <1>6, <1>7, <1>8, <1>9, <1>10 DEF ScriptStep, OtherStep

\* The records of the others say nothing while run u holds the lock.
LEMMA BroughtAlone ==
    ASSUME LockInv, NEW u \in Runs, run[u].pc \in Locked, \A w \in Runs \ {u} : run'[w] = run[w],
           AgentInv', Brought(run[u])'
    PROVE  BroughtInv'
<1>1. \A w \in Runs \ {u} : run'[w].pc \notin Locked
  BY Alone
<1>2. ASSUME NEW w \in Runs \ {u} PROVE Brought(run[w])'
  BY <1>1, StepsApart DEF Brought
<1> QED BY <1>2 DEF BroughtInv

\* What happens beside the lock changes nothing of it.
LEMMA BroughtBeside ==
    ASSUME BroughtInv, NEW u \in Runs, run'[u].pc \notin Locked, \A w \in Runs \ {u} : run'[w] = run[w],
           UNCHANGED systemVars, faults'.restart = 0 => faults.restart = 0
    PROVE  BroughtInv'
<1>1. Brought(run[u])'
  BY StepsApart DEF Brought
<1>2. ASSUME NEW w \in Runs \ {u} PROVE Brought(run[w])'
  BY DEF BroughtInv, Brought, systemVars
<1>3. AgentInv'
  BY DEF BroughtInv, AgentInv, systemVars
<1> QED BY <1>1, <1>2, <1>3 DEF BroughtInv

\* A step of the agent leaves its code and its fingerprint together, unless it is counted.
LEMMA AgentHalf ==
    ASSUME ThingsTyped, AgentInv, NEW new \in AgentHalfInstalled, faults.restart = 0, FailedAs(new) # "restart"
    PROVE  new.runs \in {new.saved, Down}
<1>1. agent \in [runs : Versions \cup {Down}, saved : Versions] /\ source["agent"] \in Versions
  BY DEF ThingsTyped, Parts
<1>2. new.saved = agent.saved
  BY <1>1 DEF AgentHalfInstalled, Restarted
<1>3. new.runs \in {agent.runs, agent.saved, Down}
  BY DEF FailedAs
<1> QED BY <1>2, <1>3 DEF AgentInv

LEMMA BroughtStep ==
    ASSUME ScriptTypeOK, BegunInv, LockInv, BroughtInv, ScriptStep
    PROVE  BroughtInv'
<1>0. ThingsTyped /\ run \in [Runs -> RunRecord] /\ faults \in Faults
  BY TypesInParts
<1>1. \A kind : Happens(kind) => (faults'.restart = 0 => faults.restart = 0 /\ kind # "restart")
  BY <1>0, FaultCounted
<1>2. ASSUME NEW x \in ByHand, RunByHand(x[1], x[2]) PROVE BroughtInv'
  <2> DEFINE r == [NoRun EXCEPT !.pc = "waiting", !.archive = x[1], !.mode = x[2]]
  <2>1. r.pc = "waiting"
    BY DEF NoRun
  <2>2. PICK w \in Runs : run[w].pc = "unused" /\ run' = [run EXCEPT ![w] = r]
    BY <1>2, RunByHandBegins, BeginsTyped
  <2> HIDE DEF r
  <2>3. run'[w].pc = "waiting" /\ \A u \in Runs \ {w} : run'[u] = run[u]
    BY <1>0, <2>1, <2>2
  <2>4. "waiting" \notin Locked
    BY StepsApart
  <2> QED BY <1>2, <2>3, <2>4, BroughtBeside DEF RunByHand
<1>3. ASSUME NEW u \in Runs, NEW pc, Goes(u, pc), pc \notin Locked, UNCHANGED systemVars,
             UNCHANGED faults \/ \E kind : Happens(kind)
      PROVE  BroughtInv'
  BY <1>1, <1>3, BroughtBeside DEF Goes
<1>4. ASSUME NEW u \in Runs, MarkArchive(u) PROVE BroughtInv'
  BY <1>3, <1>4, StepGoes, StepsApart DEF MarkArchive
<1>5. ASSUME NEW u \in Runs, Execute(u) PROVE BroughtInv'
  BY <1>3, <1>5, StepGoes, StepsApart DEF Execute
<1>6. ASSUME NEW u \in Runs, WrapperFails(u) PROVE BroughtInv'
  BY <1>3, <1>6, StepGoes, StepsApart DEF WrapperFails
<1>7. ASSUME NEW u \in Runs, NotStarted(u) PROVE BroughtInv'
  BY <1>3, <1>7, StepGoes, StepsApart DEF NotStarted
<1>8. ASSUME NEW u \in Runs, Finish(u) PROVE BroughtInv'
  BY <1>3, <1>8, StepGoes, StepsApart DEF Finish
<1>9. ASSUME NEW u \in Runs, Kill(u) PROVE BroughtInv'
  <2>1. run'[u].pc \notin Locked /\ \A w \in Runs \ {u} : run'[w] = run[w]
    BY <1>9, StepGoes, StepsApart DEF Kill, Goes
  <2>2. HalfDone(u) /\ Happens(FailedAs(agent')) /\ UNCHANGED <<source, images>>
    BY <1>9 DEF Kill
  <2>3. CASE run[u].pc \in Waiting
    <3>1. UNCHANGED systemVars
      BY <2>2, <2>3 DEF HalfDone, AtRender, AtAgent, At, Waiting, systemVars
    <3> QED BY <1>1, <2>1, <2>2, <3>1, BroughtBeside
  <2>4. CASE run[u].pc \in Locked
    <3>1. faults'.restart = 0 => faults.restart = 0 /\ FailedAs(agent') # "restart"
      BY <1>1, <2>2
    <3>2. agent' = agent \/ agent' \in AgentHalfInstalled
      BY <2>2 DEF HalfDone
    <3>3. AgentInv'
      BY <1>0, <3>1, <3>2, AgentHalf DEF AgentInv, BroughtInv
    <3>4. Brought(run[u])'
      BY <2>1, StepsApart DEF Brought
    <3> QED BY <2>1, <2>4, <3>3, <3>4, BroughtAlone
  <2> QED BY <1>9, <2>3, <2>4 DEF Kill
<1>10. ASSUME NEW u \in Runs, TakeLock(u) PROVE BroughtInv'
  <2>1. run'[u].pc = "locked" /\ \A w \in Runs \ {u} : run'[w] = run[w]
    BY <1>10, StepGoes DEF Goes
  <2>2. Brought(run[u])'
    BY <2>1, StepsApart DEF Brought
  <2>3. ASSUME NEW w \in Runs \ {u} PROVE Brought(run[w])'
    BY <1>10, <2>1 DEF TakeLock, BroughtInv, Brought, systemVars
  <2>4. AgentInv'
    BY <1>10 DEF TakeLock, BroughtInv, AgentInv, systemVars
  <2> QED BY <2>2, <2>3, <2>4 DEF BroughtInv
<1>11. ASSUME NEW u \in Runs, Stage(u) PROVE BroughtInv'
  <2>1. run'[u].pc = "installing" /\ \A w \in Runs \ {u} : run'[w] = run[w]
    BY <1>11, StageGoes
  <2>2. Brought(run[u])'
    <3>1. run'[u].found = containers.service /\ containers' = containers
      BY <1>11, StageGoes DEF Stage, systemVars
    <3> QED BY <2>1, <3>1 DEF Brought
  <2>3. AgentInv'
    BY <1>11 DEF Stage, BroughtInv, AgentInv, systemVars
  <2>4. run[u].pc \in Locked
    BY <1>11, StepsApart DEF Stage, At
  <2> QED BY <2>1, <2>2, <2>3, <2>4, BroughtAlone
<1>12. ASSUME NEW u \in Runs, NEW p \in Parts, InstallPart(u, p) PROVE BroughtInv'
  <2>1. run' = run /\ run[u].pc = "installing"
    BY <1>12 DEF InstallPart, At
  <2>2. Brought(run[u])'
    BY <1>12, <2>1 DEF InstallPart, BroughtInv, Brought
  <2>3. AgentInv'
    BY <1>12 DEF InstallPart, BroughtInv, AgentInv
  <2>4. run[u].pc \in Locked
    BY <2>1, StepsApart
  <2> QED BY <2>1, <2>2, <2>3, <2>4, BroughtAlone
<1>13. ASSUME NEW u \in Runs, NEW read \in {"read", "lost"}, Plan(u, read) PROVE BroughtInv'
  <2>1. /\ run'[u].pc = "planned" /\ run'[u].archive = run[u].archive /\ run'[u].mode = run[u].mode
        /\ run'[u].found = run[u].found /\ \A w \in Runs \ {u} : run'[w] = run[w]
    BY <1>13, PlanGoes
  <2>2. Brought(run[u])'
    <3>1. Brought(run[u]) /\ run[u].pc \in SourcesChanged
      BY <1>13, StepsApart DEF Plan, At, BroughtInv
    <3> QED BY <1>13, <2>1, <3>1 DEF Plan, Brought
  <2>3. AgentInv'
    BY <1>1, <1>13 DEF Plan, BroughtInv, AgentInv
  <2>4. run[u].pc \in Locked
    BY <1>13, StepsApart DEF Plan, At
  <2> QED BY <2>1, <2>2, <2>3, <2>4, BroughtAlone
<1>14. ASSUME NEW u \in Runs, Brought(run[u]), run[u].pc \in Locked, NEW pc \in Locked, Goes(u, pc), AgentInv'
       PROVE  /\ Brought(run[u])' => BroughtInv'
              /\ run'[u].pc = pc /\ run'[u].archive = run[u].archive /\ run'[u].mode = run[u].mode
              /\ run'[u].plan = run[u].plan /\ run'[u].found = run[u].found
  <2>1. pc \notin Ended
    BY StepsApart
  <2> QED BY <1>14, <2>1, BroughtAlone DEF Goes
<1>15. ASSUME NEW u \in Runs, Render(u) PROVE BroughtInv'
  <2>1. run[u].pc = "planned" /\ run[u].mode = "full" /\ Goes(u, "rendered") /\ Brought(run[u])
    BY <1>15, StepGoes DEF Render, AtRender, At, BroughtInv
  <2>2. run[u].pc \in Locked /\ "rendered" \in Locked
    BY <2>1, StepsApart
  <2>3. AgentInv'
    BY <1>15 DEF Render, BroughtInv, AgentInv
  <2>4. source["rest"] = run[u].archive /\ source = Tree(run[u].archive)
    BY <2>1 DEF Brought, Tree, Parts
  <2>5. /\ run'[u].pc = "rendered" /\ run'[u].archive = run[u].archive /\ run'[u].mode = run[u].mode
        /\ run'[u].found = run[u].found
    BY <1>14, <2>1, <2>2, <2>3
  <2>6. Brought(run[u])'
    BY <1>15, <2>1, <2>4, <2>5, StepsApart DEF Render, Brought
  <2> QED BY <1>14, <2>1, <2>2, <2>3, <2>6
<1>16. ASSUME NEW u \in Runs, InstallAgent(u) PROVE BroughtInv'
  <2>1. /\ run[u].pc \in {"planned", "rendered"} /\ Brought(run[u]) /\ agent' = AgentInstalled(u)
        /\ UNCHANGED <<source, generated, images, containers, faults>>
    BY <1>16 DEF InstallAgent, AtAgent, BroughtInv
  <2>2. run[u].pc \in Locked /\ "agented" \in Locked
    BY <2>1, StepsApart
  <2>3. agent \in [runs : Versions \cup {Down}, saved : Versions] /\ source["agent"] \in Versions /\ Down \notin Versions
    BY <1>0, UpdateAssumption DEF ThingsTyped, Parts, Versions
  <2>4. source["agent"] = run[u].archive
    BY <2>1 DEF Brought, Tree, Parts
  <2>7. AgentInv' /\ (run[u].plan = "read" => (faults.restart = 0 => agent'.runs = run[u].archive))
    <3>1. CASE run[u].plan = "read"
      <4>1. agent'.saved = source["agent"]
        BY <2>1, <2>3, <3>1 DEF AgentInstalled, Restarted
      <4>2. agent'.runs = IF RestartRequired THEN source["agent"] ELSE agent.runs
        BY <2>1, <2>3, <3>1 DEF AgentInstalled, Restarted
      <4>3. faults.restart = 0 => agent'.runs = source["agent"]
        BY <4>2 DEF RestartRequired, BroughtInv, AgentInv
      <4> QED BY <2>1, <2>4, <4>1, <4>3 DEF AgentInv
    <3>2. CASE run[u].plan # "read"
      BY <2>1, <2>3, <3>2 DEF AgentInstalled, AgentInv
    <3> QED BY <3>1, <3>2
  <2>8. CASE run[u].mode = "full"
    <3>1. Goes(u, "agented") /\ run[u].pc = "rendered"
      BY <1>16, <2>8, StepGoes DEF InstallAgent, AtAgent
    <3>2. /\ run'[u].pc = "agented" /\ run'[u].archive = run[u].archive /\ run'[u].mode = run[u].mode
          /\ run'[u].plan = run[u].plan /\ run'[u].found = run[u].found
      BY <1>14, <2>1, <2>2, <2>7, <3>1
    <3>3. Brought(run[u])'
      BY <2>1, <2>7, <3>1, <3>2, StepsApart DEF Brought
    <3> QED BY <1>14, <2>1, <2>2, <2>7, <3>1, <3>3
  <2>9. CASE run[u].mode # "full"
    <3>1. run'[u].pc = "ok" /\ \A w \in Runs \ {u} : run'[w] = run[w]
      BY <1>16, <2>9, StepGoes DEF Goes
    <3>2. Brought(run[u])'
      BY <3>1, StepsApart DEF Brought
    <3> QED BY <2>2, <2>7, <3>1, <3>2, BroughtAlone
  <2> QED BY <2>8, <2>9
<1>17. ASSUME NEW u \in Runs, SyncHost(u) PROVE BroughtInv'
  <2>1. run[u].pc = "agented" /\ Goes(u, "synced") /\ Brought(run[u])
    BY <1>17, StepGoes DEF SyncHost, At, BroughtInv
  <2>2. run[u].pc \in Locked /\ "synced" \in Locked
    BY <2>1, StepsApart
  <2>3. AgentInv'
    BY <1>17 DEF SyncHost, BroughtInv, AgentInv
  <2>4. generated.config = run[u].archive
    BY <2>1, StepsApart DEF Brought
  <2>5. /\ run'[u].pc = "synced" /\ run'[u].archive = run[u].archive /\ run'[u].mode = run[u].mode
        /\ run'[u].plan = run[u].plan /\ run'[u].found = run[u].found
    BY <1>14, <2>1, <2>2, <2>3
  <2>6. Brought(run[u])'
    BY <1>17, <2>1, <2>4, <2>5, StepsApart DEF SyncHost, Brought
  <2> QED BY <1>14, <2>1, <2>2, <2>3, <2>6
<1>18. ASSUME NEW u \in Runs, ComposeUp(u) PROVE BroughtInv'
  <2>1. run[u].pc = "synced" /\ Goes(u, "composed") /\ Brought(run[u])
    BY <1>18, StepGoes DEF ComposeUp, At, BroughtInv
  <2>2. run[u].pc \in Locked /\ "composed" \in Locked
    BY <2>1, StepsApart
  <2>3. AgentInv'
    BY <1>18 DEF ComposeUp, BroughtInv, AgentInv
  <2>4. Built(u) = run[u].archive
    BY <2>1 DEF Brought, Built, Tree, Parts
  <2>5. /\ run'[u].pc = "composed" /\ run'[u].archive = run[u].archive /\ run'[u].mode = run[u].mode
        /\ run'[u].plan = run[u].plan /\ run'[u].found = run[u].found
    BY <1>14, <2>1, <2>2, <2>3
  <2>6. Brought(run[u])'
    <3>1. run[u].archive \in Versions /\ run[u].found = containers.service /\ generated.config = run[u].archive
      BY <1>0, <2>1 DEF RunRecord, Brought
    <3>2. run[u].plan = "read" =>
            /\ containers'.portal = Definition("portal", run[u].archive)
            /\ containers'.service = Definition("service", run[u].archive)
            /\ run[u].found # Definition("service", run[u].archive) => containers'.loaded = run[u].archive
      BY <1>0, <1>18, <2>4, <3>1, ComposedTyped DEF ComposeUp
    <3>3. "composed" \notin SourcesChanged
      BY StepsApart
    <3> QED BY <1>18, <2>1, <2>5, <3>2, <3>3 DEF ComposeUp, Brought
  <2> QED BY <1>14, <2>1, <2>2, <2>3, <2>6
<1>19. ASSUME NEW u \in Runs, Fail(u) PROVE BroughtInv'
  <2>1. run'[u].pc = "failed" /\ (\A w \in Runs \ {u} : run'[w] = run[w]) /\ run[u].pc \in Locked
    BY <1>19, StepGoes DEF Fail, Goes
  <2>2. Brought(run[u])'
    BY <2>1, StepsApart DEF Brought
  <2>5. AgentInv'
    <3>1. CASE Happens(FailedAs(agent'))
      <4>1. faults'.restart = 0 => faults.restart = 0 /\ FailedAs(agent') # "restart"
        BY <1>1, <3>1
      <4>2. agent' = agent \/ agent' \in AgentHalfInstalled
        BY <1>19 DEF Fail, HalfDone
      <4> QED BY <1>0, <4>1, <4>2, AgentHalf DEF AgentInv, BroughtInv
    <3>2. CASE ~ Happens(FailedAs(agent'))
      <4>1. UNCHANGED faults /\ run[u].pc = "locked"
        BY <1>19, <3>2 DEF Fail, At
      <4>2. agent' = agent
        BY <1>19, <4>1 DEF Fail, HalfDone, AtAgent
      <4> QED BY <4>1, <4>2 DEF AgentInv, BroughtInv
    <3> QED BY <3>1, <3>2
  <2> QED BY <2>1, <2>2, <2>5, BroughtAlone
<1>20. CASE AgentRestarts
  <2>1. /\ agent \in [runs : Versions \cup {Down}, saved : Versions] /\ agent.runs # Down
        /\ agent' = [agent EXCEPT !.runs = source["agent"]] /\ source["agent"] \in Versions
        /\ UNCHANGED <<run, source, generated, images, host, containers>>
    BY <1>0, <1>20 DEF AgentRestarts, ThingsTyped, Parts
  <2>2. agent'.runs = source["agent"] /\ agent'.saved = agent.saved /\ source["agent"] # Down
    BY <2>1, UpdateAssumption DEF Versions
  <2>3. faults'.restart = 0 => /\ faults.restart = 0
                              /\ agent.runs = agent.saved /\ agent'.runs = agent.runs
    BY <1>1, <1>20, <2>1, <2>2 DEF AgentRestarts, FailedAs, BroughtInv, AgentInv
  <2>4. AgentInv'
    BY <2>2, <2>3 DEF AgentInv
  <2>5. ASSUME NEW u \in Runs PROVE Brought(run[u])'
    BY <2>1, <2>3 DEF BroughtInv, Brought
  <2> QED BY <2>4, <2>5 DEF BroughtInv
<1>25. CASE ServiceRestarts
  <2>1. containers' = [containers EXCEPT !.loaded = generated.config] /\ containers \in Containers
    BY <1>0, <1>25 DEF ServiceRestarts, ThingsTyped
  <2>2. containers'.portal = containers.portal /\ containers'.service = containers.service
        /\ containers'.loaded = generated.config
    BY <2>1 DEF Containers
  <2>3. faults'.restart = 0 => faults.restart = 0
    BY <1>1, <1>25 DEF ServiceRestarts
  <2>4. UNCHANGED <<run, source, generated, images, agent, host>>
    BY <1>25 DEF ServiceRestarts
  <2>5. ASSUME NEW u \in Runs PROVE Brought(run[u])'
    BY <2>2, <2>3, <2>4 DEF BroughtInv, Brought
  <2>6. AgentInv'
    BY <2>3, <2>4 DEF BroughtInv, AgentInv
  <2> QED BY <2>4, <2>5, <2>6 DEF BroughtInv
<1>21. ASSUME run' = run, UNCHANGED systemVars, faults'.restart = 0 => faults.restart = 0 PROVE BroughtInv'
  BY <1>21 DEF BroughtInv, AgentInv, Brought, systemVars
<1>22. CASE BackupBegins
  BY <1>1, <1>21, <1>22 DEF BackupBegins
<1>23. ASSUME NEW p \in Parts, BackupReads(p) PROVE BroughtInv'
  BY <1>21, <1>23 DEF BackupReads
<1>24. CASE BackupEnds
  BY <1>21, <1>24 DEF BackupEnds
<1> QED
  BY <1>2, <1>4, <1>5, <1>6, <1>7, <1>8, <1>9, <1>10, <1>11, <1>12, <1>13, <1>15, <1>16, <1>17, <1>18, <1>19,
     <1>20, <1>22, <1>23, <1>24, <1>25
  DEF ScriptStep, OtherStep, Step

(***************************************************************************)
(* What each action of the portal and of the agent does.                   *)
(***************************************************************************)

RowRecord == [row : Nat, status : {"none", "ready", "starting", "started"}]
ReqRecord ==
    [pc : {"free", "cleaning", "forgetting", "saving", "waiting", "publishing", "removing"}, archive : Versions,
     todo : SUBSET Archives, target : Versions]
CallRecord ==
    [pc : {"none", "done"} \cup InAgent, method : {"none", "inspect", "prepare", "update"},
     archive : Versions, row : Nat, mode : {"full", "bootstrap-only"}, ok : BOOLEAN]

PortalTyped ==
    /\ rows \in [Archives -> RowRecord] /\ old \subseteq Archives
    /\ req \in [Requests -> ReqRecord] /\ call \in [Requests -> CallRecord]
    /\ mutating \in Requests \cup {Nobody}
    /\ made \in [rows : Nat, uploads : SUBSET Uploads, replaced : BOOLEAN, overtaken : SUBSET Runs]

LEMMA PortalInParts == TypeOK <=> ScriptTypeOK /\ PortalTyped
  BY DEF TypeOK, PortalTyped, RowRecord, ReqRecord, CallRecord

LEMMA EmptyTyped == NoRow \in RowRecord /\ NoRequest \in ReqRecord /\ NoCall \in CallRecord
  BY DEF NoRow, RowRecord, NoRequest, ReqRecord, NoCall, CallRecord, Versions, InAgent

\* Request r goes on, and nobody else's.
ReqGoes(r, pc) ==
    /\ req' \in [Requests -> ReqRecord]
    /\ req'[r].pc = pc
    /\ \A q \in Requests \ {r} : req'[q] = req[q]

LEMMA MoveGoes ==
    ASSUME req \in [Requests -> ReqRecord], NEW r \in Requests,
           NEW pc \in {"saving", "waiting", "publishing"}, NEW a \in Versions, Move(r, pc, a)
    PROVE  ReqGoes(r, pc) /\ req'[r].archive = a
<1> DEFINE new == [NoRequest EXCEPT !.pc = pc, !.archive = a]
<1>1. new \in ReqRecord /\ new.pc = pc /\ new.archive = a
  BY EmptyTyped DEF ReqRecord, NoRequest
<1>2. req' = [req EXCEPT ![r] = new]
  BY DEF Move
<1> HIDE DEF new
<1> QED BY <1>1, <1>2 DEF ReqGoes

LEMMA RemoveGoes ==
    ASSUME req \in [Requests -> ReqRecord], NEW r \in Requests, NEW S \in SUBSET Archives, ThenRemove(r, S)
    PROVE  ReqGoes(r, "free") \/ ReqGoes(r, "removing")
<1> DEFINE new == [NoRequest EXCEPT !.pc = "removing", !.todo = S]
<1>1. new \in ReqRecord /\ new.pc = "removing" /\ NoRequest \in ReqRecord /\ NoRequest.pc = "free"
  BY EmptyTyped DEF ReqRecord, NoRequest
<1>2. req' = [req EXCEPT ![r] = IF S = {} THEN NoRequest ELSE new]
  BY DEF ThenRemove
<1> HIDE DEF new
<1> QED BY <1>1, <1>2 DEF ReqGoes

LEMMA DoneGoes ==
    ASSUME req \in [Requests -> ReqRecord], NEW r \in Requests, Done(r)
    PROVE  ReqGoes(r, "free")
<1>1. NoRequest \in ReqRecord /\ NoRequest.pc = "free"
  BY EmptyTyped DEF NoRequest
<1> QED BY <1>1 DEF ReqGoes, Done

LEMMA LoopGoes ==
    ASSUME req \in [Requests -> ReqRecord], NEW r \in Requests, req[r].pc \in {"cleaning", "forgetting", "removing"},
           NEW todo \in SUBSET Archives, NEW target \in Versions, Loop(r, todo, target)
    PROVE  \/ ReqGoes(r, "free") /\ req'[r].target = Original
           \/ ReqGoes(r, "removing") /\ req'[r].target = target
           \/ /\ ReqGoes(r, "cleaning") /\ req[r].pc # "removing"
              /\ req'[r].target = target /\ req'[r].archive = req[r].archive
<1> DEFINE new == [req[r] EXCEPT !.pc = IF @ = "forgetting" THEN "cleaning" ELSE @, !.todo = todo, !.target = target]
<1>1. /\ new \in ReqRecord /\ new.pc = (IF req[r].pc = "forgetting" THEN "cleaning" ELSE req[r].pc)
      /\ new.target = target /\ new.archive = req[r].archive
  BY DEF ReqRecord
<1>2. NoRequest \in ReqRecord /\ NoRequest.pc = "free" /\ NoRequest.target = Original
  BY EmptyTyped DEF NoRequest
<1>3. req' = [req EXCEPT ![r] = IF todo = {} /\ target = Original /\ req[r].pc = "removing" THEN NoRequest ELSE new]
  BY DEF Loop
<1> HIDE DEF new
<1>4. CASE todo = {} /\ target = Original /\ req[r].pc = "removing"
  BY <1>2, <1>3, <1>4 DEF ReqGoes
<1>5. CASE ~ (todo = {} /\ target = Original /\ req[r].pc = "removing")
  <2>1. req' = [req EXCEPT ![r] = new]
    BY <1>3, <1>5
  <2> QED BY <1>1, <2>1 DEF ReqGoes
<1> QED BY <1>4, <1>5

LEMMA BeginsGoes ==
    ASSUME PortalTyped, NEW r \in Requests, NEW a \in Archives, UploadBegins(r, a)
    PROVE  /\ ReqGoes(r, "cleaning") /\ req'[r].archive = a /\ req[r].pc = "free"
           /\ UNCHANGED <<scriptVars, rows, old, call, mutating>> /\ a \in Uploads \ made.uploads
           /\ made' \in [rows : Nat, uploads : SUBSET Uploads, replaced : BOOLEAN, overtaken : SUBSET Runs]
           /\ made'.rows = made.rows /\ made'.uploads = made.uploads \cup {a} /\ made'.replaced = made.replaced
           /\ made'.overtaken = made.overtaken
<1> DEFINE new == [NoRequest EXCEPT !.pc = "cleaning", !.archive = a, !.todo = old]
<1>1. new \in ReqRecord /\ new.pc = "cleaning" /\ new.archive = a
  BY EmptyTyped DEF ReqRecord, NoRequest, PortalTyped, Versions
<1>2. req' = [req EXCEPT ![r] = new]
  BY DEF UploadBegins
<1>3. /\ req[r].pc = "free" /\ UNCHANGED <<scriptVars, rows, old, call, mutating>> /\ a \in Uploads \ made.uploads
      /\ made' = [made EXCEPT !.uploads = @ \cup {a}]
  BY DEF UploadBegins, Idle
<1> HIDE DEF new
<1>4. ReqGoes(r, "cleaning") /\ req'[r].archive = a
  BY <1>1, <1>2 DEF ReqGoes, PortalTyped
<1>5. /\ made' \in [rows : Nat, uploads : SUBSET Uploads, replaced : BOOLEAN, overtaken : SUBSET Runs]
      /\ made'.rows = made.rows /\ made'.uploads = made.uploads \cup {a} /\ made'.replaced = made.replaced
      /\ made'.overtaken = made.overtaken
  BY <1>3 DEF PortalTyped
<1> QED BY <1>3, <1>4, <1>5

\* A step of the removal of archives.
Tidies(r) == Admit(r) \/ RemoveRow(r) \/ \E a \in Archives : CheckMarker(r, a) \/ RemoveArchive(r, a)

LEMMA TidiesDoes ==
    ASSUME PortalTyped, NEW r \in Requests, Tidies(r)
    PROVE  /\ req[r].pc \in {"cleaning", "forgetting", "removing"}
           /\ \/ ReqGoes(r, "free") \/ ReqGoes(r, "removing")
              \/ /\ \E pc \in {"cleaning", "forgetting", "saving"} : ReqGoes(r, pc)
                 /\ req[r].pc \in {"cleaning", "forgetting"} /\ req'[r].archive = req[r].archive
           /\ UNCHANGED <<run, runVars, faults, call, mutating, made>>
           /\ archives' \subseteq archives /\ old' \subseteq old
           /\ rows' \in [Archives -> RowRecord] /\ \A b \in Archives : rows'[b] = rows[b] \/ rows'[b] = NoRow
           /\ archives' = archives \/ \E a \in Archives : Checked(r, a) /\ archives' = archives \ {a}
           /\ \A a \in Archives : Checked(r, a)' => Checked(r, a) \/ a \notin markers
<1>0. /\ req \in [Requests -> ReqRecord] /\ req[r] \in ReqRecord /\ rows \in [Archives -> RowRecord]
      /\ Original \in Versions /\ Original \notin Archives /\ Archives \subseteq Versions
  BY UpdateAssumption DEF PortalTyped, Versions
<1> DEFINE Ok ==
           /\ req[r].pc \in {"cleaning", "forgetting", "removing"}
           /\ \/ ReqGoes(r, "free") \/ ReqGoes(r, "removing")
              \/ /\ \E pc \in {"cleaning", "forgetting", "saving"} : ReqGoes(r, pc)
                 /\ req[r].pc \in {"cleaning", "forgetting"} /\ req'[r].archive = req[r].archive
           /\ UNCHANGED <<run, runVars, faults, call, mutating, made>>
           /\ archives' \subseteq archives /\ old' \subseteq old
           /\ rows' \in [Archives -> RowRecord] /\ \A b \in Archives : rows'[b] = rows[b] \/ rows'[b] = NoRow
           /\ archives' = archives \/ \E a \in Archives : Checked(r, a) /\ archives' = archives \ {a}
           /\ \A a \in Archives : Checked(r, a)' => Checked(r, a) \/ a \notin markers
<1>1. CASE Admit(r)
  <2>1. req[r].pc = "cleaning" /\ UNCHANGED <<scriptVars, rows, old, call, mutating, made>>
    BY <1>1 DEF Admit
  <2>2. ReqGoes(r, "free") \/ (ReqGoes(r, "saving") /\ req'[r].archive = req[r].archive)
    BY <1>0, <1>1, MoveGoes, DoneGoes DEF Admit, ReqRecord
  <2>3. \A a \in Archives : ~ Checked(r, a)'
    BY <2>2 DEF Checked, ReqGoes
  <2> QED BY <1>0, <2>1, <2>2, <2>3 DEF scriptVars, runVars
<1>2. CASE RemoveRow(r)
  <2>1. /\ req[r].pc = "forgetting" /\ UNCHANGED <<scriptVars, old, call, mutating, made>>
        /\ Loop(r, req[r].todo, Original) /\ rows' = [rows EXCEPT ![req[r].target] = NoRow]
    BY <1>2 DEF RemoveRow
  <2>2. req[r].todo \in SUBSET Archives
    BY <1>0 DEF ReqRecord
  <2>3. /\ ReqGoes(r, "free") \/ ReqGoes(r, "removing") \/ (ReqGoes(r, "cleaning") /\ req'[r].archive = req[r].archive)
        /\ req'[r].target = Original
    BY <1>0, <2>1, <2>2, LoopGoes
  <2>4. \A a \in Archives : ~ Checked(r, a)'
    BY <1>0, <2>3 DEF Checked
  <2>5. rows' \in [Archives -> RowRecord] /\ \A b \in Archives : rows'[b] = rows[b] \/ rows'[b] = NoRow
    BY <1>0, <2>1, EmptyTyped
  <2> QED BY <2>1, <2>3, <2>4, <2>5 DEF scriptVars, runVars
<1>3. ASSUME NEW a \in Archives, CheckMarker(r, a) PROVE Ok
  <2> DEFINE target == IF a \in InUse(r) THEN Original ELSE a
  <2>1. /\ req[r].pc \in {"cleaning", "removing"} /\ UNCHANGED <<scriptVars, rows, old, call, mutating, made>>
        /\ Loop(r, req[r].todo \ {a}, target)
    BY <1>3 DEF CheckMarker, Checked
  <2>2. req[r].todo \ {a} \in SUBSET Archives /\ target \in Versions /\ (target # Original => target \notin markers)
    BY <1>0 DEF ReqRecord, InUse
  <2> HIDE DEF target
  <2>3. /\ \/ ReqGoes(r, "free") \/ ReqGoes(r, "removing")
           \/ ReqGoes(r, "cleaning") /\ req[r].pc = "cleaning" /\ req'[r].archive = req[r].archive
        /\ req'[r].target = Original \/ req'[r].target = target
    BY <1>0, <2>1, <2>2, LoopGoes
  <2>4. \A b \in Archives : Checked(r, b)' => b \notin markers
    BY <1>0, <2>2, <2>3 DEF Checked
  <2> QED BY <1>0, <2>1, <2>3, <2>4 DEF scriptVars, runVars
<1>4. ASSUME NEW a \in Archives, RemoveArchive(r, a) PROVE Ok
  <2>1. /\ Checked(r, a) /\ UNCHANGED <<runVars, run, faults, rows, call, mutating, made>>
        /\ archives' = archives \ {a} /\ old' = old \ {a}
    BY <1>4 DEF RemoveArchive, Remove
  <2>2. req[r].pc \in {"cleaning", "removing"} /\ req[r].todo \in SUBSET Archives
    BY <1>0, <2>1 DEF Checked, ReqRecord
  <2>3. CASE req[r].pc = "cleaning" /\ req' = [req EXCEPT ![r].pc = "forgetting"]
    <3>1. ReqGoes(r, "forgetting") /\ req'[r].archive = req[r].archive
      BY <1>0, <2>3 DEF ReqGoes, ReqRecord
    <3>2. \A b \in Archives : ~ Checked(r, b)'
      BY <3>1 DEF Checked, ReqGoes
    <3> QED BY <1>0, <2>1, <2>3, <3>1, <3>2
  <2>4. CASE Loop(r, req[r].todo, Original)
    <3>1. /\ \/ ReqGoes(r, "free") \/ ReqGoes(r, "removing")
             \/ ReqGoes(r, "cleaning") /\ req[r].pc = "cleaning" /\ req'[r].archive = req[r].archive
          /\ req'[r].target = Original
      BY <1>0, <2>2, <2>4, LoopGoes
    <3>2. \A b \in Archives : ~ Checked(r, b)'
      BY <1>0, <3>1 DEF Checked
    <3> QED BY <1>0, <2>1, <2>2, <3>1, <3>2
  <2> QED BY <1>4, <2>3, <2>4 DEF RemoveArchive
<1> QED BY <1>1, <1>2, <1>3, <1>4 DEF Tidies

\* The call of r is another one now.
CallGoes(r, c) ==
    /\ call' \in [Requests -> CallRecord]
    /\ call'[r] = c /\ \A q \in Requests \ {r} : call'[q] = call[q]

LEMMA AskGoes ==
    ASSUME PortalTyped, NEW r \in Requests, NEW method \in {"inspect", "prepare", "update"}, NEW a \in Versions,
           NEW row \in Nat, NEW mode \in {"full", "bootstrap-only"}, Ask(r, method, a, row, mode)
    PROVE  /\ ReqGoes(r, "waiting") /\ req'[r].archive = a
           /\ CallGoes(r, [pc |-> "asked", method |-> method, archive |-> a, row |-> row, mode |-> mode, ok |-> FALSE])
<1>1. ReqGoes(r, "waiting") /\ req'[r].archive = a
  BY MoveGoes DEF PortalTyped, Ask
<1>2. [pc |-> "asked", method |-> method, archive |-> a, row |-> row, mode |-> mode, ok |-> FALSE] \in CallRecord
  BY DEF CallRecord, InAgent
<1> QED BY <1>1, <1>2 DEF CallGoes, Ask, PortalTyped

\* What is left of a call that returns: its answer, if somebody waits for it.
Answers(c, ok) == [c EXCEPT !.pc = "done", !.ok = ok]

LEMMA AnswersFields ==
    ASSUME NEW c \in CallRecord, NEW ok \in BOOLEAN
    PROVE  /\ Answers(c, ok) \in CallRecord /\ Answers(c, ok).pc = "done" /\ Answers(c, ok).ok = ok
           /\ Answers(c, ok).method = c.method /\ Answers(c, ok).archive = c.archive /\ Answers(c, ok).row = c.row
  BY DEF Answers, CallRecord

LEMMA ReturnGoes ==
    ASSUME PortalTyped, NEW r \in Requests, NEW ok \in BOOLEAN, Return(r, ok)
    PROVE  /\ req[r].pc = "waiting" => CallGoes(r, Answers(call[r], ok))
           /\ req[r].pc # "waiting" => CallGoes(r, NoCall)
<1>1. call[r] \in CallRecord /\ NoCall \in CallRecord /\ call \in [Requests -> CallRecord]
  BY EmptyTyped DEF PortalTyped
<1>2. Answers(call[r], ok) \in CallRecord
  BY <1>1, AnswersFields
<1>3. call' = [call EXCEPT ![r] = IF req[r].pc = "waiting" THEN Answers(call[r], ok) ELSE NoCall]
  BY DEF Return, Returned, Answers
<1> QED BY <1>1, <1>2, <1>3 DEF CallGoes

\* The agent ends, and with it the calls it is at.
LEMMA CallsEndGoes ==
    ASSUME PortalTyped, CallsEnd
    PROVE  /\ call' \in [Requests -> CallRecord] /\ mutating' = Nobody
           /\ \A r \in Requests :
                 \/ call'[r] = call[r] /\ call[r].pc \notin InAgent
                 \/ call[r].pc \in InAgent /\ call'[r] = IF req[r].pc = "waiting" THEN Answers(call[r], FALSE) ELSE NoCall
<1>1. \A r \in Requests : Answers(call[r], FALSE) \in CallRecord
  BY AnswersFields DEF PortalTyped
<1> QED BY <1>1, EmptyTyped DEF CallsEnd, Returned, PortalTyped, Answers

\* The portal ends, and with it its requests.
LEMMA ReplacePortalGoes ==
    ASSUME PortalTyped, ReplacePortal
    PROVE  /\ req' \in [Requests -> ReqRecord] /\ \A r \in Requests : req'[r] = NoRequest
           /\ call' \in [Requests -> CallRecord] /\ mutating' = mutating
           /\ \A r \in Requests : call'[r] = IF call[r].pc = "done" THEN NoCall ELSE call[r]
           /\ made'.rows = made.rows /\ made'.uploads = made.uploads /\ made'.replaced = TRUE
           /\ made'.overtaken = made.overtaken
           /\ made' \in [rows : Nat, uploads : SUBSET Uploads, replaced : BOOLEAN, overtaken : SUBSET Runs]
  BY EmptyTyped DEF ReplacePortal, PortalTyped

\* The claimed row of r, if it is still there, has another status.
LEMMA SettleDoes ==
    ASSUME PortalTyped, NEW r \in Requests, NEW status \in {"ready", "started"}, Settle(r, status)
    PROVE  /\ rows' \in [Archives -> RowRecord]
           /\ \A a \in Archives :
                 \/ rows'[a] = rows[a] /\ rows[a] # [row |-> call[r].row, status |-> "starting"]
                 \/ /\ rows[a] = [row |-> call[r].row, status |-> "starting"]
                    /\ rows'[a] = [row |-> call[r].row, status |-> status]
<1>1. rows \in [Archives -> RowRecord] /\ call[r].row \in Nat
  BY DEF PortalTyped, CallRecord
<1>2. \A a \in Archives : rows[a] = [row |-> call[r].row, status |-> "starting"] =>
          [rows[a] EXCEPT !.status = status] = [row |-> call[r].row, status |-> status]
  OBVIOUS
<1>3. [row |-> call[r].row, status |-> status] \in RowRecord
  BY <1>1 DEF RowRecord
<1> QED BY <1>1, <1>2, <1>3 DEF Settle

LEMMA RefusedDoes ==
    ASSUME PortalTyped, NEW r \in Requests, Refused(r)
    PROVE  /\ ReqGoes(r, "free") /\ Settle(r, "ready")
           /\ archives' = archives \ (IF call[r].method = "inspect" THEN {call[r].archive} ELSE {})
           /\ old' \subseteq old
<1>1. ReqGoes(r, "free")
  BY DoneGoes DEF PortalTyped, Refused
<1> QED BY <1>1 DEF Refused, Remove

LEMMA PublishDoes ==
    ASSUME PortalTyped, NEW r \in Requests, Publish(r)
    PROVE  /\ ReqGoes(r, "free") \/ ReqGoes(r, "removing")
           /\ req[r].pc = "publishing" /\ UNCHANGED <<scriptVars, old, call, mutating>>
           /\ \/ UNCHANGED <<rows, made>>
              \/ /\ rows' \in [Archives -> RowRecord]
                 /\ made' \in [rows : Nat, uploads : SUBSET Uploads, replaced : BOOLEAN, overtaken : SUBSET Runs]
                 /\ made'.rows = made.rows + 1 /\ made'.uploads = made.uploads /\ made'.replaced = made.replaced
                 /\ made'.overtaken = made.overtaken
                 /\ rows[req[r].archive].status # "starting"
                 /\ \A b \in Archives :
                       \/ b = req[r].archive /\ rows'[b] = [row |-> made.rows + 1, status |-> "ready"]
                       \/ b # req[r].archive /\ rows[b].status = "ready" /\ rows'[b] = NoRow
                       \/ b # req[r].archive /\ rows'[b] = rows[b]
<1> DEFINE a == req[r].archive
           gone == {b \in Archives \ {a} : rows[b].status = "ready"}
<1>1. /\ req[r].pc = "publishing" /\ UNCHANGED <<scriptVars, old, call, mutating>>
      /\ \/ rows[a].status = "starting" /\ Done(r) /\ UNCHANGED <<rows, made>>
         \/ /\ rows[a].status # "starting" /\ made' = [made EXCEPT !.rows = @ + 1] /\ ThenRemove(r, gone)
            /\ rows' = [b \in Archives |-> IF b = a THEN [row |-> made.rows + 1, status |-> "ready"]
                                           ELSE IF b \in gone THEN NoRow ELSE rows[b]]
  BY DEF Publish, Status
<1>2. req \in [Requests -> ReqRecord] /\ rows \in [Archives -> RowRecord] /\ made.rows \in Nat
      /\ made \in [rows : Nat, uploads : SUBSET Uploads, replaced : BOOLEAN, overtaken : SUBSET Runs]
  BY DEF PortalTyped
<1>3. [row |-> made.rows + 1, status |-> "ready"] \in RowRecord /\ NoRow \in RowRecord
  BY <1>2, EmptyTyped DEF RowRecord
<1>4. gone \in SUBSET Archives
  OBVIOUS
<1>5. \A b \in gone : b \in Archives /\ b # a /\ rows[b].status = "ready"
  OBVIOUS
<1> HIDE DEF gone
<1>6. ReqGoes(r, "free") \/ ReqGoes(r, "removing")
  BY <1>1, <1>2, <1>4, DoneGoes, RemoveGoes
<1> QED BY <1>1, <1>2, <1>3, <1>5, <1>6

(***************************************************************************)
(* The steps, by what they have in common.                                 *)
(***************************************************************************)

\* A step of the portal, or of the agent in one of its calls; LaunchUnit is apart.
PortalStep ==
    \/ \E r \in Requests, a \in Archives :
        UploadBegins(r, a) \/ AskRelease(r, a) \/ Discard(r, a) \/ \E mode \in FromPortal : Claim(r, a, mode)
    \/ \E r \in Requests :
        \/ Tidies(r) \/ UploadSaved(r) \/ UploadFails(r) \/ Publish(r) \/ Answered(r) \/ GiveUp(r)
        \/ Inspect(r) \/ Prepare(r) \/ CheckUpdate(r) \/ CallFails(r)
    \/ \E a \in Archives : ArchiveAges(a)

\* What a step of a run does to the portal and to the calls.
PortalBeside ==
    \/ UNCHANGED portalVars
    \/ CallsEnd /\ UNCHANGED <<rows, old, req, made>>
    \/ ReplacePortal /\ UNCHANGED <<rows, old>>
    \/ /\ UNCHANGED <<rows, old, req, call, mutating>>
       /\ \E S \in SUBSET Runs : made' = [made EXCEPT !.overtaken = @ \cup S]

LEMMA OvertakenGrows ==
    ASSUME PortalTyped, NEW S \in SUBSET Runs, made' = [made EXCEPT !.overtaken = @ \cup S]
    PROVE  /\ made' \in [rows : Nat, uploads : SUBSET Uploads, replaced : BOOLEAN, overtaken : SUBSET Runs]
           /\ made'.rows = made.rows /\ made'.uploads = made.uploads /\ made'.replaced = made.replaced
           /\ made'.overtaken = made.overtaken \cup S
  BY DEF PortalTyped

LEMMA StepsOfNext ==
    ASSUME Next
    PROVE  \/ PortalStep
           \/ \E r \in Requests, ok \in BOOLEAN : LaunchUnit(r, ok)
           \/ ScriptStep /\ PortalBeside /\ (OtherStep \/ \E u \in Runs : RunMarks(u))
<1> DEFINE Ok == OtherStep /\ PortalBeside
<1>1. ASSUME NEW x \in ByHand, RunBegins(x[1], x[2]) PROVE Ok
  BY <1>1 DEF RunBegins, OtherStep, PortalBeside
<1>2. ASSUME NEW u \in Runs, RunStep(u) PROVE Ok
  BY <1>2 DEF RunStep, OtherStep, PortalBeside
<1>3. ASSUME NEW u \in Runs, RunReplacesAgent(u) PROVE Ok
  BY <1>3 DEF RunReplacesAgent, OtherStep, PortalBeside, portalVars
<1>4. ASSUME NEW u \in Runs, RunReplacesPortal(u) PROVE Ok
  BY <1>4 DEF RunReplacesPortal, OtherStep, PortalBeside, portalVars
<1>5. ASSUME NEW u \in Runs, RunFails(u) PROVE Ok
  BY <1>5 DEF RunFails, OtherStep, PortalBeside, portalVars
<1>6. ASSUME AgentCrashes \/ ServiceCrashes PROVE Ok
  BY <1>6 DEF AgentCrashes, ServiceCrashes, OtherStep, PortalBeside
<1>7. ASSUME Backup PROVE Ok
  BY <1>7 DEF Backup, OtherStep, PortalBeside
<1>8. ASSUME NEW u \in Runs, RunMarks(u) PROVE MarkArchive(u) /\ PortalBeside
  <2>1. {w \in {u} : \E r \in Requests : Checked(r, run[u].archive)} \in SUBSET Runs
    OBVIOUS
  <2> QED BY <1>8, <2>1 DEF RunMarks, PortalBeside
<1> HIDE DEF Ok
<1>9. Next => \/ PortalStep \/ (\E r \in Requests, ok \in BOOLEAN : LaunchUnit(r, ok))
              \/ Ok \/ \E u \in Runs : RunMarks(u)
  <2>1. ASSUME NEW r \in Requests, NEW a \in Archives, CheckMarker(r, a) \/ RemoveArchive(r, a) PROVE Tidies(r)
    BY <2>1 DEF Tidies
  <2>2. ASSUME NEW r \in Requests, Admit(r) \/ RemoveRow(r) PROVE Tidies(r)
    BY <2>2 DEF Tidies
  <2> QED BY <1>1, <1>2, <1>3, <1>4, <1>5, <1>6, <1>7, <2>1, <2>2 DEF Next, PortalStep
<1>10. ASSUME Ok PROVE ScriptStep /\ PortalBeside /\ OtherStep
  BY <1>10 DEF Ok, ScriptStep
<1>11. ASSUME NEW u \in Runs, RunMarks(u) PROVE ScriptStep /\ PortalBeside
  BY <1>8, <1>11 DEF ScriptStep
<1> QED BY <1>9, <1>10, <1>11

\* A step of the portal leaves the runs and what they work on.
Beside ==
    /\ UNCHANGED <<run, runVars>> /\ archives' \subseteq Archives
    /\ faults' \in Faults /\ faults'.restart = faults.restart /\ faults'.lost >= faults.lost

LEMMA PortalTypes ==
    ASSUME TypeOK, CallInv, PortalStep
    PROVE  PortalTyped' /\ Beside
<1>1. /\ PortalTyped /\ archives \subseteq Archives /\ Archives \subseteq Versions /\ faults \in Faults
      /\ faults.lost \in Nat /\ faults.restart \in Nat
  BY PortalInParts, TypesInParts DEF ThingsTyped, Versions, Faults
<1>2. \A kind : kind # "restart" /\ Happens(kind) =>
          faults' \in Faults /\ faults'.restart = faults.restart /\ faults'.lost >= faults.lost
  BY <1>1, FaultCounted
<1>3. ASSUME NEW r \in Requests, NEW pc, ReqGoes(r, pc) PROVE req' \in [Requests -> ReqRecord]
  BY <1>3 DEF ReqGoes
<1>4. ASSUME NEW r \in Requests, NEW c, CallGoes(r, c) PROVE call' \in [Requests -> CallRecord]
  BY <1>4 DEF CallGoes
<1> DEFINE Ok == PortalTyped' /\ Beside
<1>5. ASSUME NEW r \in Requests, NEW a \in Archives, UploadBegins(r, a) PROVE Ok
  <2>1. /\ req' \in [Requests -> ReqRecord] /\ UNCHANGED <<scriptVars, rows, old, call, mutating>>
        /\ made' \in [rows : Nat, uploads : SUBSET Uploads, replaced : BOOLEAN, overtaken : SUBSET Runs]
    BY <1>1, <1>3, <1>5, BeginsGoes
  <2> QED BY <1>1, <2>1 DEF PortalTyped, Beside, scriptVars, runVars
<1>6. ASSUME NEW r \in Requests, NEW a \in Archives, AskRelease(r, a) PROVE Ok
  <2>1. req' \in [Requests -> ReqRecord] /\ call' \in [Requests -> CallRecord]
    BY <1>1, <1>6, AskGoes DEF AskRelease, ReqGoes, CallGoes
  <2> QED BY <1>1, <1>6, <2>1 DEF AskRelease, PortalTyped, Beside, scriptVars, runVars
<1>7. ASSUME NEW r \in Requests, NEW a \in Archives, Discard(r, a) PROVE Ok
  <2>1. req' \in [Requests -> ReqRecord]
    BY <1>1, <1>3, <1>7, RemoveGoes DEF Discard, PortalTyped
  <2>2. rows' \in [Archives -> RowRecord]
    BY <1>1, <1>7, EmptyTyped DEF Discard, PortalTyped
  <2> QED BY <1>1, <1>7, <2>1, <2>2 DEF Discard, PortalTyped, Beside, scriptVars, runVars
<1>8. ASSUME NEW r \in Requests, NEW a \in Archives, NEW mode \in FromPortal, Claim(r, a, mode) PROVE Ok
  <2>1. rows[a].row \in Nat /\ mode \in {"full", "bootstrap-only"}
    BY <1>1, PortalAssumption DEF PortalTyped, RowRecord
  <2>2. req' \in [Requests -> ReqRecord] /\ call' \in [Requests -> CallRecord]
    BY <1>1, <1>8, <2>1, AskGoes DEF Claim, ReqGoes, CallGoes
  <2>3. rows' \in [Archives -> RowRecord]
    BY <1>1, <1>8 DEF Claim, PortalTyped, RowRecord
  <2> QED BY <1>1, <1>8, <2>2, <2>3 DEF Claim, PortalTyped, Beside, scriptVars, runVars
<1>9. ASSUME NEW r \in Requests, UploadSaved(r) PROVE Ok
  <2>1. req[r].archive \in Versions /\ req[r].archive \in Archives
    BY <1>1, <1>9 DEF UploadSaved, CallInv
  <2>2. req' \in [Requests -> ReqRecord] /\ call' \in [Requests -> CallRecord]
    BY <1>1, <1>9, <2>1, AskGoes DEF UploadSaved, ReqGoes, CallGoes
  <2> QED BY <1>1, <1>9, <2>1, <2>2 DEF UploadSaved, PortalTyped, Beside
<1>10. ASSUME NEW r \in Requests, UploadFails(r) PROVE Ok
  <2>1. req' \in [Requests -> ReqRecord]
    BY <1>1, <1>3, <1>10, DoneGoes DEF UploadFails, PortalTyped
  <2> QED BY <1>1, <1>2, <1>10, <2>1 DEF UploadFails, PortalTyped, Beside
<1>11. ASSUME NEW r \in Requests, Publish(r) PROVE Ok
  <2>1. req' \in [Requests -> ReqRecord] /\ UNCHANGED <<scriptVars, old, call, mutating>>
        /\ rows' \in [Archives -> RowRecord] /\ made' \in [rows : Nat, uploads : SUBSET Uploads, replaced : BOOLEAN, overtaken : SUBSET Runs]
    BY <1>1, <1>3, <1>11, PublishDoes DEF PortalTyped
  <2> QED BY <1>1, <2>1 DEF PortalTyped, Beside, scriptVars, runVars
<1>12. ASSUME NEW r \in Requests, Tidies(r) PROVE Ok
  <2>1. /\ req' \in [Requests -> ReqRecord] /\ rows' \in [Archives -> RowRecord]
        /\ UNCHANGED <<run, runVars, faults, call, mutating, made>> /\ archives' \subseteq archives /\ old' \subseteq old
    BY <1>1, <1>3, <1>12, TidiesDoes
  <2> QED BY <1>1, <2>1 DEF PortalTyped, Beside
<1>13. ASSUME NEW r \in Requests, Answered(r) PROVE Ok
  <2>1. call' \in [Requests -> CallRecord] /\ UNCHANGED <<runVars, run, faults, mutating, made>>
    BY <1>1, <1>13, EmptyTyped DEF Answered, PortalTyped
  <2>2. CASE Refused(r)
    <3>1. req' \in [Requests -> ReqRecord] /\ Settle(r, "ready") /\ archives' \subseteq archives /\ old' \subseteq old
      BY <1>1, <1>3, <2>2, RefusedDoes
    <3>2. rows' \in [Archives -> RowRecord]
      BY <1>1, <3>1, SettleDoes
    <3> QED BY <1>1, <2>1, <3>1, <3>2 DEF PortalTyped, Beside
  <2>3. CASE Done(r) /\ Settle(r, "started") /\ UNCHANGED <<archives, old>>
    <3>1. req' \in [Requests -> ReqRecord]
      BY <1>1, <1>3, <2>3, DoneGoes DEF PortalTyped
    <3>2. rows' \in [Archives -> RowRecord]
      BY <1>1, <2>3, SettleDoes
    <3> QED BY <1>1, <2>1, <2>3, <3>1, <3>2 DEF PortalTyped, Beside
  <2>4. CASE Move(r, "publishing", call[r].archive) /\ UNCHANGED <<archives, old, rows>>
    <3>1. call[r].archive \in Versions
      BY <1>1 DEF PortalTyped, CallRecord
    <3> QED BY <1>1, <1>3, <2>1, <2>4, <3>1, MoveGoes DEF PortalTyped, Beside
  <2> QED BY <1>13, <2>2, <2>3, <2>4 DEF Answered
<1>14. ASSUME NEW r \in Requests, GiveUp(r) PROVE Ok
  <2>1. call' \in [Requests -> CallRecord] /\ UNCHANGED <<runVars, run, mutating, made>>
    BY <1>1, <1>14, EmptyTyped DEF GiveUp, PortalTyped
  <2>2. req' \in [Requests -> ReqRecord] /\ Settle(r, "ready") /\ archives' \subseteq archives /\ old' \subseteq old
    BY <1>1, <1>3, <1>14, RefusedDoes DEF GiveUp
  <2>3. rows' \in [Archives -> RowRecord]
    BY <1>1, <2>2, SettleDoes
  <2> QED BY <1>1, <1>2, <1>14, <2>1, <2>2, <2>3 DEF GiveUp, PortalTyped, Beside
<1>15. ASSUME NEW r \in Requests, NEW ok \in BOOLEAN, Return(r, ok) PROVE call' \in [Requests -> CallRecord]
  BY <1>1, <1>4, <1>15, ReturnGoes
<1>16. ASSUME NEW r \in Requests, Inspect(r) PROVE Ok
  <2>1. PICK ok \in BOOLEAN : Return(r, ok)
    <3>1. (call[r].archive \in archives) \in BOOLEAN
      OBVIOUS
    <3> QED BY <1>16, <3>1, Zenon DEF Inspect
  <2>2. call' \in [Requests -> CallRecord]
    BY <1>15, <2>1
  <2> QED BY <1>1, <1>16, <2>2 DEF Inspect, PortalTyped, Beside, scriptVars, runVars
<1>17. ASSUME NEW r \in Requests, Prepare(r) PROVE Ok
  <2>1. call[r].archive \in Archives
    BY <1>17 DEF Prepare, Reached, CallInv
  <2>2. call' \in [Requests -> CallRecord]
    BY <1>15, <1>17 DEF Prepare
  <2> QED BY <1>1, <1>17, <2>1, <2>2 DEF Prepare, PortalTyped, Beside
<1>18. ASSUME NEW r \in Requests, CheckUpdate(r) PROVE Ok
  <2>1. call' \in [Requests -> CallRecord]
    BY <1>1, <1>18 DEF CheckUpdate, PortalTyped, CallRecord, InAgent
  <2> QED BY <1>1, <1>18, <2>1 DEF CheckUpdate, PortalTyped, Beside, scriptVars, runVars
<1>19. ASSUME NEW r \in Requests, CallFails(r) PROVE Ok
  <2>1. call' \in [Requests -> CallRecord]
    BY <1>15, <1>19 DEF CallFails
  <2> QED BY <1>1, <1>2, <1>19, <2>1 DEF CallFails, PortalTyped, Beside
<1>20. ASSUME NEW a \in Archives, ArchiveAges(a) PROVE Ok
  BY <1>1, <1>2, <1>20 DEF ArchiveAges, PortalTyped, Beside
<1> QED
  BY <1>5, <1>6, <1>7, <1>8, <1>9, <1>10, <1>11, <1>12, <1>13, <1>14, <1>16, <1>17, <1>18, <1>19, <1>20
  DEF PortalStep

(***************************************************************************)
(* Rows, calls and claims.                                                 *)
(***************************************************************************)

\* A run carries what it was started with; one by hand carries no row.
LEMMA RunsKeep ==
    ASSUME ScriptTypeOK, BegunInv, ScriptStep, \A u \in Runs : run[u].pc = "unused" => run[u].row = 0
    PROVE  \A w \in Runs :
              /\ run'[w].row = run[w].row /\ (run'[w].pc = "unused" => run[w].pc = "unused")
              /\ run[w].pc # "unused" => run'[w].archive = run[w].archive
<1>0. run \in [Runs -> RunRecord]
  BY TypesInParts
<1> DEFINE Ok == \A w \in Runs :
              /\ run'[w].row = run[w].row /\ (run'[w].pc = "unused" => run[w].pc = "unused")
              /\ run[w].pc # "unused" => run'[w].archive = run[w].archive
<1>1. ASSUME NEW x \in ByHand, RunByHand(x[1], x[2]) PROVE Ok
  <2> DEFINE r == [NoRun EXCEPT !.pc = "waiting", !.archive = x[1], !.mode = x[2]]
  <2>1. r.pc = "waiting" /\ r.row = 0
    BY DEF NoRun
  <2>2. PICK w \in Runs : run[w].pc = "unused" /\ run' = [run EXCEPT ![w] = r]
    BY <1>1, RunByHandBegins, BeginsTyped
  <2> HIDE DEF r
  <2> QED BY <1>0, <2>1, <2>2
<1>2. ASSUME NEW u \in Runs, NEW pc \in Waiting \cup Locked \cup Ended, Goes(u, pc) PROVE Ok
  <2>1. pc # "unused"
    BY DEF Waiting, Locked, BeforeSources, SourcesChanged, AfterCompose, Ended
  <2> QED BY <1>2, <2>1 DEF Goes
<1>3. {"marked", "waiting", "failed", "locked", "rendered", "agented", "ok", "synced", "composed", "torn", "killed"}
        \subseteq Waiting \cup Locked \cup Ended
  BY DEF Waiting, Locked, BeforeSources, SourcesChanged, AfterCompose, Ended
<1>4. ASSUME NEW u \in Runs,
             \/ MarkArchive(u) \/ Execute(u) \/ WrapperFails(u) \/ TakeLock(u) \/ NotStarted(u) \/ Render(u)
             \/ InstallAgent(u) \/ SyncHost(u) \/ ComposeUp(u) \/ Finish(u) \/ Fail(u) \/ Kill(u)
      PROVE  Ok
  <2>1. \E pc \in Waiting \cup Locked \cup Ended : Goes(u, pc)
    BY <1>3, <1>4, StepGoes
  <2> QED BY <1>2, <2>1
<1>5. ASSUME NEW u \in Runs, Stage(u) PROVE Ok
  BY <1>5, StageGoes
<1>6. ASSUME NEW u \in Runs, NEW read \in {"read", "lost"}, Plan(u, read) PROVE Ok
  <2>1. /\ \A w \in Runs \ {u} : run'[w] = run[w]
        /\ run'[u].pc = "planned" /\ run'[u].archive = run[u].archive /\ run'[u].row = run[u].row
    BY <1>6, PlanGoes
  <2> QED BY <2>1
<1>7. CASE UNCHANGED run
  BY <1>7
<1> QED
  BY <1>1, <1>4, <1>5, <1>6, <1>7
  DEF ScriptStep, OtherStep, Step, InstallPart, AgentRestarts, ServiceRestarts, BackupBegins, BackupReads, BackupEnds

\* systemd-run starts one run more.
LEMMA LaunchDoes ==
    ASSUME TypeOK, BegunInv, NEW r \in Requests, NEW ok \in BOOLEAN, LaunchUnit(r, ok)
    PROVE  /\ call[r].pc = "checked" /\ UNCHANGED <<archives, runVars, rows, old, req, made>> /\ mutating' = Nobody
           /\ req[r].pc = "waiting" => CallGoes(r, Answers(call[r], ok))
           /\ req[r].pc # "waiting" => CallGoes(r, NoCall)
           /\ faults' \in Faults /\ faults'.restart = faults.restart /\ faults'.lost >= faults.lost
           /\ ~ ok => faults'.lost = faults.lost + 1
           /\ run' \in [Runs -> RunRecord] /\ BegunInv'
           /\ \E w \in Runs :
                 /\ run[w].pc = "unused" /\ run'[w].pc = "begun"
                 /\ run'[w].archive = call[r].archive /\ run'[w].row = call[r].row
                 /\ \A u \in Runs \ {w} : run'[u] = run[u]
<1>1. PortalTyped /\ ScriptTypeOK /\ run \in [Runs -> RunRecord] /\ faults \in Faults
  BY PortalInParts, TypesInParts
<1>2. call[r].row \in Nat /\ call[r].archive \in Versions /\ call[r].mode \in {"full", "bootstrap-only"}
  BY <1>1 DEF PortalTyped, CallRecord
<1> DEFINE new == [NoRun EXCEPT !.pc = "begun", !.archive = call[r].archive, !.mode = call[r].mode, !.row = call[r].row]
<1>3. Begins(new)
  BY <1>1, <1>2, LaunchBegins DEF LaunchUnit
<1>4. new.pc = "begun" /\ new.archive = call[r].archive /\ new.row = call[r].row
  BY DEF NoRun
<1> HIDE DEF new
<1>5. run' \in [Runs -> RunRecord] /\ BegunInv' /\ \E u \in Runs : run[u].pc = "unused" /\ run' = [run EXCEPT ![u] = new]
  BY <1>1, <1>3, BeginsTyped
<1>6. PICK w \in Runs : run[w].pc = "unused" /\ run' = [run EXCEPT ![w] = new]
  BY <1>5
<1>7. run'[w] = new /\ \A u \in Runs \ {w} : run'[u] = run[u]
  BY <1>1, <1>6
<1>8. faults.lost \in Nat /\ faults.restart \in Nat
  BY <1>1 DEF Faults
<1>9. /\ faults' \in Faults /\ faults'.restart = faults.restart /\ faults'.lost >= faults.lost
      /\ ~ ok => faults'.lost = faults.lost + 1
  <2>1. CASE ok
    BY <1>1, <1>8, <2>1 DEF LaunchUnit
  <2>2. CASE ~ ok
    BY <1>1, <1>8, <2>2, FaultCounted DEF LaunchUnit
  <2> QED BY <2>1, <2>2
<1>10. Return(r, ok) /\ call[r].pc = "checked" /\ UNCHANGED <<archives, runVars, rows, old, req, made>> /\ mutating' = Nobody
  BY DEF LaunchUnit
<1> QED BY <1>1, <1>4, <1>5, <1>6, <1>7, <1>9, <1>10, ReturnGoes

\* All types are kept.
LEMMA TypeStep ==
    ASSUME TypeOK, BegunInv, CallInv, [Next]_vars
    PROVE  TypeOK' /\ BegunInv'
<1>0. /\ PortalTyped /\ ScriptTypeOK /\ ThingsTyped /\ run \in [Runs -> RunRecord] /\ faults \in Faults
      /\ (ThingsTyped' /\ run' \in [Runs -> RunRecord] /\ faults' \in Faults => ScriptTypeOK')
      /\ (ScriptTypeOK' /\ PortalTyped' => TypeOK')
  <2>1. PortalTyped /\ ScriptTypeOK /\ ThingsTyped /\ run \in [Runs -> RunRecord] /\ faults \in Faults
    BY PortalInParts, TypesInParts
  <2>2. ThingsTyped' /\ run' \in [Runs -> RunRecord] /\ faults' \in Faults => ScriptTypeOK'
    BY DEF ThingsTyped, RunRecord, Containers, Faults, ScriptTypeOK
  <2>3. ScriptTypeOK' /\ PortalTyped' => TypeOK'
    BY DEF PortalTyped, RowRecord, ReqRecord, CallRecord, TypeOK
  <2> QED BY <2>1, <2>2, <2>3
<1>1. CASE PortalStep
  <2>1. PortalTyped' /\ Beside
    BY <1>1, PortalTypes
  <2>2. ThingsTyped' /\ run' = run /\ faults' \in Faults
    BY <1>0, <2>1 DEF Beside, ThingsTyped, runVars, systemVars
  <2> QED BY <1>0, <2>1, <2>2 DEF BegunInv, Unused, At
<1>2. ASSUME NEW r \in Requests, NEW ok \in BOOLEAN, LaunchUnit(r, ok) PROVE TypeOK' /\ BegunInv'
  <2>1. /\ UNCHANGED <<archives, runVars, rows, old, req, made>> /\ mutating' = Nobody
        /\ call' \in [Requests -> CallRecord] /\ faults' \in Faults
        /\ run' \in [Runs -> RunRecord] /\ BegunInv'
    BY <1>2, LaunchDoes DEF CallGoes
  <2>2. ThingsTyped' /\ PortalTyped'
    BY <1>0, <2>1 DEF ThingsTyped, runVars, systemVars, PortalTyped
  <2> QED BY <1>0, <2>1, <2>2
<1>3. CASE ScriptStep /\ PortalBeside
  <2>1. ScriptTypeOK' /\ BegunInv'
    BY <1>0, <1>3, ScriptTypes
  <2>2. PortalTyped'
    <3>1. CASE UNCHANGED portalVars
      BY <1>0, <3>1 DEF portalVars, PortalTyped
    <3>2. CASE CallsEnd /\ UNCHANGED <<rows, old, req, made>>
      BY <1>0, <3>2, CallsEndGoes DEF PortalTyped
    <3>3. CASE ReplacePortal /\ UNCHANGED <<rows, old>>
      BY <1>0, <3>3, ReplacePortalGoes DEF PortalTyped
    <3>4. ASSUME NEW S \in SUBSET Runs, made' = [made EXCEPT !.overtaken = @ \cup S],
                 UNCHANGED <<rows, old, req, call, mutating>>
          PROVE  PortalTyped'
      BY <1>0, <3>4, OvertakenGrows DEF PortalTyped
    <3> QED BY <1>3, <3>1, <3>2, <3>3, <3>4 DEF PortalBeside
  <2> QED BY <1>0, <2>1, <2>2
<1>4. CASE UNCHANGED vars
  <2>1. ThingsTyped' /\ run' = run /\ faults' = faults /\ PortalTyped'
    BY <1>0, <1>4 DEF vars, scriptVars, portalVars, systemVars, ThingsTyped, PortalTyped
  <2> QED BY <1>0, <2>1 DEF BegunInv, Unused, At
<1> QED BY <1>1, <1>2, <1>3, <1>4, StepsOfNext

LEMMA CallStep ==
    ASSUME TypeOK, BegunInv, CallInv, RowInv, [Next]_vars
    PROVE  CallInv'
<1>0. /\ PortalTyped /\ made.rows \in Nat
      /\ \A r \in Requests : req[r] \in ReqRecord /\ call[r] \in CallRecord /\ call[r].row \in Nat
  BY PortalInParts DEF PortalTyped, CallRecord
<1> DEFINE Good(r) ==
      /\ req[r].pc = "waiting" => call[r].pc # "none"
      /\ call[r].pc = "done" => req[r].pc = "waiting"
      /\ call[r].pc = "checked" => call[r].method = "update"
      /\ call[r].method = "update" <=> call[r].row # 0
      /\ call[r].row <= made.rows
      /\ call[r].pc # "none" => call[r].archive \in Archives
      /\ req[r].pc \in {"cleaning", "forgetting", "saving", "publishing"} => req[r].archive \in Archives
<1>1. \A r \in Requests : Good(r)
  BY DEF CallInv
<1>2. (\A r \in Requests : Good(r)') => CallInv'
  BY DEF CallInv
<1>3. ASSUME NEW r \in Requests, \A q \in Requests \ {r} : req'[q] = req[q] /\ call'[q] = call[q],
             made'.rows = made.rows, Good(r)'
      PROVE  CallInv'
  <2>1. ASSUME NEW q \in Requests \ {r} PROVE Good(q)'
    BY <1>1, <1>3
  <2> QED BY <1>2, <1>3, <2>1
<1>4. NoCall.pc = "none" /\ NoCall.method = "none" /\ NoCall.row = 0 /\ NoRequest.pc = "free"
  BY DEF NoCall, NoRequest
<1> HIDE DEF Good
<1>5. ASSUME NEW r \in Requests, NEW a \in Archives, UploadBegins(r, a) PROVE CallInv'
  <2>1. /\ req[r].pc = "free" /\ call' = call /\ made'.rows = made.rows
        /\ ReqGoes(r, "cleaning") /\ req'[r].archive = a
    BY <1>0, <1>5, BeginsGoes
  <2>2. Good(r)'
    BY <1>1, <2>1 DEF Good, ReqGoes
  <2> QED BY <1>3, <2>1, <2>2 DEF ReqGoes
<1>6. ASSUME NEW r \in Requests, NEW method \in {"inspect", "prepare", "update"}, NEW a \in Archives, NEW row \in Nat,
             NEW mode \in {"full", "bootstrap-only"}, Ask(r, method, a, row, mode),
             method = "update" <=> row # 0, row <= made.rows, made' = made
      PROVE  CallInv'
  <2>0. a \in Versions
    BY DEF Versions
  <2>1. /\ ReqGoes(r, "waiting") /\ req'[r].archive = a
        /\ CallGoes(r, [pc |-> "asked", method |-> method, archive |-> a, row |-> row, mode |-> mode, ok |-> FALSE])
    BY <1>0, <1>6, <2>0, AskGoes
  <2>2. Good(r)'
    BY <1>6, <2>1 DEF Good, ReqGoes, CallGoes
  <2> QED BY <1>3, <1>6, <2>1, <2>2 DEF ReqGoes, CallGoes
<1>7. ASSUME NEW r \in Requests, NEW a \in Archives, AskRelease(r, a) PROVE CallInv'
  BY <1>0, <1>6, <1>7 DEF AskRelease
<1>8. ASSUME NEW r \in Requests, NEW a \in Archives, NEW mode \in FromPortal, Claim(r, a, mode) PROVE CallInv'
  <2>1. rows[a].row \in Nat /\ rows[a].row # 0 /\ rows[a].row <= made.rows /\ mode \in {"full", "bootstrap-only"}
    BY <1>0, <1>8, PortalAssumption DEF Claim, Status, RowInv, PortalTyped, RowRecord
  <2> QED BY <1>6, <1>8, <2>1 DEF Claim
<1>9. ASSUME NEW r \in Requests, UploadSaved(r) PROVE CallInv'
  <2>1. req[r].archive \in Archives
    BY <1>9 DEF UploadSaved, CallInv
  <2> QED BY <1>0, <1>6, <1>9, <2>1 DEF UploadSaved
<1>10. ASSUME NEW r \in Requests, NEW pc \in {"free", "removing"}, ReqGoes(r, pc), req[r].pc # "waiting", call' = call,
              made'.rows \in Nat /\ made'.rows >= made.rows
       PROVE  CallInv'
  <2>1. Good(r)'
    BY <1>0, <1>1, <1>10 DEF Good, ReqGoes
  <2>2. ASSUME NEW q \in Requests \ {r} PROVE Good(q)'
    BY <1>0, <1>1, <1>10 DEF Good, ReqGoes
  <2> QED BY <1>2, <2>1, <2>2
<1>11. ASSUME NEW r \in Requests, NEW a \in Archives, Discard(r, a) PROVE CallInv'
  BY <1>0, <1>10, <1>11, RemoveGoes DEF Discard, Idle, PortalTyped
<1>12. ASSUME NEW r \in Requests, UploadFails(r) PROVE CallInv'
  BY <1>0, <1>10, <1>12, DoneGoes DEF UploadFails, PortalTyped
<1>13. ASSUME NEW r \in Requests, Publish(r) PROVE CallInv'
  BY <1>0, <1>10, <1>13, PublishDoes
<1>14. ASSUME NEW r \in Requests, Tidies(r) PROVE CallInv'
  <2>1. req[r].pc # "waiting" /\ call' = call /\ made' = made
    BY <1>0, <1>14, TidiesDoes
  <2>2. CASE ReqGoes(r, "free") \/ ReqGoes(r, "removing")
    BY <1>0, <1>10, <2>1, <2>2
  <2>3. ASSUME NEW pc \in {"cleaning", "forgetting", "saving"}, ReqGoes(r, pc), req[r].pc \in {"cleaning", "forgetting"},
               req'[r].archive = req[r].archive
        PROVE  CallInv'
    <3>1. Good(r)'
      BY <1>1, <2>1, <2>3 DEF Good, ReqGoes
    <3> QED BY <1>3, <2>1, <2>3, <3>1 DEF ReqGoes
  <2> QED BY <1>0, <1>14, <2>2, <2>3, TidiesDoes
<1>15. ASSUME NEW r \in Requests, Answered(r) PROVE CallInv'
  <2>1. CallGoes(r, NoCall) /\ made' = made /\ call[r].pc = "done"
    BY <1>0, <1>15, EmptyTyped DEF Answered, CallGoes, PortalTyped
  <2>2. call[r].archive \in Archives /\ call[r].archive \in Versions
    BY <2>1 DEF CallInv, Versions
  <2>3. ReqGoes(r, "free") \/ (ReqGoes(r, "publishing") /\ req'[r].archive = call[r].archive)
    BY <1>0, <1>15, <2>2, RefusedDoes, DoneGoes, MoveGoes DEF Answered, PortalTyped
  <2>4. Good(r)'
    BY <1>0, <1>4, <2>1, <2>2, <2>3 DEF Good, ReqGoes, CallGoes
  <2> QED BY <1>3, <2>1, <2>3, <2>4 DEF ReqGoes, CallGoes
<1>16. ASSUME NEW r \in Requests, GiveUp(r) PROVE CallInv'
  <2>1. ReqGoes(r, "free") /\ made' = made
    BY <1>0, <1>16, RefusedDoes DEF GiveUp
  <2>2. (call[r].pc = "done" /\ call'[r] = NoCall) \/ (call[r].pc # "done" /\ call'[r] = call[r])
    BY <1>0, <1>16 DEF GiveUp, PortalTyped
  <2>3. \A q \in Requests \ {r} : call'[q] = call[q]
    BY <1>0, <1>16 DEF GiveUp, PortalTyped
  <2>4. Good(r)'
    BY <1>0, <1>1, <1>4, <2>1, <2>2 DEF Good, ReqGoes
  <2> QED BY <1>3, <2>1, <2>3, <2>4 DEF ReqGoes
<1>17. ASSUME NEW r \in Requests, NEW ok \in BOOLEAN, call[r].pc \in InAgent, req' = req, made' = made,
              req[r].pc = "waiting" => CallGoes(r, Answers(call[r], ok)), req[r].pc # "waiting" => CallGoes(r, NoCall)
       PROVE  CallInv'
  <2>1. Answers(call[r], ok).pc = "done" /\ Answers(call[r], ok).method = call[r].method
        /\ Answers(call[r], ok).archive = call[r].archive /\ Answers(call[r], ok).row = call[r].row
    BY <1>0, AnswersFields
  <2>2. call[r].pc # "none"
    BY <1>17 DEF InAgent
  <2>3. Good(r)'
    BY <1>0, <1>1, <1>4, <1>17, <2>1, <2>2 DEF Good, CallGoes
  <2> QED BY <1>3, <1>17, <2>3 DEF CallGoes
<1>18. ASSUME NEW r \in Requests, NEW ok \in BOOLEAN, Return(r, ok), call[r].pc \in InAgent, req' = req, made' = made
       PROVE  CallInv'
  BY <1>0, <1>17, <1>18, ReturnGoes
<1>19. ASSUME NEW r \in Requests, Inspect(r) PROVE CallInv'
  <2>1. PICK ok \in BOOLEAN : Return(r, ok)
    <3>1. (call[r].archive \in archives) \in BOOLEAN
      OBVIOUS
    <3> QED BY <1>19, <3>1, Zenon DEF Inspect
  <2> QED BY <1>18, <1>19, <2>1 DEF Inspect, Reached, InAgent
<1>20. ASSUME NEW r \in Requests, Prepare(r) PROVE CallInv'
  BY <1>18, <1>20 DEF Prepare, Reached, InAgent
<1>21. ASSUME NEW r \in Requests, CheckUpdate(r) PROVE CallInv'
  <2>1. call'[r] = [call[r] EXCEPT !.pc = "checked"] /\ \A q \in Requests \ {r} : call'[q] = call[q]
    BY <1>0, <1>21 DEF CheckUpdate, PortalTyped
  <2>2. /\ call'[r].pc = "checked" /\ call'[r].method = call[r].method
        /\ call'[r].archive = call[r].archive /\ call'[r].row = call[r].row
    BY <1>0, <2>1 DEF CallRecord
  <2>3. Good(r)'
    BY <1>0, <1>1, <1>21, <2>2 DEF Good, CheckUpdate, Reached
  <2> QED BY <1>3, <1>21, <2>1, <2>3 DEF CheckUpdate
<1>22. ASSUME NEW r \in Requests, CallFails(r) PROVE CallInv'
  BY <1>18, <1>22 DEF CallFails
<1>23. ASSUME req' = req, call' = call, made' = made PROVE CallInv'
  BY <1>23 DEF CallInv
<1>24. ASSUME NEW a \in Archives, ArchiveAges(a) PROVE CallInv'
  BY <1>23, <1>24 DEF ArchiveAges
<1>25. ASSUME NEW r \in Requests, NEW ok \in BOOLEAN, LaunchUnit(r, ok) PROVE CallInv'
  BY <1>17, <1>25, LaunchDoes DEF InAgent
<1>26. CASE PortalBeside
  <2>1. CASE UNCHANGED portalVars
    BY <1>23, <2>1 DEF portalVars
  <2>2. CASE CallsEnd /\ UNCHANGED <<rows, old, req, made>>
    <3>1. ASSUME NEW r \in Requests PROVE Good(r)'
      <4>1. /\ Answers(call[r], FALSE).pc = "done" /\ Answers(call[r], FALSE).method = call[r].method
            /\ Answers(call[r], FALSE).archive = call[r].archive /\ Answers(call[r], FALSE).row = call[r].row
        BY <1>0, AnswersFields
      <4>2. CASE call'[r] = call[r]
        BY <1>1, <2>2, <4>2 DEF Good
      <4>3. CASE call'[r] = NoCall /\ req[r].pc # "waiting"
        BY <1>0, <1>1, <1>4, <2>2, <4>3 DEF Good
      <4>4. CASE call'[r] = Answers(call[r], FALSE) /\ req[r].pc = "waiting"
        BY <1>0, <1>1, <2>2, <4>1, <4>4 DEF Good
      <4> QED BY <1>0, <2>2, <4>2, <4>3, <4>4, CallsEndGoes
    <3> QED BY <1>2, <3>1
  <2>3. CASE ReplacePortal /\ UNCHANGED <<rows, old>>
    <3>1. ASSUME NEW r \in Requests PROVE Good(r)'
      BY <1>0, <1>1, <1>4, <2>3, ReplacePortalGoes DEF Good
    <3> QED BY <1>2, <3>1
  <2>4. ASSUME NEW S \in SUBSET Runs, made' = [made EXCEPT !.overtaken = @ \cup S], UNCHANGED <<req, call>> PROVE CallInv'
    <3>1. made'.rows = made.rows
      BY <1>0, <2>4, OvertakenGrows
    <3> QED BY <2>4, <3>1 DEF CallInv
  <2> QED BY <1>26, <2>1, <2>2, <2>3, <2>4 DEF PortalBeside
<1>27. CASE UNCHANGED vars
  BY <1>23, <1>27 DEF vars, portalVars
<1> QED
  BY <1>5, <1>7, <1>8, <1>9, <1>11, <1>12, <1>13, <1>14, <1>15, <1>16, <1>19, <1>20, <1>21, <1>22, <1>24,
     <1>25, <1>26, <1>27, StepsOfNext
  DEF PortalStep

\* The rows of a step that removes some of them.
LEMMA RowsRemoved ==
    ASSUME TypeOK, RowInv, \A a \in Archives : rows'[a] = rows[a] \/ rows'[a] = NoRow,
           made'.rows = made.rows, \A u \in Runs : run'[u].row = run[u].row /\ (run'[u].pc = "unused" => run[u].pc = "unused")
    PROVE  RowInv'
<1>1. NoRow.row = 0 /\ NoRow.status = "none" /\ made.rows \in Nat
  BY DEF NoRow, TypeOK
<1> QED BY <1>1 DEF RowInv

\* The rows of a step that changes their status.
LEMMA RowsSettled ==
    ASSUME RowInv, \A a \in Archives : rows'[a].row = rows[a].row /\ (rows'[a].status = "none" <=> rows[a].status = "none"),
           made'.rows = made.rows, run' = run
    PROVE  RowInv'
  BY DEF RowInv

LEMMA RowStep ==
    ASSUME TypeOK, BegunInv, CallInv, RowInv, [Next]_vars
    PROVE  RowInv'
<1>0. /\ PortalTyped /\ ScriptTypeOK /\ made.rows \in Nat /\ \A a \in Archives : rows[a] \in RowRecord
      /\ run \in [Runs -> RunRecord]
  BY PortalInParts, TypesInParts DEF PortalTyped
<1>1. ASSUME UNCHANGED <<rows, made, run>> PROVE RowInv'
  BY <1>1 DEF RowInv
<1>2. ASSUME NEW r \in Requests, NEW a \in Archives, UploadBegins(r, a) PROVE RowInv'
  <2>1. rows' = rows /\ made'.rows = made.rows /\ run' = run
    BY <1>0, <1>2, BeginsGoes DEF scriptVars
  <2> QED BY <2>1, RowsRemoved
<1>2a. ASSUME NEW r \in Requests, Tidies(r) PROVE RowInv'
  <2>1. (\A b \in Archives : rows'[b] = rows[b] \/ rows'[b] = NoRow) /\ made'.rows = made.rows /\ run' = run
    BY <1>0, <1>2a, TidiesDoes
  <2> QED BY <2>1, RowsRemoved
<1>3. ASSUME NEW r \in Requests, NEW a \in Archives, Discard(r, a) PROVE RowInv'
  <2>1. (\A b \in Archives : rows'[b] = rows[b] \/ rows'[b] = NoRow) /\ made'.rows = made.rows /\ run' = run
    BY <1>0, <1>3 DEF Discard, PortalTyped, scriptVars
  <2> QED BY <2>1, RowsRemoved
<1>4. ASSUME NEW r \in Requests, NEW a \in Archives, NEW mode \in FromPortal, Claim(r, a, mode) PROVE RowInv'
  <2>1. rows'[a].row = rows[a].row /\ rows'[a].status = "starting" /\ rows[a].status = "ready"
    BY <1>0, <1>4 DEF Claim, Status, PortalTyped, RowRecord
  <2>2. \A b \in Archives \ {a} : rows'[b] = rows[b]
    BY <1>0, <1>4 DEF Claim, PortalTyped
  <2> QED BY <1>4, <2>1, <2>2, RowsSettled DEF Claim, scriptVars
<1>5. ASSUME NEW r \in Requests, NEW status \in {"ready", "started"}, Settle(r, status), UNCHANGED <<made, run>> PROVE RowInv'
  <2>1. \A a \in Archives : rows'[a].row = rows[a].row /\ (rows'[a].status = "none" <=> rows[a].status = "none")
    <3> TAKE a \in Archives
    <3>1. CASE rows'[a] = rows[a]
      BY <3>1
    <3>2. CASE rows[a] = [row |-> call[r].row, status |-> "starting"] /\ rows'[a] = [row |-> call[r].row, status |-> status]
      <4>1. rows[a].row = call[r].row /\ rows[a].status = "starting"
        BY <3>2
      <4>2. rows'[a].row = call[r].row /\ rows'[a].status = status
        BY <3>2
      <4> QED BY <4>1, <4>2
    <3> QED BY <1>0, <1>5, <3>1, <3>2, SettleDoes
  <2> QED BY <1>5, <2>1, RowsSettled
<1>6. ASSUME NEW r \in Requests, Publish(r) PROVE RowInv'
  <2>1. run' = run
    BY <1>0, <1>6, PublishDoes DEF scriptVars
  <2>2. CASE UNCHANGED <<rows, made>>
    BY <1>1, <2>1, <2>2
  <2>3. CASE ~ UNCHANGED <<rows, made>>
    <3>1. made'.rows = made.rows + 1
      BY <1>0, <1>6, <2>3, PublishDoes
    <3>2. \A b \in Archives :
            \/ b = req[r].archive /\ rows'[b] = [row |-> made.rows + 1, status |-> "ready"]
            \/ b # req[r].archive /\ rows[b].status = "ready" /\ rows'[b] = NoRow
            \/ b # req[r].archive /\ rows'[b] = rows[b]
      BY <1>0, <1>6, <2>3, PublishDoes
    <3>3. \A b \in Archives : rows[b].row \in Nat /\ rows[b].row <= made.rows
      BY <1>0 DEF RowInv, RowRecord
    <3>4. NoRow.row = 0 /\ NoRow.status = "none"
      BY DEF NoRow
    <3>5. \A b \in Archives : (rows'[b].status = "none" <=> rows'[b].row = 0) /\ rows'[b].row <= made'.rows
      BY <1>0, <3>1, <3>2, <3>3, <3>4 DEF RowInv
    <3>6. \A b, c \in Archives : rows'[b].row = rows'[c].row /\ rows'[b].row # 0 => b = c
      BY <1>0, <3>2, <3>3, <3>4 DEF RowInv
    <3>7. \A u \in Runs : run[u].row \in Nat /\ run[u].row <= made.rows
      BY <1>0 DEF RowInv, RunRecord
    <3>8. \A u \in Runs : run'[u].row <= made'.rows /\ (run'[u].pc = "unused" => run'[u].row = 0)
      BY <1>0, <2>1, <3>1, <3>7 DEF RowInv
    <3> QED BY <3>5, <3>6, <3>8 DEF RowInv
  <2> QED BY <2>2, <2>3
<1>7. ASSUME NEW r \in Requests, Answered(r) PROVE RowInv'
  <2>1. UNCHANGED <<made, run>>
    BY <1>7 DEF Answered
  <2>2. UNCHANGED rows \/ Settle(r, "ready") \/ Settle(r, "started")
    BY <1>0, <1>7 DEF Answered, Refused
  <2> QED BY <1>1, <1>5, <2>1, <2>2
<1>8. ASSUME NEW r \in Requests, GiveUp(r) PROVE RowInv'
  BY <1>5, <1>8 DEF GiveUp, Refused
<1>9. ASSUME NEW r \in Requests, NEW ok \in BOOLEAN, LaunchUnit(r, ok) PROVE RowInv'
  <2>1. PICK w \in Runs :
                 /\ run[w].pc = "unused" /\ run'[w].pc = "begun" /\ run'[w].row = call[r].row
                 /\ \A u \in Runs \ {w} : run'[u] = run[u]
    BY <1>9, LaunchDoes
  <2>2. UNCHANGED <<rows, made>>
    BY <1>9, LaunchDoes
  <2>3. call[r].row <= made.rows
    BY DEF CallInv
  <2> QED BY <2>1, <2>2, <2>3 DEF RowInv
<1>10. CASE ScriptStep /\ PortalBeside
  <2>1. rows' = rows /\ made'.rows = made.rows
    BY <1>0, <1>10, ReplacePortalGoes, OvertakenGrows DEF PortalBeside, portalVars
  <2>2. \A u \in Runs : run[u].pc = "unused" => run[u].row = 0
    BY DEF RowInv
  <2>3. \A u \in Runs : run'[u].row = run[u].row /\ (run'[u].pc = "unused" => run[u].pc = "unused")
    BY <1>0, <1>10, <2>2, RunsKeep
  <2> QED BY <2>1, <2>3, RowsRemoved
<1>11. ASSUME NEW r \in Requests, NEW a \in Archives, AskRelease(r, a) PROVE RowInv'
  BY <1>1, <1>11 DEF AskRelease, scriptVars
<1>12. ASSUME NEW r \in Requests,
              UploadSaved(r) \/ UploadFails(r) \/ Inspect(r) \/ Prepare(r) \/ CheckUpdate(r) \/ CallFails(r)
       PROVE  RowInv'
  BY <1>1, <1>12 DEF UploadSaved, UploadFails, Inspect, Prepare, CheckUpdate, CallFails, scriptVars
<1>13. ASSUME NEW a \in Archives, ArchiveAges(a) PROVE RowInv'
  BY <1>1, <1>13 DEF ArchiveAges
<1>14. CASE UNCHANGED vars
  BY <1>1, <1>14 DEF vars, scriptVars, portalVars
<1> QED
  BY <1>2, <1>2a, <1>3, <1>4, <1>6, <1>7, <1>8, <1>9, <1>10, <1>11, <1>12, <1>13, <1>14, StepsOfNext DEF PortalStep

\* The claims stay what they are where rows only go, or come with a number of their own.
LEMMA ClaimsKept ==
    ASSUME TypeOK, CallInv, ClaimInv, made'.replaced = made.replaced,
           \A r \in Requests : (Claims(r)' <=> Claims(r)) /\ (Claims(r) => call'[r].row = call[r].row),
           \A a \in Archives :
              rows'[a] = rows[a] \/ (rows'[a].status # "starting" /\ rows'[a].row \notin 1..made.rows)
    PROVE  ClaimInv'
<1>0. PortalTyped
  BY PortalInParts
<1>1. \A r \in Requests : Claims(r) => call[r].row \in 1..made.rows
  BY <1>0 DEF Claims, CallInv, PortalTyped, CallRecord
<1>2. \A r \in Requests, a \in Archives : Claims(r)' /\ rows'[a].row = call'[r].row => rows'[a].status = "starting"
  BY <1>1 DEF ClaimInv
<1>3. \A r, q \in Requests : Claims(r)' /\ Claims(q)' /\ call'[r].row = call'[q].row => r = q
  BY DEF ClaimInv
<1>4. ~ made'.replaced => \A a \in Archives :
          rows'[a].status = "starting" => \E r \in Requests : Claims(r)' /\ call'[r].row = rows'[a].row
  BY DEF ClaimInv
<1> QED BY <1>2, <1>3, <1>4 DEF ClaimInv, Claims

\* The claim of r is over, whatever it was.
LEMMA ClaimEnds ==
    ASSUME TypeOK, RowInv, CallInv, ClaimInv, NEW r \in Requests, NEW status \in {"ready", "started"}, Settle(r, status), made' = made,
           Claims(r) \/ call[r].row = 0,
           ~ Claims(r)', \A q \in Requests \ {r} : req'[q] = req[q] /\ call'[q] = call[q]
    PROVE  ClaimInv'
<1>0. PortalTyped
  BY PortalInParts
<1>1. \A a \in Archives :
         \/ rows'[a] = rows[a] /\ rows[a] # [row |-> call[r].row, status |-> "starting"]
         \/ /\ rows[a] = [row |-> call[r].row, status |-> "starting"]
            /\ rows'[a] = [row |-> call[r].row, status |-> status]
  BY <1>0, SettleDoes
<1>2. \A q \in Requests : Claims(q)' => q # r /\ Claims(q) /\ call'[q].row = call[q].row
  BY DEF Claims
<1>3. \A q \in Requests, a \in Archives : Claims(q)' /\ rows'[a].row = call'[q].row => rows'[a].status = "starting"
  <2> SUFFICES ASSUME NEW q \in Requests, NEW a \in Archives, Claims(q)', rows'[a].row = call'[q].row
               PROVE  rows'[a].status = "starting"
    OBVIOUS
  <2>1. q # r /\ Claims(q) /\ rows[a].row = call[q].row
    BY <1>1, <1>2
  <2>2. CASE rows[a] = [row |-> call[r].row, status |-> "starting"]
    <3>1. call[q].row = call[r].row
      BY <2>1, <2>2
    <3>2. call[q].row # 0
      BY <2>1 DEF Claims, CallInv
    <3>3. q = r
      BY <2>1, <3>1, <3>2 DEF ClaimInv
    <3> QED BY <2>1, <3>3
  <2> QED BY <1>1, <2>1, <2>2 DEF ClaimInv
<1>4. \A q, p \in Requests : Claims(q)' /\ Claims(p)' /\ call'[q].row = call'[p].row => q = p
  BY <1>2 DEF ClaimInv
<1>5. ~ made'.replaced => \A a \in Archives :
          rows'[a].status = "starting" => \E q \in Requests : Claims(q)' /\ call'[q].row = rows'[a].row
  <2> SUFFICES ASSUME ~ made.replaced, NEW a \in Archives, rows'[a].status = "starting"
               PROVE  \E q \in Requests : Claims(q)' /\ call'[q].row = rows'[a].row
    OBVIOUS
  <2>1. rows'[a] = rows[a] /\ rows[a] # [row |-> call[r].row, status |-> "starting"]
    BY <1>1
  <2>2. rows[a] \in RowRecord
    BY <1>0 DEF PortalTyped
  <2>3. rows[a].row # call[r].row
    BY <2>1, <2>2 DEF RowRecord
  <2>4. PICK q \in Requests : Claims(q) /\ call[q].row = rows[a].row
    BY <2>1 DEF ClaimInv
  <2> QED BY <2>1, <2>3, <2>4 DEF Claims
<1> QED BY <1>3, <1>4, <1>5 DEF ClaimInv, Claims

LEMMA ClaimStep ==
    ASSUME TypeOK, BegunInv, CallInv, RowInv, ClaimInv, [Next]_vars
    PROVE  ClaimInv'
<1>0. /\ PortalTyped /\ made.rows \in Nat /\ \A a \in Archives : rows[a] \in RowRecord
      /\ \A r \in Requests : req[r] \in ReqRecord /\ call[r] \in CallRecord
  BY PortalInParts DEF PortalTyped
<1>1. NoCall.method = "none" /\ NoRequest.pc = "free" /\ NoRow.row = 0 /\ NoRow.status = "none"
  BY DEF NoCall, NoRequest, NoRow
<1>2. ASSUME NEW r \in Requests, \A q \in Requests \ {r} : req'[q] = req[q] /\ call'[q] = call[q],
             ~ Claims(r), ~ Claims(r)'
      PROVE  \A q \in Requests : (Claims(q)' <=> Claims(q)) /\ (Claims(q) => call'[q].row = call[q].row)
  BY <1>2 DEF Claims
<1>3. ASSUME NEW r \in Requests, NEW a \in Archives, UploadBegins(r, a) PROVE ClaimInv'
  <2>1. /\ req[r].pc = "free" /\ call' = call /\ rows' = rows /\ made'.replaced = made.replaced
        /\ ReqGoes(r, "cleaning")
    BY <1>0, <1>3, BeginsGoes
  <2>2. \A q \in Requests : (Claims(q)' <=> Claims(q)) /\ (Claims(q) => call'[q].row = call[q].row)
    BY <2>1 DEF ReqGoes, Claims
  <2> QED BY <2>1, <2>2, ClaimsKept
<1>4. ASSUME NEW r \in Requests, NEW pc, req[r].pc # "waiting", ReqGoes(r, pc), pc # "waiting", call' = call,
             UNCHANGED <<rows, made>>
      PROVE  ClaimInv'
  <2>1. \A q \in Requests : (Claims(q)' <=> Claims(q)) /\ (Claims(q) => call'[q].row = call[q].row)
    BY <1>4 DEF ReqGoes, Claims
  <2> QED BY <1>4, <2>1, ClaimsKept
<1>5. ASSUME NEW r \in Requests, NEW method \in {"inspect", "prepare"}, NEW a \in Archives,
             Ask(r, method, a, 0, "full"), req[r].pc # "waiting", UNCHANGED <<rows, made>>
      PROVE  ClaimInv'
  <2>0. a \in Versions /\ 0 \in Nat
    BY DEF Versions
  <2>1. ReqGoes(r, "waiting") /\ CallGoes(r, [pc |-> "asked", method |-> method, archive |-> a, row |-> 0, mode |-> "full", ok |-> FALSE])
    BY <1>0, <1>5, <2>0, AskGoes
  <2>2. call'[r].method # "update"
    BY <2>1 DEF CallGoes
  <2>3. ~ Claims(r) /\ ~ Claims(r)'
    BY <1>5, <2>2 DEF Claims
  <2>4. \A q \in Requests \ {r} : req'[q] = req[q] /\ call'[q] = call[q]
    BY <2>1 DEF ReqGoes, CallGoes
  <2> QED BY <1>2, <1>5, <2>3, <2>4, ClaimsKept
<1>6. ASSUME NEW r \in Requests, NEW a \in Archives, AskRelease(r, a) PROVE ClaimInv'
  BY <1>5, <1>6 DEF AskRelease, Idle
<1>7. ASSUME NEW r \in Requests, UploadSaved(r) PROVE ClaimInv'
  BY <1>5, <1>7 DEF UploadSaved, CallInv
<1>8. ASSUME NEW r \in Requests, UploadFails(r) PROVE ClaimInv'
  <2>1. ReqGoes(r, "free")
    BY <1>0, <1>8, DoneGoes DEF UploadFails, PortalTyped
  <2> QED BY <1>4, <1>8, <2>1 DEF UploadFails
<1>9. ASSUME NEW r \in Requests, Tidies(r) PROVE ClaimInv'
  <2>1. /\ req[r].pc # "waiting" /\ call' = call /\ made' = made
        /\ \A b \in Archives : rows'[b] = rows[b] \/ rows'[b] = NoRow
    BY <1>0, <1>9, TidiesDoes
  <2>2. req'[r].pc # "waiting" /\ \A q \in Requests \ {r} : req'[q] = req[q]
    BY <1>0, <1>9, TidiesDoes DEF ReqGoes
  <2>3. \A b \in Archives : rows'[b] = rows[b] \/ (rows'[b].status # "starting" /\ rows'[b].row \notin 1..made.rows)
    BY <1>0, <1>1, <2>1
  <2>4. \A q \in Requests : (Claims(q)' <=> Claims(q)) /\ (Claims(q) => call'[q].row = call[q].row)
    BY <2>1, <2>2 DEF Claims
  <2> QED BY <2>1, <2>3, <2>4, ClaimsKept
<1>10. ASSUME NEW r \in Requests, NEW a \in Archives, Discard(r, a) PROVE ClaimInv'
  <2>1. ReqGoes(r, "free") \/ ReqGoes(r, "removing")
    BY <1>0, <1>10, RemoveGoes DEF Discard, PortalTyped
  <2>2. req[r].pc = "free" /\ call' = call /\ made' = made
    BY <1>10 DEF Discard, Idle
  <2>3. \A q \in Requests : (Claims(q)' <=> Claims(q)) /\ (Claims(q) => call'[q].row = call[q].row)
    BY <2>1, <2>2 DEF ReqGoes, Claims
  <2>4. \A b \in Archives : rows'[b] = rows[b] \/ rows'[b] = NoRow
    BY <1>0, <1>10 DEF Discard, PortalTyped
  <2>5. \A b \in Archives : rows'[b] = rows[b] \/ (rows'[b].status # "starting" /\ rows'[b].row \notin 1..made.rows)
    BY <1>0, <1>1, <2>4
  <2> QED BY <2>2, <2>3, <2>5, ClaimsKept
<1>11. ASSUME NEW r \in Requests, Publish(r) PROVE ClaimInv'
  <2>1. req[r].pc = "publishing" /\ call' = call /\ (ReqGoes(r, "free") \/ ReqGoes(r, "removing"))
    BY <1>0, <1>11, PublishDoes
  <2>2. CASE UNCHANGED <<rows, made>>
    BY <1>4, <2>1, <2>2
  <2>3. CASE ~ UNCHANGED <<rows, made>>
    <3>1. made'.replaced = made.replaced
      BY <1>0, <1>11, <2>3, PublishDoes
    <3>2. \A b \in Archives :
            rows'[b] = [row |-> made.rows + 1, status |-> "ready"] \/ rows'[b] = NoRow \/ rows'[b] = rows[b]
      BY <1>0, <1>11, <2>3, PublishDoes
    <3>3. \A b \in Archives : rows'[b] = rows[b] \/ (rows'[b].status # "starting" /\ rows'[b].row \notin 1..made.rows)
      <4> TAKE b \in Archives
      <4>1. CASE rows'[b] = [row |-> made.rows + 1, status |-> "ready"]
        <5>1. rows'[b].row = made.rows + 1 /\ rows'[b].status = "ready"
          BY <4>1
        <5> QED BY <1>0, <5>1
      <4> QED BY <1>1, <3>2, <4>1
    <3>4. \A q \in Requests : (Claims(q)' <=> Claims(q)) /\ (Claims(q) => call'[q].row = call[q].row)
      BY <2>1 DEF ReqGoes, Claims
    <3> QED BY <3>1, <3>3, <3>4, ClaimsKept
  <2> QED BY <2>2, <2>3
<1>12. ASSUME NEW r \in Requests, NEW a \in Archives, NEW mode \in FromPortal, Claim(r, a, mode) PROVE ClaimInv'
  <2> DEFINE i == rows[a].row
             c == [pc |-> "asked", method |-> "update", archive |-> a, row |-> i, mode |-> mode, ok |-> FALSE]
  <2>0. i \in Nat /\ a \in Versions /\ mode \in {"full", "bootstrap-only"}
    BY <1>0, PortalAssumption DEF RowRecord, Versions
  <2>1. /\ req[r].pc = "free" /\ rows[a].status = "ready" /\ made' = made /\ Ask(r, "update", a, i, mode)
        /\ rows' = [rows EXCEPT ![a].status = "starting"]
    BY <1>12 DEF Claim, Idle, Status
  <2>2. i # 0
    BY <2>1 DEF RowInv
  <2>3. ReqGoes(r, "waiting") /\ CallGoes(r, c)
    <3>1. ASSUME NEW row \in Nat, NEW m \in {"full", "bootstrap-only"}, Ask(r, "update", a, row, m)
          PROVE  /\ ReqGoes(r, "waiting")
                 /\ CallGoes(r, [pc |-> "asked", method |-> "update", archive |-> a, row |-> row, mode |-> m, ok |-> FALSE])
      BY <1>0, <2>0, <3>1, AskGoes
    <3> QED BY <2>0, <2>1, <3>1
  <2>4. c.method = "update" /\ c.row = i
    OBVIOUS
  <2> HIDE DEF c
  <2>5. req'[r].pc = "waiting" /\ call'[r].method = "update" /\ call'[r].row = i
        /\ \A q \in Requests \ {r} : req'[q] = req[q] /\ call'[q] = call[q]
    BY <2>3, <2>4 DEF ReqGoes, CallGoes
  <2>6. rows'[a].row = i /\ rows'[a].status = "starting" /\ \A b \in Archives \ {a} : rows'[b] = rows[b] /\ rows[b].row # i
    BY <1>0, <2>1, <2>2 DEF RowInv, PortalTyped, RowRecord
  <2>7. \A q \in Requests \ {r} : Claims(q) => call[q].row # i
    BY <2>1 DEF ClaimInv
  <2>8. \A q \in Requests : Claims(q)' <=> q = r \/ Claims(q)
    BY <2>1, <2>5 DEF Claims
  <2>9. \A q \in Requests, b \in Archives : Claims(q)' /\ rows'[b].row = call'[q].row => rows'[b].status = "starting"
    BY <2>5, <2>6, <2>8 DEF ClaimInv
  <2>10. \A p, q \in Requests : Claims(p)' /\ Claims(q)' /\ call'[p].row = call'[q].row => p = q
    BY <2>5, <2>7, <2>8 DEF ClaimInv
  <2>11. ~ made'.replaced => \A b \in Archives :
            rows'[b].status = "starting" => \E q \in Requests : Claims(q)' /\ call'[q].row = rows'[b].row
    <3> SUFFICES ASSUME ~ made.replaced, NEW b \in Archives, rows'[b].status = "starting"
                 PROVE  \E q \in Requests : Claims(q)' /\ call'[q].row = rows'[b].row
      BY <2>1
    <3>1. CASE b = a
      BY <2>5, <2>6, <2>8, <3>1
    <3>2. CASE b # a
      <4>1. PICK q \in Requests : Claims(q) /\ call[q].row = rows[b].row
        BY <2>6, <3>2 DEF ClaimInv
      <4>2. q # r
        BY <2>1, <4>1 DEF Claims
      <4> QED BY <2>5, <2>6, <2>8, <3>2, <4>1, <4>2
    <3> QED BY <3>1, <3>2
  <2> QED BY <2>9, <2>10, <2>11 DEF ClaimInv, Claims
<1>13. ASSUME NEW r \in Requests, Answered(r) PROVE ClaimInv'
  <2>1. req[r].pc = "waiting" /\ made' = made /\ call'[r] = NoCall /\ \A q \in Requests \ {r} : call'[q] = call[q]
    BY <1>0, <1>13 DEF Answered, PortalTyped
  <2>2. ~ Claims(r)'
    BY <1>1, <2>1 DEF Claims
  <2>3. CASE Refused(r)
    <3>1. ReqGoes(r, "free") /\ Settle(r, "ready")
      BY <1>0, <2>3, RefusedDoes
    <3>2. Claims(r) \/ call[r].row = 0
      BY <2>1 DEF Claims, CallInv
    <3> QED BY <2>1, <2>2, <3>1, <3>2, ClaimEnds DEF ReqGoes
  <2>4. CASE call[r].method = "update" /\ Done(r) /\ Settle(r, "started")
    <3>1. ReqGoes(r, "free")
      BY <1>0, <2>4, DoneGoes DEF PortalTyped
    <3> QED BY <2>1, <2>2, <2>4, <3>1, ClaimEnds DEF ReqGoes, Claims
  <2>5. CASE call[r].method # "update" /\ Move(r, "publishing", call[r].archive) /\ rows' = rows
    <3>1. call[r].archive \in Versions
      BY <1>0 DEF CallRecord
    <3>2. ReqGoes(r, "publishing")
      BY <1>0, <2>5, <3>1, MoveGoes DEF PortalTyped
    <3>3. ~ Claims(r) /\ \A q \in Requests \ {r} : req'[q] = req[q] /\ call'[q] = call[q]
      BY <2>1, <2>5, <3>2 DEF Claims, ReqGoes
    <3> QED BY <1>2, <2>1, <2>2, <2>5, <3>3, ClaimsKept
  <2> QED BY <1>13, <2>3, <2>4, <2>5 DEF Answered
<1>14. ASSUME NEW r \in Requests, GiveUp(r) PROVE ClaimInv'
  <2>1. req[r].pc = "waiting" /\ made' = made /\ \A q \in Requests \ {r} : call'[q] = call[q]
    BY <1>0, <1>14 DEF GiveUp, PortalTyped
  <2>2. ReqGoes(r, "free") /\ Settle(r, "ready")
    BY <1>0, <1>14, RefusedDoes DEF GiveUp
  <2>3. ~ Claims(r)'
    BY <2>2 DEF Claims, ReqGoes
  <2>4. Claims(r) \/ call[r].row = 0
    BY <2>1 DEF Claims, CallInv
  <2> QED BY <2>1, <2>2, <2>3, <2>4, ClaimEnds DEF ReqGoes
<1>15. ASSUME NEW r \in Requests, UNCHANGED <<req, rows, made>>, \A q \in Requests \ {r} : call'[q] = call[q],
              req[r].pc = "waiting" => call'[r].method = call[r].method /\ call'[r].row = call[r].row
       PROVE  ClaimInv'
  <2>1. \A q \in Requests : (Claims(q)' <=> Claims(q)) /\ (Claims(q) => call'[q].row = call[q].row)
    BY <1>15 DEF Claims
  <2> QED BY <1>15, <2>1, ClaimsKept
<1>16. ASSUME NEW r \in Requests, NEW ok \in BOOLEAN, Return(r, ok), UNCHANGED <<req, rows, made>> PROVE ClaimInv'
  BY <1>0, <1>15, <1>16, ReturnGoes, AnswersFields DEF CallGoes
<1>17. ASSUME NEW r \in Requests, Inspect(r) PROVE ClaimInv'
  <2>1. PICK ok \in BOOLEAN : Return(r, ok)
    <3>1. (call[r].archive \in archives) \in BOOLEAN
      OBVIOUS
    <3> QED BY <1>17, <3>1, Zenon DEF Inspect
  <2> QED BY <1>16, <1>17, <2>1 DEF Inspect
<1>18. ASSUME NEW r \in Requests, Prepare(r) PROVE ClaimInv'
  BY <1>16, <1>18 DEF Prepare
<1>19. ASSUME NEW r \in Requests, CallFails(r) PROVE ClaimInv'
  BY <1>16, <1>19 DEF CallFails
<1>20. ASSUME NEW r \in Requests, CheckUpdate(r) PROVE ClaimInv'
  <2>1. call'[r].method = call[r].method /\ call'[r].row = call[r].row /\ \A q \in Requests \ {r} : call'[q] = call[q]
    BY <1>0, <1>20 DEF CheckUpdate, PortalTyped, CallRecord
  <2> QED BY <1>15, <1>20, <2>1 DEF CheckUpdate
<1>21. ASSUME NEW r \in Requests, NEW ok \in BOOLEAN, LaunchUnit(r, ok) PROVE ClaimInv'
  BY <1>0, <1>15, <1>21, LaunchDoes, AnswersFields DEF CallGoes
<1>22. ASSUME UNCHANGED <<req, call, rows, made>> PROVE ClaimInv'
  BY <1>22 DEF ClaimInv, Claims
<1>23. ASSUME NEW a \in Archives, ArchiveAges(a) PROVE ClaimInv'
  BY <1>22, <1>23 DEF ArchiveAges
<1>24. CASE PortalBeside
  <2>1. CASE UNCHANGED portalVars
    BY <1>22, <2>1 DEF portalVars
  <2>2. CASE CallsEnd /\ UNCHANGED <<rows, old, req, made>>
    <3>1. \A q \in Requests : req[q].pc = "waiting" => call'[q].method = call[q].method /\ call'[q].row = call[q].row
      <4>1. ASSUME NEW q \in Requests, req[q].pc = "waiting"
            PROVE  call'[q] = call[q] \/ call'[q] = Answers(call[q], FALSE)
        BY <1>0, <2>2, <4>1, CallsEndGoes
      <4>2. ASSUME NEW q \in Requests
            PROVE  Answers(call[q], FALSE).method = call[q].method /\ Answers(call[q], FALSE).row = call[q].row
        BY <1>0, AnswersFields DEF PortalTyped
      <4> QED BY <4>1, <4>2
    <3>2. \A q \in Requests : (Claims(q)' <=> Claims(q)) /\ (Claims(q) => call'[q].row = call[q].row)
      BY <2>2, <3>1 DEF Claims
    <3> QED BY <2>2, <3>2, ClaimsKept
  <2>3. CASE ReplacePortal /\ UNCHANGED <<rows, old>>
    <3>1. made'.replaced = TRUE /\ \A q \in Requests : req'[q].pc = "free"
      BY <1>0, <1>1, <2>3, ReplacePortalGoes
    <3> QED BY <3>1 DEF ClaimInv, Claims
  <2>4. ASSUME NEW S \in SUBSET Runs, made' = [made EXCEPT !.overtaken = @ \cup S], UNCHANGED <<rows, req, call>>
        PROVE  ClaimInv'
    <3>1. made'.replaced = made.replaced
      BY <1>0, <2>4, OvertakenGrows
    <3> QED BY <2>4, <3>1 DEF ClaimInv, Claims
  <2> QED BY <1>24, <2>1, <2>2, <2>3, <2>4 DEF PortalBeside
<1>25. CASE UNCHANGED vars
  BY <1>22, <1>25 DEF vars, portalVars
<1> QED
  BY <1>3, <1>6, <1>7, <1>8, <1>9, <1>10, <1>11, <1>12, <1>13, <1>14, <1>17, <1>18, <1>19, <1>20, <1>21, <1>23,
     <1>24, <1>25, StepsOfNext
  DEF PortalStep

(***************************************************************************)
(* How often a row is started.                                             *)
(***************************************************************************)

\* Sets that get smaller, that exchange an element, and that get one more.
LEMMA CountFewer ==
    ASSUME NEW S, NEW T, IsFiniteSet(S), T \subseteq S, NEW n \in Nat, NEW m \in Nat, Cardinality(S) <= 1 + n, n <= m
    PROVE  IsFiniteSet(T) /\ Cardinality(T) <= 1 + m
<1>1. IsFiniteSet(T) /\ Cardinality(T) <= Cardinality(S)
  BY FS_Subset
<1>2. Cardinality(S) \in Nat /\ Cardinality(T) \in Nat
  BY <1>1, FS_CardinalityType
<1> QED BY <1>1, <1>2

LEMMA CountMoved ==
    ASSUME NEW S, NEW T, NEW x \in S, NEW y, IsFiniteSet(S), T \subseteq (S \ {x}) \cup {y},
           NEW n \in Nat, NEW m \in Nat, Cardinality(S) <= 1 + n, n <= m
    PROVE  IsFiniteSet(T) /\ Cardinality(T) <= 1 + m
<1>1. IsFiniteSet(S \ {x}) /\ Cardinality(S \ {x}) = Cardinality(S) - 1
  BY FS_RemoveElement
<1>2. IsFiniteSet((S \ {x}) \cup {y}) /\ Cardinality((S \ {x}) \cup {y}) <= Cardinality(S)
  <2>1. Cardinality(S) \in Nat /\ Cardinality(S \ {x}) \in Nat
    BY <1>1, FS_CardinalityType
  <2>2. /\ IsFiniteSet((S \ {x}) \cup {y})
        /\ \/ Cardinality((S \ {x}) \cup {y}) = Cardinality(S \ {x})
           \/ Cardinality((S \ {x}) \cup {y}) = Cardinality(S \ {x}) + 1
    BY <1>1, FS_AddElement
  <2> QED BY <1>1, <2>1, <2>2
<1>3. Cardinality(S) \in Nat /\ Cardinality((S \ {x}) \cup {y}) \in Nat
  BY <1>2, FS_CardinalityType
<1>4. Cardinality((S \ {x}) \cup {y}) <= 1 + n
  BY <1>2, <1>3
<1> QED BY <1>2, <1>4, CountFewer

LEMMA CountMore ==
    ASSUME NEW S, NEW T, NEW y, IsFiniteSet(S), T \subseteq S \cup {y},
           NEW n \in Nat, NEW m \in Nat, Cardinality(S) <= 1 + n, n + 1 <= m
    PROVE  IsFiniteSet(T) /\ Cardinality(T) <= 1 + m
<1>1. IsFiniteSet(S \cup {y}) /\ Cardinality(S \cup {y}) <= Cardinality(S) + 1 /\ Cardinality(S) \in Nat
  BY FS_AddElement, FS_CardinalityType
<1>2. Cardinality(S \cup {y}) \in Nat
  BY <1>1, FS_CardinalityType
<1>3. Cardinality(S \cup {y}) <= 1 + (n + 1) /\ n + 1 \in Nat
  BY <1>1, <1>2
<1> QED BY <1>1, <1>3, CountFewer

\* Lost answers are counted, never forgotten.
LEMMA LostCounted ==
    ASSUME TypeOK, BegunInv, CallInv, [Next]_vars
    PROVE  faults.lost \in Nat /\ faults'.lost \in Nat /\ faults.lost <= faults'.lost
<1>1. ScriptTypeOK /\ ScriptTypeOK'
  BY TypeStep DEF TypeOK
<1>2. faults \in Faults /\ faults' \in Faults
  BY <1>1 DEF ScriptTypeOK, Faults
<1>3. faults.lost \in Nat /\ faults'.lost \in Nat
  BY <1>2 DEF Faults
<1>4. \A kind : Happens(kind) => faults'.lost >= faults.lost
  BY <1>2, FaultCounted
<1>5. CASE PortalStep
  BY <1>3, <1>5, PortalTypes DEF Beside
<1>6. ASSUME NEW r \in Requests, NEW ok \in BOOLEAN, LaunchUnit(r, ok) PROVE faults.lost <= faults'.lost
  BY <1>3, <1>6, LaunchDoes
<1>7. CASE ScriptStep
  <2>1. UNCHANGED faults \/ \E kind : Happens(kind)
    <3>1. ASSUME NEW u \in Runs, MarkArchive(u) \/ Step(u) PROVE UNCHANGED faults \/ \E kind : Happens(kind)
      BY <3>1 DEF Step, MarkArchive, Execute, WrapperFails, TakeLock, NotStarted, Stage, InstallPart, Plan, Render,
                  SyncHost, Finish
    <3>2. ASSUME NEW u \in Runs, InstallAgent(u) \/ ComposeUp(u) \/ Fail(u) \/ Kill(u)
          PROVE  UNCHANGED faults \/ \E kind : Happens(kind)
      BY <3>2 DEF InstallAgent, ComposeUp, Fail, Kill
    <3>3. CASE \E x \in ByHand : RunByHand(x[1], x[2])
      BY <3>3 DEF RunByHand
    <3>4. CASE AgentRestarts \/ ServiceRestarts \/ BackupBegins \/ (\E p \in Parts : BackupReads(p)) \/ BackupEnds
      BY <3>4 DEF AgentRestarts, ServiceRestarts, BackupBegins, BackupReads, BackupEnds
    <3> QED BY <1>7, <3>1, <3>2, <3>3, <3>4 DEF ScriptStep, OtherStep
  <2> QED BY <1>3, <1>4, <2>1
<1>8. CASE UNCHANGED vars
  BY <1>3, <1>8 DEF vars, scriptVars
<1> QED BY <1>3, <1>5, <1>6, <1>7, <1>8, StepsOfNext

\* A row is started once, and once more for every answer that was lost.
Once(i) == IsFiniteSet(Starts(i)) /\ Cardinality(Starts(i)) <= 1 + faults.lost

LEMMA StartsStep ==
    ASSUME TypeOK, BegunInv, CallInv, RowInv, StartsInv, [Next]_vars
    PROVE  StartsInv'
<1> SUFFICES ASSUME NEW i \in Nat \ {0} PROVE Once(i)'
  BY DEF StartsInv, Once
<1>0. /\ PortalTyped /\ made.rows \in Nat /\ ScriptTypeOK /\ run \in [Runs -> RunRecord] /\ faults \in Faults
      /\ \A a \in Archives : rows[a] \in RowRecord
      /\ \A r \in Requests : req[r] \in ReqRecord /\ call[r] \in CallRecord
  BY PortalInParts, TypesInParts DEF PortalTyped
<1>1. faults.lost \in Nat /\ faults'.lost \in Nat /\ faults.lost <= faults'.lost
  BY LostCounted
<1>2. IsFiniteSet(Starts(i)) /\ Cardinality(Starts(i)) <= 1 + faults.lost
  BY DEF StartsInv
<1>3. NoCall.row = 0 /\ NoCall.pc = "none" /\ NoRow.row = 0
  BY DEF NoCall, NoRow
<1> DEFINE R == [row |-> i, status |-> "ready"]
           RunsLess == \A u \in Runs : run'[u].row = i => run[u].row = i
           CallsLess == \A r \in Requests : call'[r].row = i /\ Pending(r)' => call[r].row = i /\ Pending(r)
           RowsLess == \A a \in Archives : rows'[a] = R => rows[a] = R
<1>4. R.row = i /\ R.status = "ready"
  OBVIOUS
<1>5. /\ RunsLess => RunsOf(i)' \subseteq RunsOf(i)
      /\ CallsLess => CallsOf(i)' \subseteq CallsOf(i)
      /\ RowsLess => ReadyOf(i)' \subseteq ReadyOf(i)
  BY DEF RunsOf, CallsOf, ReadyOf
<1>6. ASSUME RunsLess, CallsLess, RowsLess PROVE Once(i)'
  <2>1. Starts(i)' \subseteq Starts(i)
    BY <1>5, <1>6 DEF Starts
  <2> QED BY <1>1, <1>2, <2>1, CountFewer DEF Once
<1>7. ASSUME NEW x \in Starts(i), NEW y, Starts(i)' \subseteq (Starts(i) \ {x}) \cup {y} PROVE Once(i)'
  BY <1>1, <1>2, <1>7, CountMoved DEF Once
<1>8. ASSUME NEW y, Starts(i)' \subseteq Starts(i) \cup {y}, faults.lost + 1 <= faults'.lost PROVE Once(i)'
  BY <1>1, <1>2, <1>8, CountMore DEF Once
<1> HIDE DEF R, RunsLess, CallsLess, RowsLess
<1>9. ASSUME NEW r \in Requests, \A q \in Requests \ {r} : call'[q] = call[q],
             call'[r].row = i /\ Pending(r)' => call[r].row = i /\ Pending(r)
      PROVE  CallsLess
  BY <1>9 DEF CallsLess, Pending
<1>10. ASSUME \A a \in Archives : rows'[a] = rows[a] \/ rows'[a] = NoRow PROVE RowsLess
  BY <1>3, <1>4, <1>10 DEF RowsLess
<1>11. /\ UNCHANGED run => RunsLess
       /\ UNCHANGED call => CallsLess
       /\ UNCHANGED rows => RowsLess
  BY DEF RunsLess, CallsLess, RowsLess, Pending
<1>12. ASSUME NEW r \in Requests, NEW a \in Archives, UploadBegins(r, a) PROVE Once(i)'
  <2>1. run' = run /\ call' = call /\ rows' = rows
    BY <1>0, <1>12, BeginsGoes DEF scriptVars
  <2> QED BY <1>6, <1>11, <2>1
<1>12a. ASSUME NEW r \in Requests, Tidies(r) PROVE Once(i)'
  <2>1. run' = run /\ call' = call /\ \A b \in Archives : rows'[b] = rows[b] \/ rows'[b] = NoRow
    BY <1>0, <1>12a, TidiesDoes
  <2> QED BY <1>6, <1>10, <1>11, <2>1
<1>13. ASSUME NEW r \in Requests, NEW a \in Archives, Discard(r, a) PROVE Once(i)'
  <2>1. run' = run /\ call' = call /\ \A b \in Archives : rows'[b] = rows[b] \/ rows'[b] = NoRow
    BY <1>0, <1>13 DEF Discard, PortalTyped, scriptVars
  <2> QED BY <1>6, <1>10, <1>11, <2>1
<1>14. ASSUME NEW r \in Requests, NEW method \in {"inspect", "prepare"}, NEW a \in Archives,
              Ask(r, method, a, 0, "full"), UNCHANGED <<rows, run>>
       PROVE  Once(i)'
  <2>0. a \in Versions /\ 0 \in Nat
    BY DEF Versions
  <2>1. CallGoes(r, [pc |-> "asked", method |-> method, archive |-> a, row |-> 0, mode |-> "full", ok |-> FALSE])
    BY <1>0, <1>14, <2>0, AskGoes
  <2>2. call'[r].row = 0
    BY <2>1 DEF CallGoes
  <2>3. CallsLess
    BY <1>9, <2>1, <2>2 DEF CallGoes
  <2> QED BY <1>6, <1>11, <1>14, <2>3
<1>15. ASSUME NEW r \in Requests, NEW a \in Archives, AskRelease(r, a) PROVE Once(i)'
  BY <1>14, <1>15 DEF AskRelease, scriptVars
<1>16. ASSUME NEW r \in Requests, UploadSaved(r) PROVE Once(i)'
  BY <1>14, <1>16 DEF UploadSaved, CallInv
<1>17. ASSUME UNCHANGED <<run, call, rows>> PROVE Once(i)'
  BY <1>6, <1>11, <1>17
<1>18. ASSUME NEW r \in Requests, UploadFails(r) PROVE Once(i)'
  BY <1>17, <1>18 DEF UploadFails
<1>19. ASSUME NEW r \in Requests, Publish(r) PROVE Once(i)'
  <2>1. run' = run /\ call' = call
    BY <1>0, <1>19, PublishDoes DEF scriptVars
  <2>2. CASE UNCHANGED <<rows, made>>
    BY <1>17, <2>1, <2>2
  <2>3. CASE ~ UNCHANGED <<rows, made>>
    <3>1. \A b \in Archives :
            \/ b = req[r].archive /\ rows'[b] = [row |-> made.rows + 1, status |-> "ready"]
            \/ b # req[r].archive /\ rows[b].status = "ready" /\ rows'[b] = NoRow
            \/ b # req[r].archive /\ rows'[b] = rows[b]
      BY <1>0, <1>19, <2>3, PublishDoes
    <3>2. CASE i = made.rows + 1
      <4>1. RunsOf(i)' = {}
        BY <1>0, <2>1, <3>2 DEF RunsOf, RowInv, RunRecord
      <4>2. CallsOf(i)' = {}
        BY <1>0, <2>1, <3>2 DEF CallsOf, CallInv, CallRecord
      <4>3. \A b \in Archives : rows[b].row # i
        BY <1>0, <3>2 DEF RowInv, RowRecord
      <4>4. \A b \in Archives : rows'[b] = R => b = req[r].archive
        BY <1>3, <1>4, <3>1, <4>3
      <4>5. ReadyOf(i)' \subseteq {req[r].archive}
        BY <4>4 DEF ReadyOf, R
      <4>6. Starts(i)' \subseteq {<<"row", req[r].archive>>}
        BY <4>1, <4>2, <4>5 DEF Starts
      <4>7. /\ IsFiniteSet({<<"row", req[r].archive>>})
            /\ Cardinality({<<"row", req[r].archive>>}) = 1
        BY FS_Singleton
      <4>8. Cardinality({<<"row", req[r].archive>>}) <= 1 + faults.lost
        BY <1>1, <4>7
      <4> QED BY <1>1, <4>6, <4>7, <4>8, CountFewer DEF Once
    <3>3. CASE i # made.rows + 1
      <4>1. ASSUME NEW b \in Archives, rows'[b] = R PROVE rows[b] = R
        <5>1. CASE rows'[b] = [row |-> made.rows + 1, status |-> "ready"]
          <6>1. rows'[b].row = made.rows + 1
            BY <5>1
          <6> QED BY <1>4, <3>3, <4>1, <6>1
        <5> QED BY <1>3, <1>4, <3>1, <4>1, <5>1
      <4> QED BY <1>6, <1>11, <2>1, <4>1 DEF RowsLess
    <3> QED BY <3>2, <3>3
  <2> QED BY <2>2, <2>3
<1>20. ASSUME NEW r \in Requests, NEW a \in Archives, NEW mode \in FromPortal, Claim(r, a, mode) PROVE Once(i)'
  <2>1. /\ rows[a].status = "ready" /\ Ask(r, "update", a, rows[a].row, mode) /\ call[r] = NoCall
        /\ rows' = [rows EXCEPT ![a].status = "starting"] /\ run' = run
    BY <1>20 DEF Claim, Idle, Status, scriptVars
  <2>2. rows[a].row \in Nat /\ a \in Versions /\ mode \in {"full", "bootstrap-only"}
    BY <1>0, PortalAssumption DEF RowRecord, Versions
  <2>3. call'[r].row = rows[a].row /\ \A q \in Requests \ {r} : call'[q] = call[q]
    <3>1. ASSUME NEW row \in Nat, NEW m \in {"full", "bootstrap-only"}, Ask(r, "update", a, row, m)
          PROVE  call'[r].row = row /\ \A q \in Requests \ {r} : call'[q] = call[q]
      <4>1. CallGoes(r, [pc |-> "asked", method |-> "update", archive |-> a, row |-> row, mode |-> m, ok |-> FALSE])
        BY <1>0, <2>2, <3>1, AskGoes
      <4> QED BY <4>1 DEF CallGoes
    <3> QED BY <2>1, <2>2, <3>1
  <2>4. rows'[a].status = "starting" /\ \A b \in Archives \ {a} : rows'[b] = rows[b]
    BY <1>0, <2>1 DEF PortalTyped, RowRecord
  <2>5. RowsLess /\ rows'[a] # R
    BY <1>4, <2>4 DEF RowsLess
  <2>6. CASE rows[a].row = i
    <3>1. rows[a] = R
      BY <1>0, <2>1, <2>6 DEF R, RowRecord
    <3>2. a \in ReadyOf(i) /\ a \notin ReadyOf(i)' /\ ReadyOf(i)' \subseteq ReadyOf(i)
      BY <1>5, <2>5, <3>1 DEF ReadyOf, R
    <3>3. RunsOf(i)' \subseteq RunsOf(i) /\ CallsOf(i)' \subseteq CallsOf(i) \cup {r}
      BY <2>1, <2>3 DEF RunsOf, CallsOf, Pending
    <3>4. <<"row", a>> \in Starts(i) /\ Starts(i)' \subseteq (Starts(i) \ {<<"row", a>>}) \cup {<<"call", r>>}
      BY <3>2, <3>3 DEF Starts
    <3> QED BY <1>7, <3>4
  <2>7. CASE rows[a].row # i
    BY <1>6, <1>9, <1>11, <2>1, <2>3, <2>5, <2>7
  <2> QED BY <2>6, <2>7
<1>21. ASSUME NEW r \in Requests, NEW status \in {"ready", "started"}, Settle(r, status)
       PROVE  /\ call[r].row # i \/ status # "ready" => RowsLess
              /\ \E a : ReadyOf(i)' \subseteq ReadyOf(i) \cup {a}
  <2>1. \A a \in Archives :
         \/ rows'[a] = rows[a]
         \/ /\ rows[a] = [row |-> call[r].row, status |-> "starting"]
            /\ rows'[a] = [row |-> call[r].row, status |-> status]
    BY <1>0, <1>21, SettleDoes
  <2>2. \A a \in Archives : rows'[a] = rows[a] \/ (rows'[a].row = call[r].row /\ rows'[a].status = status /\ rows[a].row = call[r].row)
    <3> TAKE a \in Archives
    <3>1. CASE rows[a] = [row |-> call[r].row, status |-> "starting"] /\ rows'[a] = [row |-> call[r].row, status |-> status]
      <4>1. rows[a].row = call[r].row
        BY <3>1
      <4>2. rows'[a].row = call[r].row /\ rows'[a].status = status
        BY <3>1
      <4> QED BY <4>1, <4>2
    <3> QED BY <2>1, <3>1
  <2>3. call[r].row # i \/ status # "ready" => RowsLess
    BY <1>4, <2>2 DEF RowsLess
  <2>4. ASSUME NEW a \in Archives, NEW b \in Archives, rows'[a] = R, rows[a] # R, rows'[b] = R, rows[b] # R PROVE a = b
    <3>1. rows[a].row = i /\ rows[b].row = i
      BY <1>4, <2>2, <2>4
    <3> QED BY <3>1 DEF RowInv
  <2>5. \E a : \A b \in Archives : rows'[b] = R => rows[b] = R \/ b = a
    BY <2>4
  <2>6. PICK a : \A b \in Archives : rows'[b] = R => rows[b] = R \/ b = a
    BY <2>5
  <2>7. ReadyOf(i)' \subseteq ReadyOf(i) \cup {a}
    BY <2>6 DEF ReadyOf, R
  <2> QED BY <2>3, <2>7
<1>22. ASSUME NEW r \in Requests, Answered(r) PROVE Once(i)'
  <2>1. run' = run /\ call[r].pc = "done" /\ call'[r] = NoCall /\ \A q \in Requests \ {r} : call'[q] = call[q]
    BY <1>0, <1>22 DEF Answered, PortalTyped
  <2>2. CallsLess
    BY <1>3, <1>9, <2>1
  <2>3. CASE ~ call[r].ok /\ Settle(r, "ready")
    <3>1. CASE call[r].row # i
      BY <1>6, <1>11, <1>21, <2>1, <2>2, <2>3, <3>1
    <3>2. CASE call[r].row = i
      <4>1. r \in CallsOf(i) /\ r \notin CallsOf(i)' /\ CallsOf(i)' \subseteq CallsOf(i)
        BY <1>3, <1>5, <2>1, <2>2, <2>3, <3>2 DEF CallsOf, Pending
      <4>2. PICK a : ReadyOf(i)' \subseteq ReadyOf(i) \cup {a}
        BY <1>21, <2>3
      <4>3. RunsOf(i)' \subseteq RunsOf(i)
        BY <2>1 DEF RunsOf
      <4>4. <<"call", r>> \in Starts(i) /\ Starts(i)' \subseteq (Starts(i) \ {<<"call", r>>}) \cup {<<"row", a>>}
        BY <4>1, <4>2, <4>3 DEF Starts
      <4> QED BY <1>7, <4>4
    <3> QED BY <3>1, <3>2
  <2>4. CASE Settle(r, "started")
    BY <1>6, <1>11, <1>21, <2>1, <2>2, <2>4
  <2>5. CASE rows' = rows
    BY <1>6, <1>11, <2>1, <2>2, <2>5
  <2> QED BY <1>22, <2>3, <2>4, <2>5 DEF Answered, Refused
<1>23. ASSUME NEW r \in Requests, GiveUp(r) PROVE Once(i)'
  <2>1. run' = run /\ (call'[r] = NoCall \/ call'[r] = call[r]) /\ \A q \in Requests \ {r} : call'[q] = call[q]
    BY <1>0, <1>23 DEF GiveUp, PortalTyped
  <2>2. CallsLess
    BY <1>3, <1>9, <2>1 DEF Pending
  <2>3. faults.lost + 1 <= faults'.lost /\ Settle(r, "ready")
    BY <1>0, <1>1, <1>23, FaultCounted DEF GiveUp, Refused
  <2>4. PICK a : ReadyOf(i)' \subseteq ReadyOf(i) \cup {a}
    BY <1>21, <2>3
  <2>5. RunsOf(i)' \subseteq RunsOf(i)
    BY <2>1 DEF RunsOf
  <2>6. Starts(i)' \subseteq Starts(i) \cup {<<"row", a>>}
    BY <1>5, <2>2, <2>4, <2>5 DEF Starts
  <2> QED BY <1>8, <2>3, <2>6
<1>24. ASSUME NEW r \in Requests, NEW ok \in BOOLEAN, call[r].pc \in InAgent,
              req[r].pc = "waiting" => CallGoes(r, Answers(call[r], ok)), req[r].pc # "waiting" => CallGoes(r, NoCall)
       PROVE  CallsLess /\ (ok => r \notin CallsOf(i)')
  <2>1. \A q \in Requests \ {r} : call'[q] = call[q]
    BY <1>24 DEF CallGoes
  <2>2. call'[r].row = i => call[r].row = i
    BY <1>0, <1>3, <1>24, AnswersFields DEF CallGoes
  <2>3. Pending(r)
    BY <1>24 DEF Pending
  <2>4. ASSUME ok PROVE r \notin CallsOf(i)'
    <3>1. CASE req[r].pc = "waiting"
      <4>1. call'[r].pc = "done" /\ call'[r].ok = ok
        BY <1>0, <1>24, <3>1, AnswersFields DEF CallGoes
      <4> QED BY <2>4, <4>1, Zenon DEF CallsOf, Pending, InAgent
    <3>2. CASE req[r].pc # "waiting"
      BY <1>3, <1>24, <3>2 DEF CallGoes, CallsOf
    <3> QED BY <3>1, <3>2
  <2> QED BY <1>9, <2>1, <2>2, <2>3, <2>4
<1>25. ASSUME NEW r \in Requests, NEW ok \in BOOLEAN, Return(r, ok), call[r].pc \in InAgent, UNCHANGED <<run, rows>>
       PROVE  Once(i)'
  BY <1>0, <1>6, <1>11, <1>24, <1>25, ReturnGoes
<1>26. ASSUME NEW r \in Requests, Inspect(r) PROVE Once(i)'
  <2>1. PICK ok \in BOOLEAN : Return(r, ok)
    <3>1. (call[r].archive \in archives) \in BOOLEAN
      OBVIOUS
    <3> QED BY <1>26, <3>1, Zenon DEF Inspect
  <2> QED BY <1>25, <1>26, <2>1 DEF Inspect, Reached, InAgent, scriptVars
<1>27. ASSUME NEW r \in Requests, Prepare(r) PROVE Once(i)'
  BY <1>25, <1>27 DEF Prepare, Reached, InAgent
<1>28. ASSUME NEW r \in Requests, CallFails(r) PROVE Once(i)'
  BY <1>25, <1>28 DEF CallFails
<1>29. ASSUME NEW r \in Requests, CheckUpdate(r) PROVE Once(i)'
  <2>1. call'[r].row = call[r].row /\ \A q \in Requests \ {r} : call'[q] = call[q]
    BY <1>0, <1>29 DEF CheckUpdate, PortalTyped, CallRecord
  <2>2. Pending(r)
    BY <1>29 DEF CheckUpdate, Reached, Pending, InAgent
  <2> QED BY <1>6, <1>9, <1>11, <1>29, <2>1, <2>2 DEF CheckUpdate, scriptVars
<1>30. ASSUME NEW r \in Requests, NEW ok \in BOOLEAN, LaunchUnit(r, ok) PROVE Once(i)'
  <2>1. call[r].pc \in InAgent /\ rows' = rows
    BY <1>30, LaunchDoes DEF InAgent
  <2>2. CallsLess /\ (ok => r \notin CallsOf(i)')
    BY <1>24, <1>30, <2>1, LaunchDoes
  <2>3. PICK w \in Runs : run'[w].row = call[r].row /\ \A u \in Runs \ {w} : run'[u] = run[u]
    BY <1>30, LaunchDoes
  <2>4. CASE call[r].row # i
    <3>1. RunsLess
      BY <2>3, <2>4 DEF RunsLess
    <3> QED BY <1>6, <1>11, <2>1, <2>2, <3>1
  <2>5. CASE call[r].row = i
    <3>1. RunsOf(i)' \subseteq RunsOf(i) \cup {w}
      BY <2>3 DEF RunsOf
    <3>2. ReadyOf(i)' \subseteq ReadyOf(i) /\ CallsOf(i)' \subseteq CallsOf(i)
      BY <1>5, <1>11, <2>1, <2>2
    <3>3. CASE ok
      <4>1. r \in CallsOf(i) /\ r \notin CallsOf(i)'
        BY <2>1, <2>2, <2>5, <3>3 DEF CallsOf, Pending
      <4>2. <<"call", r>> \in Starts(i) /\ Starts(i)' \subseteq (Starts(i) \ {<<"call", r>>}) \cup {<<"run", w>>}
        BY <3>1, <3>2, <4>1 DEF Starts
      <4> QED BY <1>7, <4>2
    <3>4. CASE ~ ok
      <4>1. Starts(i)' \subseteq Starts(i) \cup {<<"run", w>>}
        BY <3>1, <3>2 DEF Starts
      <4>2. faults.lost + 1 <= faults'.lost
        BY <1>1, <1>30, <3>4, LaunchDoes
      <4> QED BY <1>8, <4>1, <4>2
    <3> QED BY <3>3, <3>4
  <2> QED BY <2>4, <2>5
<1>31. ASSUME NEW a \in Archives, ArchiveAges(a) PROVE Once(i)'
  BY <1>17, <1>31 DEF ArchiveAges
<1>32. CASE ScriptStep /\ PortalBeside
  <2>1. \A u \in Runs : run'[u].row = run[u].row
    BY <1>0, <1>32, RunsKeep DEF RowInv
  <2>2. RunsLess
    BY <2>1 DEF RunsLess
  <2>3. rows' = rows
    BY <1>32 DEF PortalBeside, portalVars
  <2>4. CallsLess
    <3>1. CASE UNCHANGED portalVars
      BY <1>11, <3>1 DEF portalVars
    <3>2. CASE CallsEnd
      <4>1. \A r \in Requests :
               call'[r] = call[r] \/ (call[r].pc \in InAgent /\ (call'[r].row = call[r].row \/ call'[r].row = 0))
        BY <1>0, <1>3, <3>2, CallsEndGoes, AnswersFields
      <4> QED BY <4>1 DEF CallsLess, Pending
    <3>3. CASE ReplacePortal
      BY <1>0, <1>3, <3>3, ReplacePortalGoes DEF CallsLess, Pending
    <3>4. CASE UNCHANGED call
      BY <1>11, <3>4
    <3> QED BY <1>32, <3>1, <3>2, <3>3, <3>4 DEF PortalBeside
  <2> QED BY <1>6, <1>11, <2>2, <2>3, <2>4
<1>33. CASE UNCHANGED vars
  BY <1>17, <1>33 DEF vars, scriptVars, portalVars
<1> QED
  BY <1>12, <1>12a, <1>13, <1>15, <1>16, <1>18, <1>19, <1>20, <1>22, <1>23, <1>26, <1>27, <1>28, <1>29, <1>30, <1>31,
     <1>32, <1>33, StepsOfNext
  DEF PortalStep

(***************************************************************************)
(* The names of the uploads, the markers, and the archives.                *)
(***************************************************************************)

\* Nothing learns of an upload but by its request: rows come from what is published,
\* calls from rows, runs from calls, and what is published from what was uploaded.
LEMMA UploadKept ==
    ASSUME UploadInv, made.uploads \subseteq made'.uploads, Uploads \subseteq Archives,
           \A b \in Archives : rows'[b].status # "none" =>
              rows[b].status # "none" \/ \E q \in Requests : Publishing(q, b),
           \A q \in Requests : call'[q].method = "update" =>
              \/ call[q].method = "update" /\ call'[q].archive = call[q].archive
              \/ rows[call'[q].archive].status # "none",
           \A u \in Runs : run'[u].row # 0 =>
              \/ run[u].row # 0 /\ run'[u].archive = run[u].archive
              \/ \E q \in Requests : call[q].method = "update" /\ call[q].archive = run'[u].archive,
           \A q \in Requests, b \in Archives : Uploading(q, b)' =>
              Uploading(q, b) \/ (b \in made'.uploads \ made.uploads /\ \A p \in Requests \ {q} : ~ Uploading(p, b)'),
           \A q \in Requests, b \in Archives : Publishing(q, b)' => Publishing(q, b) \/ Uploading(q, b) \/ b \notin Uploads,
           made'.uploads \subseteq Uploads, made.uploads \subseteq Uploads,
           \A q \in Requests :
              /\ call'[q].method = "prepare" => call'[q].archive \notin Uploads
              /\ call'[q].pc # "none" => call'[q].method # "none"
    PROVE  UploadInv'
<1>1. ASSUME NEW a \in Uploads, NEW R \in SUBSET Requests, Unknown(a, R), \A q \in Requests \ R : ~ Publishing(q, a),
             \A q \in R : Uploading(q, a)' => Uploading(q, a)
      PROVE  Unknown(a, R)'
  <2>1. \A q \in Requests : ~ Publishing(q, a)
    BY <1>1 DEF Unknown
  <2>2. rows'[a].status = "none" /\ rows[a].status = "none"
    BY <1>1, <2>1 DEF Unknown
  <2>3. \A q \in Requests : call'[q].method = "update" => call'[q].archive # a
    BY <1>1, <2>2 DEF Unknown
  <2>4. \A u \in Runs : run'[u].row # 0 => run'[u].archive # a
    BY <1>1 DEF Unknown
  <2>5. \A q \in R : ~ Uploading(q, a)' /\ ~ Publishing(q, a)'
    BY <1>1, <2>1 DEF Unknown
  <2> QED BY <2>2, <2>3, <2>4, <2>5 DEF Unknown, Uploading, Publishing
<1>2. ASSUME NEW a \in Uploads \ made'.uploads PROVE Unknown(a, Requests)'
  <2>1. Unknown(a, Requests) /\ \A q \in Requests : Uploading(q, a)' => Uploading(q, a)
    BY <1>2 DEF UploadInv
  <2> QED BY <1>1, <2>1
<1>3. ASSUME NEW r \in Requests, NEW a \in Archives, Uploading(r, a)' PROVE a \in made'.uploads /\ Unknown(a, Requests \ {r})'
  <2>1. CASE Uploading(r, a)
    <3>1. a \in made.uploads /\ Unknown(a, Requests \ {r}) /\ ~ Publishing(r, a)
      BY <2>1 DEF UploadInv, Uploading, Publishing
    <3>2. \A q \in Requests \ {r} : Uploading(q, a)' => Uploading(q, a)
      BY <3>1
    <3> QED BY <1>1, <3>1, <3>2
  <2>2. CASE a \in made'.uploads \ made.uploads /\ \A p \in Requests \ {r} : ~ Uploading(p, a)'
    <3>1. a \in Uploads /\ Unknown(a, Requests)
      BY <2>2 DEF UploadInv
    <3>2. Unknown(a, Requests \ {r}) /\ \A q \in Requests : ~ Publishing(q, a)
      BY <3>1 DEF Unknown
    <3> QED BY <1>1, <2>2, <3>1, <3>2
  <2> QED BY <1>3, <2>1, <2>2
<1> QED BY <1>2, <1>3 DEF UploadInv, Unknown, Uploading, Publishing

\* A step of request r, or of its call, that starts nothing.
LEMMA UploadGoes ==
    ASSUME TypeOK, UploadInv, NEW r \in Requests, run' = run, made'.uploads = made.uploads,
           \A q \in Requests \ {r} : req'[q] = req[q] /\ call'[q] = call[q],
           \A b \in Archives : rows'[b].status # "none" => rows[b].status # "none" \/ Publishing(r, b),
           call'[r].method = "update" => call[r].method = "update" /\ call'[r].archive = call[r].archive,
           \A b \in Archives : Uploading(r, b)' => Uploading(r, b),
           \A b \in Archives : Publishing(r, b)' => Publishing(r, b) \/ Uploading(r, b) \/ b \notin Uploads,
           call'[r].method = "prepare" => call'[r].archive \notin Uploads,
           call'[r].pc # "none" => call'[r].method # "none"
    PROVE  UploadInv'
<1>1. Uploads \subseteq Archives /\ made.uploads \subseteq Uploads
  BY PortalInParts, PortalAssumption DEF PortalTyped
<1>2. \A q \in Requests : call'[q].method = "update" => call[q].method = "update" /\ call'[q].archive = call[q].archive
  OBVIOUS
<1>3. \A q \in Requests, b \in Archives : Uploading(q, b)' => Uploading(q, b)
  BY DEF Uploading
<1>4. \A q \in Requests, b \in Archives : Publishing(q, b)' => Publishing(q, b) \/ Uploading(q, b) \/ b \notin Uploads
  BY DEF Publishing
<1>5. \A q \in Requests :
         /\ call'[q].method = "prepare" => call'[q].archive \notin Uploads
         /\ call'[q].pc # "none" => call'[q].method # "none"
  BY DEF UploadInv
<1> QED BY <1>1, <1>2, <1>3, <1>4, <1>5, UploadKept

LEMMA UploadStep ==
    ASSUME TypeOK, BegunInv, CallInv, RowInv, UploadInv, [Next]_vars
    PROVE  UploadInv'
<1>0. /\ PortalTyped /\ made.rows \in Nat /\ ScriptTypeOK /\ run \in [Runs -> RunRecord]
      /\ Uploads \subseteq Archives /\ made.uploads \subseteq Uploads /\ Archives \subseteq Versions
      /\ \A a \in Archives : rows[a] \in RowRecord
      /\ \A r \in Requests : req[r] \in ReqRecord /\ call[r] \in CallRecord
  BY PortalInParts, TypesInParts, PortalAssumption DEF PortalTyped, Versions
<1>1. NoCall.pc = "none" /\ NoCall.method = "none" /\ NoRow.status = "none"
  BY DEF NoCall, NoRow
<1>2. \A r \in Requests :
         /\ call[r].method = "prepare" => call[r].archive \notin Uploads
         /\ call[r].pc # "none" => call[r].method # "none"
  BY DEF UploadInv
<1>2a. ASSUME NEW q \in Requests
       PROVE  /\ Answers(call[q], TRUE).pc = "done" /\ Answers(call[q], TRUE).method = call[q].method
              /\ Answers(call[q], TRUE).archive = call[q].archive
              /\ Answers(call[q], FALSE).pc = "done" /\ Answers(call[q], FALSE).method = call[q].method
              /\ Answers(call[q], FALSE).archive = call[q].archive
  <2>1. call[q] \in CallRecord
    BY <1>0
  <2> QED BY <2>1 DEF Answers, CallRecord
<1>3. ASSUME NEW r \in Requests, NEW a \in Archives, UploadBegins(r, a) PROVE UploadInv'
  <2>1. /\ req[r].pc = "free" /\ call' = call /\ run' = run /\ a \in Uploads \ made.uploads
        /\ made'.uploads = made.uploads \cup {a} /\ rows' = rows
        /\ ReqGoes(r, "cleaning") /\ req'[r].archive = a
    BY <1>0, <1>3, BeginsGoes DEF scriptVars
  <2>4. \A q \in Requests \ {r} : req'[q] = req[q]
    BY <2>1 DEF ReqGoes
  <2>5. \A q \in Requests : ~ Uploading(q, a)
    BY <2>1 DEF UploadInv, Unknown
  <2>6. \A q \in Requests \ {r}, b \in Archives : Uploading(q, b)' <=> Uploading(q, b)
    BY <2>1, <2>4 DEF Uploading
  <2>7. \A b \in Archives : Uploading(r, b)' => b = a
    BY <2>1 DEF Uploading, ReqGoes
  <2>8. \A q \in Requests, b \in Archives : Uploading(q, b)' =>
              Uploading(q, b) \/ (b \in made'.uploads \ made.uploads /\ \A p \in Requests \ {q} : ~ Uploading(p, b)')
    BY <2>1, <2>5, <2>6, <2>7
  <2>9. \A q \in Requests, b \in Archives : Publishing(q, b)' => Publishing(q, b)
    BY <2>1, <2>4 DEF Publishing, ReqGoes
  <2> QED BY <1>0, <1>2, <2>1, <2>8, <2>9, UploadKept
<1>4. ASSUME NEW r \in Requests, NEW pc \in {"free", "removing"}, ReqGoes(r, pc), UNCHANGED run, made'.uploads = made.uploads,
             \A b \in Archives : rows'[b].status # "none" => rows[b].status # "none" \/ Publishing(r, b),
             call'[r] = NoCall \/ call'[r] = call[r], \A q \in Requests \ {r} : call'[q] = call[q]
      PROVE  UploadInv'
  <2>1. \A b \in Archives : ~ Uploading(r, b)' /\ ~ Publishing(r, b)'
    BY <1>4 DEF ReqGoes, Uploading, Publishing
  <2> QED BY <1>1, <1>2, <1>4, <2>1, UploadGoes DEF ReqGoes
<1>5. ASSUME NEW r \in Requests, UploadFails(r) PROVE UploadInv'
  <2>1. ReqGoes(r, "free")
    BY <1>0, <1>5, DoneGoes DEF UploadFails, PortalTyped
  <2> QED BY <1>4, <1>5, <2>1 DEF UploadFails
<1>6. ASSUME NEW r \in Requests, Tidies(r) PROVE UploadInv'
  <2>1. /\ UNCHANGED <<run, call, made>> /\ \A b \in Archives : rows'[b] = rows[b] \/ rows'[b] = NoRow
        /\ \A q \in Requests \ {r} : req'[q] = req[q]
    BY <1>0, <1>6, TidiesDoes DEF ReqGoes
  <2>2. \/ req'[r].pc \in {"free", "removing"}
        \/ /\ req'[r].pc \in {"cleaning", "forgetting", "saving"} /\ req[r].pc \in {"cleaning", "forgetting"}
           /\ req'[r].archive = req[r].archive
    BY <1>0, <1>6, TidiesDoes DEF ReqGoes
  <2>3. \A b \in Archives : (Uploading(r, b)' => Uploading(r, b)) /\ ~ Publishing(r, b)'
    BY <2>2 DEF Uploading, Publishing
  <2> QED BY <1>1, <1>2, <2>1, <2>3, UploadGoes
<1>7. ASSUME NEW r \in Requests, NEW a \in Archives, Discard(r, a) PROVE UploadInv'
  <2>1. ReqGoes(r, "free") \/ ReqGoes(r, "removing")
    BY <1>0, <1>7, RemoveGoes DEF Discard, PortalTyped
  <2>2. UNCHANGED <<run, call, made>> /\ \A b \in Archives : rows'[b] = rows[b] \/ rows'[b] = NoRow
    BY <1>0, <1>7 DEF Discard, PortalTyped, scriptVars
  <2> QED BY <1>1, <1>4, <2>1, <2>2
<1>8. ASSUME NEW r \in Requests, Publish(r) PROVE UploadInv'
  <2>1. req[r].pc = "publishing" /\ run' = run /\ call' = call /\ (ReqGoes(r, "free") \/ ReqGoes(r, "removing"))
    BY <1>0, <1>8, PublishDoes DEF scriptVars
  <2>2. made'.uploads = made.uploads
    BY <1>0, <1>8, PublishDoes
  <2>3. \A b \in Archives : rows'[b] = rows[b] \/ rows'[b] = NoRow \/ b = req[r].archive
    BY <1>0, <1>8, PublishDoes
  <2>4. \A b \in Archives : rows'[b].status # "none" => rows[b].status # "none" \/ Publishing(r, b)
    BY <1>1, <2>1, <2>3 DEF Publishing
  <2> QED BY <1>4, <2>1, <2>2, <2>4
<1>9. ASSUME NEW r \in Requests, NEW status \in {"ready", "started"}, Settle(r, status)
      PROVE  \A b \in Archives : rows'[b].status # "none" => rows[b].status # "none"
  <2> TAKE b \in Archives
  <2>1. rows[b] = [row |-> call[r].row, status |-> "starting"] => rows[b].status = "starting"
    OBVIOUS
  <2> QED BY <1>0, <1>9, <2>1, SettleDoes
<1>10. ASSUME NEW r \in Requests, Answered(r) PROVE UploadInv'
  <2>1. /\ req[r].pc = "waiting" /\ call[r].pc = "done" /\ made' = made /\ run' = run
        /\ call'[r] = NoCall /\ \A q \in Requests \ {r} : call'[q] = call[q]
    BY <1>0, <1>10 DEF Answered, PortalTyped
  <2>2. CASE Refused(r)
    BY <1>0, <1>4, <1>9, <2>1, <2>2, RefusedDoes
  <2>3. CASE Done(r) /\ Settle(r, "started")
    <3>1. ReqGoes(r, "free")
      BY <1>0, <2>3, DoneGoes DEF PortalTyped
    <3> QED BY <1>4, <1>9, <2>1, <2>3, <3>1
  <2>4. CASE call[r].method # "update" /\ Move(r, "publishing", call[r].archive) /\ rows' = rows
    <3>1. call[r].archive \in Versions /\ call[r].method \in {"inspect", "prepare"}
      BY <1>0, <1>2, <2>1, <2>4 DEF CallRecord
    <3>2. ReqGoes(r, "publishing") /\ req'[r].archive = call[r].archive
      BY <1>0, <2>4, <3>1, MoveGoes DEF PortalTyped
    <3>3. \A b \in Archives : ~ Uploading(r, b)'
      BY <3>2 DEF Uploading, ReqGoes
    <3>4. \A b \in Archives : Publishing(r, b)' => Uploading(r, b) \/ b \notin Uploads
      BY <1>2, <2>1, <3>1, <3>2 DEF Uploading, Publishing
    <3> QED BY <1>1, <2>1, <2>4, <3>2, <3>3, <3>4, UploadGoes DEF ReqGoes
  <2> QED BY <1>10, <2>2, <2>3, <2>4 DEF Answered
<1>11. ASSUME NEW r \in Requests, GiveUp(r) PROVE UploadInv'
  <2>1. /\ run' = run /\ made' = made /\ (call'[r] = NoCall \/ call'[r] = call[r])
        /\ \A q \in Requests \ {r} : call'[q] = call[q]
    BY <1>0, <1>11 DEF GiveUp, PortalTyped
  <2>2. ReqGoes(r, "free") /\ Settle(r, "ready")
    BY <1>0, <1>11, RefusedDoes DEF GiveUp
  <2> QED BY <1>4, <1>9, <2>1, <2>2
<1>12. ASSUME NEW r \in Requests, NEW method \in {"inspect", "prepare"}, NEW a \in Archives, Ask(r, method, a, 0, "full"),
              \/ method = "inspect" /\ Uploading(r, a)
              \/ method = "prepare" /\ a \notin Uploads,
              UNCHANGED <<run, rows, made>>
       PROVE  UploadInv'
  <2>0. 0 \in Nat /\ a \in Versions
    BY <1>0
  <2>1. ReqGoes(r, "waiting") /\ CallGoes(r, [pc |-> "asked", method |-> method, archive |-> a, row |-> 0, mode |-> "full", ok |-> FALSE])
    BY <1>0, <1>12, <2>0, AskGoes
  <2>2. call'[r].pc = "asked" /\ call'[r].method = method /\ call'[r].archive = a /\ req'[r].pc = "waiting"
    BY <2>1 DEF CallGoes, ReqGoes
  <2>3. \A b \in Archives : (Uploading(r, b)' => Uploading(r, b)) /\ ~ Publishing(r, b)'
    BY <1>12, <2>2 DEF Uploading, Publishing
  <2> QED BY <1>12, <2>1, <2>2, <2>3, UploadGoes DEF ReqGoes, CallGoes
<1>13. ASSUME NEW r \in Requests, NEW a \in Archives, AskRelease(r, a) PROVE UploadInv'
  BY <1>12, <1>13 DEF AskRelease, scriptVars
<1>14. ASSUME NEW r \in Requests, UploadSaved(r) PROVE UploadInv'
  <2>1. req[r].archive \in Archives /\ Uploading(r, req[r].archive)
    BY <1>14 DEF UploadSaved, CallInv, Uploading
  <2> QED BY <1>12, <1>14, <2>1 DEF UploadSaved
<1>15. ASSUME NEW r \in Requests, NEW a \in Archives, NEW mode \in FromPortal, Claim(r, a, mode) PROVE UploadInv'
  <2>1. /\ rows[a].status = "ready" /\ Ask(r, "update", a, rows[a].row, mode) /\ run' = run /\ made' = made
        /\ rows' = [rows EXCEPT ![a].status = "starting"]
    BY <1>15 DEF Claim, Idle, Status, scriptVars
  <2>2. rows[a].row \in Nat /\ a \in Versions /\ mode \in {"full", "bootstrap-only"}
    BY <1>0, PortalAssumption DEF RowRecord
  <2>3. /\ ReqGoes(r, "waiting") /\ call'[r].method = "update" /\ call'[r].archive = a
        /\ \A q \in Requests \ {r} : call'[q] = call[q]
    <3>1. ASSUME NEW row \in Nat, NEW m \in {"full", "bootstrap-only"}, Ask(r, "update", a, row, m)
          PROVE  /\ ReqGoes(r, "waiting") /\ call'[r].method = "update" /\ call'[r].archive = a
                 /\ \A q \in Requests \ {r} : call'[q] = call[q]
      <4>1. /\ CallGoes(r, [pc |-> "asked", method |-> "update", archive |-> a, row |-> row, mode |-> m, ok |-> FALSE])
            /\ ReqGoes(r, "waiting")
        BY <1>0, <2>2, <3>1, AskGoes
      <4> QED BY <4>1 DEF CallGoes
    <3> QED BY <2>1, <2>2, <3>1
  <2>4. \A b \in Archives : rows'[b].status # "none" => rows[b].status # "none"
    BY <1>0, <2>1 DEF PortalTyped
  <2>5. \A q \in Requests : call'[q].method = "update" =>
              \/ call[q].method = "update" /\ call'[q].archive = call[q].archive
              \/ rows[call'[q].archive].status # "none"
    BY <2>1, <2>3
  <2>6. \A q \in Requests, b \in Archives : (Uploading(q, b)' => Uploading(q, b)) /\ (Publishing(q, b)' => Publishing(q, b))
    BY <2>3 DEF Uploading, Publishing, ReqGoes
  <2>7. \A q \in Requests :
         /\ call'[q].method = "prepare" => call'[q].archive \notin Uploads
         /\ call'[q].pc # "none" => call'[q].method # "none"
    BY <1>2, <2>3
  <2> QED BY <1>0, <2>1, <2>4, <2>5, <2>6, <2>7, UploadKept
<1>16. ASSUME NEW q \in Requests, call[q].pc # "none",
              req[q].pc = "waiting" => call'[q] \in {Answers(call[q], TRUE), Answers(call[q], FALSE)},
              req[q].pc # "waiting" => call'[q] = NoCall
       PROVE  /\ call'[q].method \in {"none", call[q].method}
              /\ call'[q].method # "none" => call'[q].archive = call[q].archive
              /\ call'[q].pc # "none" => call'[q].method # "none"
              /\ req[q].pc = "waiting" => call'[q].method = call[q].method
  <2>1. CASE req[q].pc = "waiting"
    BY <1>2, <1>16, <1>2a, <2>1
  <2>2. CASE req[q].pc # "waiting"
    BY <1>1, <1>16, <2>2
  <2> QED BY <2>1, <2>2
<1>17. ASSUME NEW r \in Requests, NEW ok \in BOOLEAN, call[r].pc \in InAgent,
              req[r].pc = "waiting" => CallGoes(r, Answers(call[r], ok)), req[r].pc # "waiting" => CallGoes(r, NoCall)
       PROVE  /\ \A q \in Requests \ {r} : call'[q] = call[q]
              /\ call'[r].method \in {"none", call[r].method}
              /\ call'[r].method # "none" => call'[r].archive = call[r].archive
              /\ call'[r].pc # "none" => call'[r].method # "none"
              /\ req[r].pc = "waiting" => call'[r].method = call[r].method
  <2>1. call[r].pc # "none" /\ ok \in {TRUE, FALSE}
    BY <1>17 DEF InAgent
  <2>2. \A q \in Requests \ {r} : call'[q] = call[q]
    BY <1>17 DEF CallGoes
  <2>3. /\ req[r].pc = "waiting" => call'[r] \in {Answers(call[r], TRUE), Answers(call[r], FALSE)}
        /\ req[r].pc # "waiting" => call'[r] = NoCall
    BY <1>17, <2>1 DEF CallGoes
  <2> QED BY <1>16, <2>1, <2>2, <2>3
<1>18. ASSUME NEW r \in Requests, NEW ok \in BOOLEAN, Return(r, ok), call[r].pc \in InAgent, UNCHANGED <<run, rows, req, made>>
       PROVE  UploadInv'
  <2>1. /\ \A q \in Requests \ {r} : call'[q] = call[q]
        /\ call'[r].method \in {"none", call[r].method}
        /\ call'[r].method # "none" => call'[r].archive = call[r].archive
        /\ call'[r].pc # "none" => call'[r].method # "none"
        /\ req[r].pc = "waiting" => call'[r].method = call[r].method
    BY <1>0, <1>17, <1>18, ReturnGoes
  <2>2. \A b \in Archives : (Uploading(r, b)' => Uploading(r, b)) /\ (Publishing(r, b)' => Publishing(r, b))
    BY <1>18, <2>1 DEF Uploading, Publishing
  <2> QED BY <1>2, <1>18, <2>1, <2>2, UploadGoes
<1>19. ASSUME NEW r \in Requests, Inspect(r) PROVE UploadInv'
  <2>1. PICK ok \in BOOLEAN : Return(r, ok)
    <3>1. (call[r].archive \in archives) \in BOOLEAN
      OBVIOUS
    <3> QED BY <1>19, <3>1, Zenon DEF Inspect
  <2> QED BY <1>18, <1>19, <2>1 DEF Inspect, Reached, InAgent, scriptVars
<1>20. ASSUME NEW r \in Requests, Prepare(r) PROVE UploadInv'
  BY <1>18, <1>20 DEF Prepare, Reached, InAgent
<1>21. ASSUME NEW r \in Requests, CallFails(r) PROVE UploadInv'
  BY <1>18, <1>21 DEF CallFails
<1>22. ASSUME NEW r \in Requests, CheckUpdate(r) PROVE UploadInv'
  <2>1. /\ call'[r].method = call[r].method /\ call'[r].archive = call[r].archive /\ call[r].method = "update"
        /\ \A q \in Requests \ {r} : call'[q] = call[q]
    BY <1>0, <1>22 DEF CheckUpdate, Reached, PortalTyped, CallRecord
  <2>2. UNCHANGED <<run, rows, req, made>>
    BY <1>22 DEF CheckUpdate, scriptVars
  <2>3. \A b \in Archives : (Uploading(r, b)' => Uploading(r, b)) /\ (Publishing(r, b)' => Publishing(r, b))
    BY <2>1, <2>2 DEF Uploading, Publishing
  <2> QED BY <2>1, <2>2, <2>3, UploadGoes
<1>23. ASSUME NEW r \in Requests, NEW ok \in BOOLEAN, LaunchUnit(r, ok) PROVE UploadInv'
  <2>1. UNCHANGED <<rows, req, made>> /\ call[r].pc = "checked"
    BY <1>23, LaunchDoes
  <2>2. PICK w \in Runs : run'[w].archive = call[r].archive /\ \A u \in Runs \ {w} : run'[u] = run[u]
    BY <1>23, LaunchDoes
  <2>3. call[r].method = "update" /\ call[r].pc \in InAgent
    BY <2>1 DEF CallInv, InAgent
  <2>4. /\ \A q \in Requests \ {r} : call'[q] = call[q]
        /\ call'[r].method \in {"none", call[r].method}
        /\ call'[r].method # "none" => call'[r].archive = call[r].archive
        /\ call'[r].pc # "none" => call'[r].method # "none"
        /\ req[r].pc = "waiting" => call'[r].method = call[r].method
    BY <1>17, <1>23, <2>3, LaunchDoes
  <2>5. \A u \in Runs : run'[u].row # 0 =>
              \/ run[u].row # 0 /\ run'[u].archive = run[u].archive
              \/ \E q \in Requests : call[q].method = "update" /\ call[q].archive = run'[u].archive
    BY <2>2, <2>3
  <2>6. \A q \in Requests, b \in Archives : (Uploading(q, b)' => Uploading(q, b)) /\ (Publishing(q, b)' => Publishing(q, b))
    BY <2>1, <2>3, <2>4 DEF Uploading, Publishing
  <2>7. \A q \in Requests :
         /\ call'[q].method = "update" => call[q].method = "update" /\ call'[q].archive = call[q].archive
         /\ call'[q].method = "prepare" => call'[q].archive \notin Uploads
         /\ call'[q].pc # "none" => call'[q].method # "none"
    BY <1>2, <2>3, <2>4
  <2> QED BY <1>0, <2>1, <2>5, <2>6, <2>7, UploadKept
<1>24. ASSUME UNCHANGED <<run, rows, req, call, made>> PROVE UploadInv'
  BY <1>24 DEF UploadInv, Unknown, Uploading, Publishing
<1>25. ASSUME NEW a \in Archives, ArchiveAges(a) PROVE UploadInv'
  BY <1>24, <1>25 DEF ArchiveAges
<1>26. CASE ScriptStep /\ PortalBeside
  <2>1. \A u \in Runs : run'[u].row # 0 => run[u].row # 0 /\ run'[u].archive = run[u].archive
    BY <1>0, <1>26, RunsKeep DEF RowInv
  <2>2. rows' = rows /\ made'.uploads = made.uploads
    BY <1>0, <1>26, ReplacePortalGoes, OvertakenGrows DEF PortalBeside, portalVars
  <2>3. \A q \in Requests :
           /\ req'[q] = req[q] \/ req'[q] = NoRequest
           /\ call'[q].method = "update" => call[q].method = "update" /\ call'[q].archive = call[q].archive
           /\ call'[q].method = "prepare" => call'[q].archive \notin Uploads
           /\ call'[q].pc # "none" => call'[q].method # "none"
           /\ req'[q].pc = "waiting" => call'[q].method = call[q].method /\ call'[q].archive = call[q].archive
    <3> TAKE q \in Requests
    <3>1. CASE UNCHANGED portalVars
      BY <1>2, <3>1 DEF portalVars
    <3>2. CASE CallsEnd /\ UNCHANGED req
      <4>1. CASE call'[q] = call[q]
        BY <1>2, <3>2, <4>1
      <4>2. CASE call[q].pc \in InAgent /\ call'[q] = IF req[q].pc = "waiting" THEN Answers(call[q], FALSE) ELSE NoCall
        <5>1. call[q].pc # "none"
          BY <4>2 DEF InAgent
        <5>2. CASE req[q].pc = "waiting"
          BY <1>2, <1>2a, <3>2, <4>2, <5>1, <5>2
        <5>3. CASE req[q].pc # "waiting"
          BY <1>1, <3>2, <4>2, <5>3
        <5> QED BY <5>2, <5>3
      <4> QED BY <1>0, <3>2, <4>1, <4>2, CallsEndGoes
    <3>3. CASE ReplacePortal
      <4>1. req'[q] = NoRequest /\ NoRequest.pc = "free" /\ (call'[q] = NoCall \/ call'[q] = call[q])
        BY <1>0, <3>3, ReplacePortalGoes DEF NoRequest
      <4> QED BY <1>1, <1>2, <4>1
    <3>4. CASE UNCHANGED <<req, call>>
      BY <1>2, <3>4
    <3> QED BY <1>26, <3>1, <3>2, <3>3, <3>4 DEF PortalBeside
  <2>4. NoRequest.pc = "free"
    BY DEF NoRequest
  <2>5. \A q \in Requests, b \in Archives : (Uploading(q, b)' => Uploading(q, b)) /\ (Publishing(q, b)' => Publishing(q, b))
    BY <2>3, <2>4 DEF Uploading, Publishing
  <2> QED BY <1>0, <2>1, <2>2, <2>3, <2>5, UploadKept
<1>27. CASE UNCHANGED vars
  BY <1>24, <1>27 DEF vars, scriptVars, portalVars
<1> QED
  BY <1>3, <1>5, <1>6, <1>7, <1>8, <1>10, <1>11, <1>13, <1>14, <1>15, <1>19, <1>20, <1>21, <1>22, <1>23, <1>25,
     <1>26, <1>27, StepsOfNext
  DEF PortalStep

\* What the runs do to markers and archives: a run that has ended stays as it is, a run
\* marks its archive first (those of M do it in this step), and only a wrapper that fails
\* takes a marker away.
RunsMark(M) ==
    /\ \A w \in Runs : run[w].pc \in Ended => run'[w] = run[w]
    /\ \A u \in Runs : run'[u].row # 0 /\ run'[u].pc \in {"marked", "waiting", "locked"} =>
          /\ run[u].row # 0 /\ run'[u].archive = run[u].archive
          /\ run[u].pc \in {"marked", "waiting", "locked"} \/ (u \in M /\ run[u].archive \in markers')
    /\ \A u \in Runs : run'[u].row # 0 /\ run'[u].pc \in {"waiting", "locked"} =>
          run[u].pc \in {"waiting", "locked"} \/ run[u].archive \in archives
    /\ archives' = archives
    /\ markers \subseteq markers' \/ \E w \in Runs : run'[w].pc = "failed" /\ markers \ {run'[w].archive} \subseteq markers'

LEMMA RunsMarkGoes ==
    ASSUME NEW M, NEW u \in Runs, run[u].pc \notin Ended, \A w \in Runs \ {u} : run'[w] = run[w],
           run'[u].archive = run[u].archive /\ run'[u].row = run[u].row,
           run'[u].pc \in {"marked", "waiting", "locked"} =>
              run[u].pc \in {"marked", "waiting", "locked"} \/ (u \in M /\ run[u].archive \in markers'),
           run'[u].pc \in {"waiting", "locked"} => run[u].pc \in {"waiting", "locked"} \/ run[u].archive \in archives,
           archives' = archives,
           markers \subseteq markers' \/ (run'[u].pc = "failed" /\ markers \ {run[u].archive} \subseteq markers')
    PROVE  RunsMark(M)
  BY DEF RunsMark

LEMMA WrapperMarks ==
    ASSUME ScriptTypeOK, NEW u \in Runs, MarkArchive(u)
    PROVE  RunsMark({u})
<1>1. Goes(u, "marked") /\ run[u].pc = "begun" /\ archives' = archives /\ markers' = markers \cup {run[u].archive}
  BY StepGoes DEF MarkArchive, At
<1> QED BY <1>1, RunsMarkGoes DEF Goes, Ended

LEMMA OthersMark ==
    ASSUME ScriptTypeOK, BegunInv, OtherStep
    PROVE  RunsMark({})
<1>0. run \in [Runs -> RunRecord]
  BY TypesInParts
<1> DEFINE Ok == RunsMark({})
<1>1. ASSUME NEW x \in ByHand, RunByHand(x[1], x[2]) PROVE Ok
  <2> DEFINE r == [NoRun EXCEPT !.pc = "waiting", !.archive = x[1], !.mode = x[2]]
  <2>1. r.pc = "waiting" /\ r.row = 0
    BY DEF NoRun
  <2>2. PICK w \in Runs : run[w].pc = "unused" /\ run' = [run EXCEPT ![w] = r]
    BY <1>1, RunByHandBegins, BeginsTyped
  <2> HIDE DEF r
  <2>3. run'[w].row = 0 /\ \A u \in Runs \ {w} : run'[u] = run[u]
    BY <1>0, <2>1, <2>2
  <2>4. "unused" \notin Ended
    BY DEF Ended
  <2>5. archives' = archives /\ markers' = markers
    BY <1>1 DEF RunByHand
  <2> QED BY <2>2, <2>3, <2>4, <2>5 DEF RunsMark
<1>2. ASSUME NEW u \in Runs, NEW pc, Goes(u, pc), run[u].pc \notin Ended, archives' = archives, markers' = markers,
             pc \in {"marked", "waiting", "locked"} => run[u].pc \in {"marked", "waiting", "locked"},
             pc \in {"waiting", "locked"} => run[u].pc \in {"waiting", "locked"} \/ run[u].archive \in archives
      PROVE  Ok
  BY <1>2, RunsMarkGoes DEF Goes
<1>4. ASSUME NEW u \in Runs, Execute(u) PROVE Ok
  BY <1>2, <1>4, StepGoes DEF Execute, At, Ended
<1>5. ASSUME NEW u \in Runs, WrapperFails(u) PROVE Ok
  <2>1. /\ Goes(u, "failed") /\ run[u].pc \in {"begun", "marked"} /\ archives' = archives
        /\ markers \ {run[u].archive} \subseteq markers'
    BY <1>5, StepGoes DEF WrapperFails
  <2> QED BY <2>1, RunsMarkGoes DEF Goes, Ended
<1>6. ASSUME NEW u \in Runs, TakeLock(u) PROVE Ok
  BY <1>2, <1>6, StepGoes DEF TakeLock, At, Ended
<1>7. ASSUME NEW u \in Runs, NotStarted(u) PROVE Ok
  BY <1>2, <1>7, StepGoes DEF NotStarted, At, Ended
<1>8. ASSUME NEW u \in Runs, Stage(u) PROVE Ok
  <2>1. run[u].pc = "locked" /\ archives' = archives /\ markers' = markers
    BY <1>8 DEF Stage, At
  <2> QED BY <1>8, <2>1, StageGoes, RunsMarkGoes DEF Ended
<1>9. ASSUME NEW u \in Runs, NEW read \in {"read", "lost"}, Plan(u, read) PROVE Ok
  <2>1. run[u].pc = "installing" /\ archives' = archives /\ markers' = markers
    BY <1>9 DEF Plan, At
  <2>2. /\ \A w \in Runs \ {u} : run'[w] = run[w]
        /\ run'[u].pc = "planned" /\ run'[u].archive = run[u].archive /\ run'[u].row = run[u].row
    BY <1>9, PlanGoes
  <2> QED BY <2>1, <2>2, RunsMarkGoes DEF Ended
<1>10. ASSUME NEW u \in Runs, Render(u) PROVE Ok
  BY <1>2, <1>10, StepGoes DEF Render, AtRender, At, Ended
<1>11. ASSUME NEW u \in Runs, SyncHost(u) PROVE Ok
  BY <1>2, <1>11, StepGoes DEF SyncHost, At, Ended
<1>12. ASSUME NEW u \in Runs, Finish(u) PROVE Ok
  BY <1>2, <1>12, StepGoes DEF Finish, At, Ended
<1>13. ASSUME NEW u \in Runs, InstallAgent(u) PROVE Ok
  BY <1>2, <1>13, StepGoes DEF InstallAgent, AtAgent, Ended
<1>14. ASSUME NEW u \in Runs, ComposeUp(u) PROVE Ok
  BY <1>2, <1>14, StepGoes DEF ComposeUp, At, Ended
<1>15. ASSUME NEW u \in Runs, Fail(u) PROVE Ok
  BY <1>2, <1>15, StepGoes, StepsApart DEF Fail
<1>16. ASSUME NEW u \in Runs, Kill(u) PROVE Ok
  BY <1>2, <1>16, StepGoes, StepsApart DEF Kill
<1>17. ASSUME UNCHANGED <<archives, markers, run>> PROVE Ok
  BY <1>17 DEF RunsMark
<1> HIDE DEF Ok
<1>18. Ok
  BY <1>1, <1>4, <1>5, <1>6, <1>7, <1>8, <1>9, <1>10, <1>11, <1>12, <1>13, <1>14, <1>15, <1>16, <1>17
  DEF OtherStep, Step, InstallPart, AgentRestarts, ServiceRestarts, BackupBegins, BackupReads, BackupEnds
<1> QED BY <1>18 DEF Ok

\* Only a step of the removal finds that an archive has no marker.
NoNewTarget == \A r \in Requests, a \in Archives : Checked(r, a)' => Checked(r, a)

LEMMA TargetGoes ==
    ASSUME PortalTyped
    PROVE  /\ \A r \in Requests, pc \in {"saving", "waiting", "publishing"} : \A a : Move(r, pc, a) => NoNewTarget
           /\ \A r \in Requests : \A S : ThenRemove(r, S) => NoNewTarget
           /\ \A r \in Requests : Done(r) => NoNewTarget
           /\ \A r \in Requests, a \in Archives : UploadBegins(r, a) => NoNewTarget
           /\ UNCHANGED req => NoNewTarget
<1>0. req \in [Requests -> ReqRecord] /\ Original \notin Archives
  BY UpdateAssumption DEF PortalTyped
<1>1. ASSUME NEW r \in Requests, NEW x, x.target = Original, req' = [req EXCEPT ![r] = x] PROVE NoNewTarget
  <2>1. req'[r] = x /\ \A q \in Requests \ {r} : req'[q] = req[q]
    BY <1>0, <1>1
  <2> QED BY <1>0, <1>1, <2>1 DEF NoNewTarget, Checked
<1>2. NoRequest.target = Original
  BY DEF NoRequest
<1>3. \A pc, a : [NoRequest EXCEPT !.pc = pc, !.archive = a].target = Original
  BY DEF NoRequest
<1>4. \A pc, S : [NoRequest EXCEPT !.pc = pc, !.todo = S].target = Original
  BY DEF NoRequest
<1>5. \A pc, a, S : [NoRequest EXCEPT !.pc = pc, !.archive = a, !.todo = S].target = Original
  BY DEF NoRequest
<1>6. ASSUME NEW r \in Requests, NEW pc, NEW a, Move(r, pc, a) PROVE NoNewTarget
  BY <1>1, <1>3, <1>6 DEF Move
<1>7. ASSUME NEW r \in Requests, NEW S, ThenRemove(r, S) PROVE NoNewTarget
  <2>1. CASE S = {}
    BY <1>1, <1>2, <1>7, <2>1 DEF ThenRemove
  <2>2. CASE S # {}
    BY <1>1, <1>4, <1>7, <2>2 DEF ThenRemove
  <2> QED BY <2>1, <2>2
<1>8. ASSUME NEW r \in Requests, Done(r) PROVE NoNewTarget
  BY <1>1, <1>2, <1>8 DEF Done
<1>9. ASSUME NEW r \in Requests, NEW a \in Archives, UploadBegins(r, a) PROVE NoNewTarget
  BY <1>1, <1>5, <1>9 DEF UploadBegins
<1>10. UNCHANGED req => NoNewTarget
  BY DEF NoNewTarget, Checked
<1> QED BY <1>6, <1>7, <1>8, <1>9, <1>10

\* What was removed is no archive of a run from the portal that still needs it, unless the
\* request looked for its marker before it was set.
LEMMA KeptByRuns ==
    ASSUME MarkInv, TargetInv, RunningArchiveIsKept, NEW M, RunsMark(M), NoNewTarget,
           made.overtaken \subseteq made'.overtaken,
           \A u \in M, r \in Requests : Checked(r, run[u].archive) => u \in made'.overtaken
    PROVE  MarkInv' /\ TargetInv' /\ RunningArchiveIsKept'
<1>1. \A w \in Runs : run[w].pc = "failed" => run'[w] = run[w]
  BY DEF RunsMark, Ended
<1>2. \A u \in Runs : run'[u].archive = run[u].archive /\ Unmarked(u) => Unmarked(u)'
  BY <1>1 DEF Unmarked, At
<1>3. MarkInv'
  <2> SUFFICES ASSUME NEW u \in Runs, run'[u].row # 0, run'[u].pc \in {"marked", "waiting", "locked"}
               PROVE  run'[u].archive \in markers' \/ Unmarked(u)'
    BY DEF MarkInv
  <2>1. run'[u].archive = run[u].archive /\ run[u].row # 0
    BY DEF RunsMark
  <2>2. run[u].archive \in markers \/ run[u].archive \in markers' \/ Unmarked(u)
    BY DEF RunsMark, MarkInv
  <2>3. ASSUME NEW w \in Runs, run'[w].pc = "failed", run'[w].archive = run[u].archive PROVE Unmarked(u)'
    BY <2>1, <2>3 DEF Unmarked, At
  <2> QED BY <1>2, <2>1, <2>2, <2>3 DEF RunsMark
<1>4. TargetInv'
  <2> SUFFICES ASSUME NEW r \in Requests, NEW u \in Runs, run'[u].archive \in Archives, Checked(r, run[u].archive)',
                      run'[u].row # 0, run'[u].pc \in {"marked", "waiting", "locked"}
               PROVE  u \in made'.overtaken \/ Unmarked(u)'
    BY DEF TargetInv
  <2>1. /\ run'[u].archive = run[u].archive /\ run[u].row # 0
        /\ run[u].pc \in {"marked", "waiting", "locked"} \/ u \in M
    BY DEF RunsMark
  <2>2. Checked(r, run[u].archive)
    BY <2>1 DEF NoNewTarget, Checked
  <2>3. CASE run[u].pc \in {"marked", "waiting", "locked"}
    BY <1>2, <2>1, <2>2, <2>3 DEF TargetInv
  <2>4. CASE u \in M
    BY <2>2, <2>4
  <2> QED BY <2>1, <2>3, <2>4
<1>5. RunningArchiveIsKept'
  BY <1>1, <1>2 DEF RunsMark, RunningArchiveIsKept, Unmarked, At
<1> QED BY <1>3, <1>4, <1>5

LEMMA KeptByPortal ==
    ASSUME MarkInv, TargetInv, RunningArchiveIsKept, UNCHANGED <<run, markers>>,
           made.overtaken \subseteq made'.overtaken,
           \A a \in archives \ archives' :
              \/ \A u \in Runs : run[u].row # 0 => run[u].archive # a
              \/ a \in Archives /\ \E r \in Requests : Checked(r, a),
           \A r \in Requests, a \in Archives : Checked(r, a)' => Checked(r, a) \/ a \notin markers
    PROVE  MarkInv' /\ TargetInv' /\ RunningArchiveIsKept'
<1>1. MarkInv'
  BY DEF MarkInv, Unmarked, At
<1>2. \A u \in Runs : Unmarked(u)' <=> Unmarked(u)
  BY DEF Unmarked, At
<1>3. TargetInv'
  <2> SUFFICES ASSUME NEW r \in Requests, NEW u \in Runs, run[u].archive \in Archives, Checked(r, run[u].archive)',
                      run[u].row # 0, run[u].pc \in {"marked", "waiting", "locked"}
               PROVE  u \in made'.overtaken \/ Unmarked(u)
    BY <1>2 DEF TargetInv
  <2>1. Checked(r, run[u].archive) \/ run[u].archive \notin markers
    BY DEF Checked
  <2> QED BY <2>1 DEF TargetInv, MarkInv
<1>4. ASSUME NEW u \in Runs, run[u].row # 0, run[u].pc \in {"waiting", "locked"}
      PROVE  run[u].archive \in archives' \/ Unmarked(u) \/ u \in made'.overtaken
  <2>1. run[u].archive \in archives \/ Unmarked(u) \/ u \in made'.overtaken
    BY <1>4 DEF RunningArchiveIsKept, Unmarked
  <2>2. ASSUME run[u].archive \in archives \ archives' PROVE Unmarked(u) \/ u \in made'.overtaken
    BY <1>4, <2>2 DEF TargetInv
  <2> QED BY <2>1, <2>2
<1>5. RunningArchiveIsKept'
  BY <1>2, <1>4 DEF RunningArchiveIsKept, Unmarked, At
<1> QED BY <1>1, <1>3, <1>5

LEMMA KeepStep ==
    ASSUME TypeOK, BegunInv, CallInv, RowInv, UploadInv, MarkInv, TargetInv, RunningArchiveIsKept, [Next]_vars
    PROVE  MarkInv' /\ TargetInv' /\ RunningArchiveIsKept'
<1>0. PortalTyped /\ ScriptTypeOK /\ made.overtaken \subseteq Runs /\ req \in [Requests -> ReqRecord]
  BY PortalInParts DEF PortalTyped
<1> DEFINE Ok == MarkInv' /\ TargetInv' /\ RunningArchiveIsKept'
<1>1. ASSUME NEW r \in Requests, Refused(r), req[r].pc = "waiting", call[r].pc # "none", UNCHANGED <<run, runVars, made>>
      PROVE  Ok
  <2>1. archives' = archives \ (IF call[r].method = "inspect" THEN {call[r].archive} ELSE {})
    BY <1>0, <1>1, RefusedDoes
  <2>2. UNCHANGED <<run, markers, made>> /\ NoNewTarget
    BY <1>0, <1>1, TargetGoes DEF runVars, Refused
  <2>3. \A a \in archives \ archives', u \in Runs : run[u].row # 0 => run[u].archive # a
    <3>1. CASE call[r].method = "inspect"
      <4>1. Uploading(r, call[r].archive) /\ call[r].archive \in Archives
        BY <1>1, <3>1 DEF Uploading, CallInv
      <4>2. \A u \in Runs : run[u].row # 0 => run[u].archive # call[r].archive
        BY <4>1 DEF UploadInv, Unknown
      <4> QED BY <2>1, <3>1, <4>2
    <3>2. CASE call[r].method # "inspect"
      BY <2>1, <3>2
    <3> QED BY <3>1, <3>2
  <2> QED BY <2>2, <2>3, KeptByPortal DEF NoNewTarget
<1>2. ASSUME UNCHANGED <<run, markers>>, archives \subseteq archives', made.overtaken \subseteq made'.overtaken, NoNewTarget
      PROVE  Ok
  BY <1>2, KeptByPortal DEF NoNewTarget
<1>3. ASSUME NEW r \in Requests, NEW a \in Archives, UploadBegins(r, a) PROVE Ok
  <2>1. UNCHANGED <<run, markers, archives>> /\ made'.overtaken = made.overtaken /\ NoNewTarget
    BY <1>0, <1>3, BeginsGoes, TargetGoes DEF scriptVars
  <2> QED BY <1>2, <2>1
<1>4. ASSUME NEW r \in Requests, Tidies(r) PROVE Ok
  <2>1. /\ UNCHANGED <<run, markers, made>>
        /\ archives' = archives \/ \E a \in Archives : Checked(r, a) /\ archives' = archives \ {a}
        /\ \A a \in Archives : Checked(r, a)' => Checked(r, a) \/ a \notin markers
    BY <1>0, <1>4, TidiesDoes DEF runVars
  <2>2. \A q \in Requests \ {r} : req'[q] = req[q]
    BY <1>0, <1>4, TidiesDoes DEF ReqGoes
  <2>3. \A q \in Requests, a \in Archives : Checked(q, a)' => Checked(q, a) \/ a \notin markers
    BY <2>1, <2>2 DEF Checked
  <2>4. \A a \in archives \ archives' : a \in Archives /\ \E q \in Requests : Checked(q, a)
    BY <2>1
  <2> QED BY <2>1, <2>3, <2>4, KeptByPortal
<1>5. ASSUME NEW r \in Requests, Answered(r) PROVE Ok
  <2>1. /\ req[r].pc = "waiting" /\ call[r].pc # "none" /\ UNCHANGED <<run, runVars, made>>
        /\ \/ Refused(r)
           \/ archives' = archives /\ (Done(r) \/ Move(r, "publishing", call[r].archive))
    BY <1>5 DEF Answered
  <2>2. CASE archives' = archives /\ (Done(r) \/ Move(r, "publishing", call[r].archive))
    BY <1>0, <1>2, <2>1, <2>2, TargetGoes DEF runVars
  <2> QED BY <1>1, <2>1, <2>2
<1>6. ASSUME NEW r \in Requests, GiveUp(r) PROVE Ok
  BY <1>1, <1>6 DEF GiveUp, CallInv
<1>7. ASSUME NEW r \in Requests, NEW a \in Archives, AskRelease(r, a) \/ Discard(r, a) PROVE Ok
  <2>1. UNCHANGED <<run, markers, archives, made>>
    BY <1>7 DEF AskRelease, Discard, scriptVars
  <2>2. NoNewTarget
    BY <1>0, <1>7, TargetGoes DEF AskRelease, Discard, Ask
  <2> QED BY <1>2, <2>1, <2>2
<1>8. ASSUME NEW r \in Requests, NEW a \in Archives, NEW mode \in FromPortal, Claim(r, a, mode) PROVE Ok
  <2>1. UNCHANGED <<run, markers, archives, made>> /\ Move(r, "waiting", a)
    BY <1>8 DEF Claim, Ask, scriptVars
  <2> QED BY <1>0, <1>2, <2>1, TargetGoes
<1>9. ASSUME NEW r \in Requests, UploadSaved(r) \/ UploadFails(r) PROVE Ok
  <2>1. UNCHANGED <<run, markers, made>> /\ archives \subseteq archives' /\ (Done(r) \/ Move(r, "waiting", req[r].archive))
    BY <1>9 DEF UploadSaved, UploadFails, Ask, runVars
  <2> QED BY <1>0, <1>2, <2>1, TargetGoes
<1>10. ASSUME NEW r \in Requests, Publish(r) PROVE Ok
  <2>1. UNCHANGED <<run, markers, archives>> /\ made'.overtaken = made.overtaken
    BY <1>0, <1>10, PublishDoes DEF scriptVars
  <2>2. Done(r) \/ \E S : ThenRemove(r, S)
    BY <1>10 DEF Publish
  <2>3. NoNewTarget
    BY <1>0, <2>2, TargetGoes
  <2> QED BY <1>2, <2>1, <2>3
<1>11. ASSUME NEW r \in Requests, Inspect(r) \/ Prepare(r) \/ CheckUpdate(r) \/ CallFails(r) PROVE Ok
  <2>1. UNCHANGED <<run, markers, req, made>> /\ archives \subseteq archives'
    BY <1>11 DEF Inspect, Prepare, CheckUpdate, CallFails, scriptVars, runVars
  <2> QED BY <1>0, <1>2, <2>1, TargetGoes
<1>12. ASSUME NEW a \in Archives, ArchiveAges(a) PROVE Ok
  <2>1. UNCHANGED <<run, markers, req, made, archives>>
    BY <1>12 DEF ArchiveAges, runVars
  <2> QED BY <1>0, <1>2, <2>1, TargetGoes
<1>13. ASSUME NEW r \in Requests, NEW ok \in BOOLEAN, LaunchUnit(r, ok) PROVE Ok
  <2>1. UNCHANGED <<archives, runVars, req, made>>
    BY <1>13, LaunchDoes
  <2>2. PICK w \in Runs : run[w].pc = "unused" /\ run'[w].pc = "begun" /\ \A u \in Runs \ {w} : run'[u] = run[u]
    BY <1>13, LaunchDoes
  <2>3. RunsMark({})
    BY <2>1, <2>2 DEF RunsMark, Ended, runVars
  <2> QED BY <1>0, <2>1, <2>3, KeptByRuns, TargetGoes
<1>14. ASSUME PortalBeside /\ OtherStep PROVE Ok
  <2>1. RunsMark({})
    BY <1>0, <1>14, OthersMark
  <2>2. made.overtaken \subseteq made'.overtaken
    BY <1>0, <1>14, ReplacePortalGoes, OvertakenGrows DEF PortalBeside, portalVars
  <2>3. NoNewTarget
    <3>1. CASE UNCHANGED req
      BY <1>0, <3>1, TargetGoes
    <3>2. CASE ReplacePortal
      <4>1. \A q \in Requests : req'[q].pc = "free"
        BY <1>0, <3>2, ReplacePortalGoes DEF NoRequest
      <4> QED BY <4>1 DEF NoNewTarget, Checked
    <3> QED BY <1>14, <3>1, <3>2 DEF PortalBeside, portalVars
  <2> QED BY <2>1, <2>2, <2>3, KeptByRuns
<1>15. ASSUME NEW u \in Runs, RunMarks(u) PROVE Ok
  <2> DEFINE S == {w \in {u} : \E r \in Requests : Checked(r, run[u].archive)}
  <2>1. RunsMark({u})
    BY <1>0, <1>15, WrapperMarks DEF RunMarks
  <2>2. S \in SUBSET Runs /\ made' = [made EXCEPT !.overtaken = @ \cup S] /\ req' = req
    BY <1>15 DEF RunMarks
  <2>3. \A r \in Requests : Checked(r, run[u].archive) => u \in S
    OBVIOUS
  <2> HIDE DEF S
  <2>4. made'.overtaken = made.overtaken \cup S
    BY <1>0, <2>2, OvertakenGrows
  <2>5. NoNewTarget
    BY <1>0, <2>2, TargetGoes
  <2> QED BY <2>1, <2>3, <2>4, <2>5, KeptByRuns
<1>16. ASSUME UNCHANGED vars PROVE Ok
  BY <1>0, <1>2, <1>16, TargetGoes DEF vars, scriptVars, portalVars
<1> HIDE DEF Ok
<1>17. Ok
  BY <1>3, <1>4, <1>5, <1>6, <1>7, <1>8, <1>9, <1>10, <1>11, <1>12, <1>13, <1>14, <1>15, <1>16, StepsOfNext
  DEF PortalStep
<1> QED BY <1>17 DEF Ok

(***************************************************************************)
(* The runs' own invariants, beside the portal; and the whole.             *)
(***************************************************************************)

ScriptInv == LockInv /\ SourceInv /\ BackupInv /\ BroughtInv

LEMMA ScriptInvBeside ==
    ASSUME ScriptInv, UNCHANGED <<run, runVars>>, faults'.restart = 0 => faults.restart = 0
    PROVE  ScriptInv'
<1>1. LockInv' /\ BackupInv'
  BY DEF ScriptInv, LockInv, BackupInv, runVars, systemVars
<1>2. SourceInv'
  BY DEF ScriptInv, SourceInv, NothingTorn, Whole, runVars, systemVars
<1>3. BroughtInv'
  BY DEF ScriptInv, BroughtInv, AgentInv, Brought, runVars, systemVars
<1> QED BY <1>1, <1>2, <1>3 DEF ScriptInv

LEMMA ScriptInvStep ==
    ASSUME TypeOK, BegunInv, CallInv, ScriptInv, [Next]_vars
    PROVE  ScriptInv'
<1>0. ScriptTypeOK
  BY DEF TypeOK
<1>1. CASE PortalStep
  BY <1>1, PortalTypes, ScriptInvBeside DEF Beside
<1>2. ASSUME NEW r \in Requests, NEW ok \in BOOLEAN, LaunchUnit(r, ok) PROVE ScriptInv'
  <2>1. PICK w \in Runs : run[w].pc = "unused" /\ run'[w].pc = "begun" /\ \A u \in Runs \ {w} : run'[u] = run[u]
    BY <1>2, LaunchDoes
  <2>2. UNCHANGED <<maintenance, systemVars, backup, published, source>> /\ faults'.restart = faults.restart
    BY <1>2, LaunchDoes DEF runVars, systemVars
  <2>3. "begun" \notin Locked /\ "begun" \notin SourcesChanged
    BY StepsApart
  <2>4. LockInv' /\ BackupInv'
    BY <2>1, <2>2, <2>3 DEF ScriptInv, LockInv, BackupInv
  <2>5. SourceInv'
    BY <2>1, <2>2, <2>3, SourceGoes DEF ScriptInv
  <2>6. BroughtInv'
    BY <2>1, <2>2, <2>3, BroughtBeside DEF ScriptInv
  <2> QED BY <2>4, <2>5, <2>6 DEF ScriptInv
<1>3. CASE ScriptStep
  BY <1>0, <1>3, LockStep, SourceStep, BackupStep, BroughtStep DEF ScriptInv
<1>4. CASE UNCHANGED vars
  BY <1>4, ScriptInvBeside DEF vars, scriptVars, runVars
<1> QED BY <1>1, <1>2, <1>3, <1>4, StepsOfNext

\* The inductive invariant.
IInv ==
    /\ TypeOK /\ BegunInv /\ ScriptInv
    /\ CallInv /\ RowInv /\ ClaimInv /\ StartsInv /\ UploadInv /\ MarkInv /\ TargetInv /\ RunningArchiveIsKept

LEMMA Initial == Init => IInv
<1> SUFFICES ASSUME Init PROVE IInv
  OBVIOUS
<1>1. ScriptTypeOK /\ BegunInv
  BY ScriptInitial DEF Init
<1>2. /\ NoRow.row = 0 /\ NoRow.status = "none" /\ NoRequest.pc = "free"
      /\ NoCall.pc = "none" /\ NoCall.method = "none" /\ NoCall.row = 0
      /\ NoRun.pc = "unused" /\ NoRun.row = 0
  BY DEF NoRow, NoRequest, NoCall, NoRun
<1>3. PortalTyped
  BY EmptyTyped DEF Init, PortalTyped
<1>4. TypeOK
  BY <1>1, <1>3, PortalInParts
<1>5. /\ \A u \in Runs : run[u] = NoRun
      /\ \A r \in Requests : req[r] = NoRequest /\ call[r] = NoCall
      /\ \A a \in Archives : rows[a] = NoRow
      /\ made.rows = 0 /\ made.uploads = {}
  BY DEF Init, ScriptInit
<1>6. ScriptInv
  <2>1. LockInv /\ BackupInv
    BY <1>2, <1>5, StepsApart DEF Init, ScriptInit, LockInv, BackupInv, NoBackup
  <2>2. SourceInv
    BY <1>2, <1>5, StepsApart DEF Init, ScriptInit, SourceInv, Whole, Versions
  <2>3. BroughtInv
    BY <1>2, <1>5, StepsApart DEF Init, ScriptInit, BroughtInv, AgentInv, Brought
  <2> QED BY <2>1, <2>2, <2>3 DEF ScriptInv
<1>7. CallInv /\ RowInv
  BY <1>2, <1>5 DEF CallInv, RowInv
<1>8. ClaimInv /\ MarkInv /\ TargetInv /\ RunningArchiveIsKept
  BY <1>2, <1>5 DEF ClaimInv, Claims, MarkInv, TargetInv, RunningArchiveIsKept
<1>9. UploadInv
  BY <1>2, <1>5, PortalAssumption DEF UploadInv, Unknown, Uploading, Publishing
<1>10. StartsInv
  <2> SUFFICES ASSUME NEW i \in Nat \ {0} PROVE IsFiniteSet(Starts(i)) /\ Cardinality(Starts(i)) <= 1 + faults.lost
    BY DEF StartsInv
  <2>1. RunsOf(i) = {} /\ CallsOf(i) = {} /\ ReadyOf(i) = {}
    <3>1. NoRow # [row |-> i, status |-> "ready"]
      BY DEF NoRow
    <3> QED BY <1>2, <1>5, <3>1 DEF RunsOf, CallsOf, ReadyOf
  <2>2. Starts(i) = {}
    BY <2>1 DEF Starts
  <2>3. faults.lost = 0
    BY DEF Init, ScriptInit
  <2> QED BY <2>2, <2>3, FS_EmptySet
<1> QED BY <1>1, <1>4, <1>6, <1>7, <1>8, <1>9, <1>10 DEF IInv

LEMMA InvStep == IInv /\ [Next]_vars => IInv'
<1> SUFFICES ASSUME IInv, [Next]_vars PROVE IInv'
  OBVIOUS
<1>1. /\ TypeOK /\ BegunInv /\ ScriptInv /\ CallInv /\ RowInv /\ ClaimInv /\ StartsInv /\ UploadInv /\ MarkInv
      /\ TargetInv /\ RunningArchiveIsKept
  BY DEF IInv
<1>2. TypeOK' /\ BegunInv'
  BY <1>1, TypeStep
<1>3. ScriptInv'
  BY <1>1, ScriptInvStep
<1>4. CallInv' /\ RowInv'
  BY <1>1, CallStep, RowStep
<1>5. ClaimInv'
  BY <1>1, ClaimStep
<1>6. StartsInv'
  BY <1>1, StartsStep
<1>7. UploadInv'
  BY <1>1, UploadStep
<1>8. MarkInv' /\ TargetInv' /\ RunningArchiveIsKept'
  BY <1>1, KeepStep
<1> QED BY <1>2, <1>3, <1>4, <1>5, <1>6, <1>7, <1>8 DEF IInv

LEMMA Invariant == Spec => []IInv
  BY Initial, InvStep, PTL DEF Spec

\* Type correctness.
THEOREM TypeCorrect == Spec => []TypeOK
<1>1. IInv => TypeOK
  BY DEF IInv
<1> QED BY <1>1, Invariant, PTL

\* The sources on the server and every backup of them are of one version.
THEOREM SourcesWhole == Spec => []SourcesAreWhole
<1>1. IInv => SourcesAreWhole
  BY DEF IInv, ScriptInv, SourceInv, NothingTorn, SourcesAreWhole
<1> QED BY <1>1, Invariant, PTL

\* The archive of a run from the portal stays until it is extracted, unless a request
\* looked for its marker before it was set.
THEOREM ArchiveKept == Spec => []RunningArchiveIsKept
<1>1. IInv => RunningArchiveIsKept
  BY DEF IInv
<1> QED BY <1>1, Invariant, PTL

\* A prepared update is started by one request, and run once.
THEOREM StartsSingle == Spec => []StartsAreSingle
<1>1. ASSUME IInv, NEW a \in Archives, Status(a) = "starting", ~ made.replaced
      PROVE  Cardinality({r \in Requests : req[r].pc = "waiting" /\ call[r].row = rows[a].row}) = 1
  <2>1. RowInv /\ ClaimInv /\ CallInv
    BY <1>1 DEF IInv
  <2>2. PICK r \in Requests : Claims(r) /\ call[r].row = rows[a].row
    BY <1>1, <2>1 DEF ClaimInv, Status
  <2>3. rows[a].row # 0
    BY <1>1, <2>1 DEF RowInv, Status
  <2>4. \A q \in Requests : req[q].pc = "waiting" /\ call[q].row = rows[a].row => q = r
    BY <2>1, <2>2, <2>3 DEF Claims, ClaimInv, CallInv
  <2>5. {q \in Requests : req[q].pc = "waiting" /\ call[q].row = rows[a].row} = {r}
    BY <2>2, <2>4 DEF Claims
  <2> QED BY <2>5, FS_Singleton
<1>2. ASSUME IInv, NEW i \in 1..made.rows
      PROVE  Cardinality({u \in Runs : run[u].row = i}) <= 1 + faults.lost
  <2>1. i \in Nat \ {0} /\ faults.lost \in Nat
    BY <1>2 DEF IInv, TypeOK, ScriptTypeOK
  <2>2. IsFiniteSet(Starts(i)) /\ Cardinality(Starts(i)) <= 1 + faults.lost
    BY <1>2, <2>1 DEF IInv, StartsInv
  <2> DEFINE f == [u \in RunsOf(i) |-> <<"run", u>>]
  <2>3. f \in Injection(RunsOf(i), Starts(i))
    <3>1. \A u \in RunsOf(i) : <<"run", u>> \in Starts(i)
      BY DEF Starts
    <3>2. f \in [RunsOf(i) -> Starts(i)]
      BY <3>1
    <3>3. \A u, v \in RunsOf(i) : <<"run", u>> = <<"run", v>> => u = v
      OBVIOUS
    <3>4. \A u, v \in RunsOf(i) : f[u] = f[v] => u = v
      BY <3>3
    <3> HIDE DEF f
    <3> QED BY <3>2, <3>4 DEF Injection, IsInjective
  <2>4. IsFiniteSet(RunsOf(i)) /\ Cardinality(RunsOf(i)) <= Cardinality(Starts(i))
    BY <2>2, <2>3, FS_Injection
  <2>5. Cardinality(RunsOf(i)) \in Nat /\ Cardinality(Starts(i)) \in Nat
    BY <2>2, <2>4, FS_CardinalityType
  <2>6. Cardinality(RunsOf(i)) <= 1 + faults.lost
    BY <2>1, <2>2, <2>4, <2>5
  <2> QED BY <2>6 DEF RunsOf
<1>3. IInv => StartsAreSingle
  BY <1>1, <1>2 DEF StartsAreSingle
<1> QED BY <1>3, Invariant, PTL

\* What holds when a run says OK.
Everywhere(u) ==
    LET v == run[u].archive IN
    /\ source' = Tree(v)
    /\ faults.restart = 0 => agent'.runs = v
    /\ run[u].mode = "full" =>
        /\ generated' = [env |-> v, config |-> v] /\ host' = v
        /\ containers'.portal = Definition("portal", v) /\ containers'.service = Definition("service", v)
        /\ run[u].found # Definition("service", v) => containers'.loaded = v

LEMMA OkStep ==
    ASSUME ScriptTypeOK, BegunInv, ScriptInv, ScriptStep, NEW u \in Runs,
           run[u].pc # "ok", run'[u].pc = "ok", run[u].plan = "read"
    PROVE  Everywhere(u)
<1>0. ThingsTyped /\ run \in [Runs -> RunRecord] /\ faults \in Faults /\ BroughtInv
  BY TypesInParts DEF ScriptInv
<1>1. ASSUME NEW x \in ByHand, RunByHand(x[1], x[2]) PROVE FALSE
  <2> DEFINE r == [NoRun EXCEPT !.pc = "waiting", !.archive = x[1], !.mode = x[2]]
  <2>1. r.pc = "waiting"
    BY DEF NoRun
  <2>2. PICK w \in Runs : run[w].pc = "unused" /\ run' = [run EXCEPT ![w] = r]
    BY <1>1, RunByHandBegins, BeginsTyped
  <2> HIDE DEF r
  <2> QED BY <1>0, <2>1, <2>2
<1>2. ASSUME NEW w \in Runs, NEW pc, Goes(w, pc), pc # "ok" PROVE FALSE
  BY <1>2 DEF Goes
<1>3. ASSUME NEW w \in Runs, MarkArchive(w) \/ Execute(w) \/ WrapperFails(w) \/ TakeLock(w) \/ NotStarted(w) \/ Render(w)
             \/ SyncHost(w) \/ ComposeUp(w) \/ Fail(w) \/ Kill(w)
      PROVE  FALSE
  BY <1>2, <1>3, StepGoes
<1>4. ASSUME NEW w \in Runs, Stage(w) PROVE FALSE
  BY <1>4, StageGoes
<1>5. ASSUME NEW w \in Runs, NEW read \in {"read", "lost"}, Plan(w, read) PROVE FALSE
  <2>1. run'[w].pc = "planned" /\ \A v \in Runs \ {w} : run'[v] = run[v]
    BY <1>5, PlanGoes
  <2> QED BY <2>1
<1>6. ASSUME run' = run PROVE FALSE
  BY <1>6
<1>7. ASSUME NEW w \in Runs, Finish(w) PROVE Everywhere(u)
  <2>1. Goes(w, "ok") /\ run[w].pc = "composed" /\ UNCHANGED systemVars
    BY <1>7, StepGoes DEF Finish, At
  <2>2. w = u
    BY <2>1 DEF Goes
  <2>3. Brought(run[u])
    BY <1>0 DEF BroughtInv
  <2> QED BY <2>1, <2>2, <2>3 DEF Brought, Everywhere, systemVars
<1>8. ASSUME NEW w \in Runs, InstallAgent(w) PROVE Everywhere(u)
  <2>1. Goes(w, IF run[w].mode = "full" THEN "agented" ELSE "ok")
    BY <1>8, StepGoes
  <2>2. w = u /\ run[u].mode # "full"
    BY <2>1 DEF Goes
  <2>3. Brought(run[u]) /\ AgentInv
    BY <1>0 DEF BroughtInv
  <2>4. run[u].pc = "planned" /\ agent' = AgentInstalled(u) /\ source' = source
    BY <1>8, <2>2 DEF InstallAgent, AtAgent
  <2>5. source = Tree(run[u].archive) /\ source["agent"] = run[u].archive
    BY <2>3, <2>4 DEF Brought, Tree, Parts
  <2>6. agent \in [runs : Versions \cup {Down}, saved : Versions]
    BY <1>0 DEF ThingsTyped
  <2>7. agent'.runs = IF RestartRequired THEN source["agent"] ELSE agent.runs
    BY <2>4, <2>6 DEF AgentInstalled, Restarted
  <2>8. faults.restart = 0 => agent'.runs = source["agent"]
    BY <2>3, <2>7 DEF RestartRequired, AgentInv
  <2> QED BY <2>2, <2>4, <2>5, <2>8 DEF Everywhere
<1> QED
  BY <1>1, <1>3, <1>4, <1>5, <1>6, <1>7, <1>8
  DEF ScriptStep, OtherStep, Step, InstallPart, AgentRestarts, ServiceRestarts, BackupBegins, BackupReads, BackupEnds

\* A run that says OK has brought everything to its version, but for service containers
\* that this version does not change.
THEOREM OkEverywhere == Spec => OkIsEverywhere
<1> DEFINE A == \A u \in Runs : ~ At(u, "ok") /\ At(u, "ok")' /\ run[u].plan = "read" => Everywhere(u)
<1>1. ASSUME IInv, [Next]_vars PROVE [A]_scriptVars
  <2>0. TypeOK /\ BegunInv /\ CallInv /\ ScriptInv /\ ScriptTypeOK
    BY <1>1 DEF IInv, TypeOK
  <2>1. CASE PortalStep
    BY <2>0, <2>1, PortalTypes DEF Beside, At
  <2>2. ASSUME NEW r \in Requests, NEW ok \in BOOLEAN, LaunchUnit(r, ok) PROVE A
    <3>1. PICK w \in Runs : run'[w].pc = "begun" /\ \A u \in Runs \ {w} : run'[u] = run[u]
      BY <2>0, <2>2, LaunchDoes
    <3> QED BY <3>1 DEF At
  <2>3. CASE ScriptStep
    BY <2>0, <2>3, OkStep DEF At
  <2>4. CASE UNCHANGED vars
    BY <2>4 DEF vars
  <2> QED BY <1>1, <2>1, <2>2, <2>3, <2>4, StepsOfNext
<1>2. IInv /\ [Next]_vars => [A]_scriptVars
  BY <1>1
<1> QED BY <1>2, Invariant, PTL DEF Spec, OkIsEverywhere, Everywhere

(***************************************************************************)
(* The sync of a host VPN.                                                 *)
(***************************************************************************)


\* The steps after the replacement of the copy.
SyncLate == {"unit", "choose", "syncconf", "restart", "verify"}

\* While the script runs, it works from the rendered file and from the copy as
\* it was when it began.
SyncScriptInv ==
    /\ script.pc # "idle" => script.new = rendered /\ answer = "none"
    /\ script.pc \in {"compare", "replace"} => script.old = copy
    /\ script.pc \in SyncLate => copy = rendered
    /\ script.pc \in {"replace"} \cup SyncLate =>
          script.structural = (script.old = None \/ script.old.link # script.new.link)

\* An interface has been brought up from a copy.
SyncInterfaceInv ==
    /\ unit # None => copy # None
    /\ interface # None => copy # None
    /\ script.pc \in {"unit", "choose"} /\ interface # None => script.old # None
    /\ script.pc = "syncconf" => interface # None /\ ~script.structural

SyncBaseInv == SyncTypeOK /\ SyncScriptInv /\ SyncInterfaceInv

\* The unit is written for the link part of the copy, unless a script has ended
\* halfway; one that sees the link part change writes it again.
SyncUnitInv ==
    copy # None /\ script.pc # "unit"
        /\ (halfway => script.structural /\ script.pc \in {"choose", "restart"})
    => unit = copy.link

\* The interface has the link part of the copy, unless a script has ended halfway
\* or a restart is still to come.
SyncLinkInv ==
    interface # None /\ ~halfway
        /\ (\/ script.pc \in {"idle", "compare", "replace", "syncconf", "verify"}
            \/ script.pc \in {"unit", "choose"} /\ ~script.structural)
    => interface.link = copy.link

SyncInv == SyncBaseInv /\ SyncUnitInv /\ SyncLinkInv /\ Synchronised

LEMMA SyncBaseInit == SyncInit => SyncBaseInv
<1> SUFFICES ASSUME SyncInit PROVE SyncBaseInv
  OBVIOUS
<1>1. NoScript \in [pc : Steps, old : Conf \cup {None}, new : Conf \cup {None}, structural : BOOLEAN]
  BY DEF NoScript, Steps
<1>2. rendered.link \in Links
  BY DEF SyncInit, Conf
<1>3. SyncTypeOK
  BY <1>1, <1>2 DEF SyncInit, SyncTypeOK
<1>4. script.pc = "idle"
  BY DEF SyncInit, NoScript
<1>5. SyncInterfaceInv
  BY <1>4, NoneAssumption DEF SyncInit, SyncInterfaceInv
<1> QED BY <1>3, <1>4, <1>5 DEF SyncBaseInv, SyncScriptInv, SyncLate

LEMMA SyncTypeStep == SyncBaseInv /\ [SyncNext]_syncVars => SyncTypeOK'
<1> SUFFICES ASSUME SyncBaseInv, [SyncNext]_syncVars PROVE SyncTypeOK'
  OBVIOUS
<1> USE NoneAssumption DEF SyncBaseInv, SyncTypeOK, Steps
<1>1. ASSUME NEW c \in Conf, RenderConf(c) PROVE SyncTypeOK'
  BY <1>1 DEF RenderConf
<1>2. CASE Stop BY <1>2 DEF Stop
<1>3. CASE Start BY <1>3 DEF Start, SyncInterfaceInv
<1>4. CASE InterfaceLost BY <1>4 DEF InterfaceLost
<1>5. CASE Begin BY <1>5 DEF Begin, NoScript
<1>6. CASE Compare
  <2>1. (IF script.old = None THEN TRUE ELSE script.old.link # script.new.link) \in BOOLEAN
    OBVIOUS
  <2> QED BY <1>6, <2>1 DEF Compare
<1>7. CASE Replace BY <1>7 DEF Replace, ScriptAt, SyncScriptInv
<1>8. CASE WriteUnit BY <1>8 DEF WriteUnit, ScriptAt, SyncScriptInv, SyncLate, Conf
<1>9. CASE Choose BY <1>9 DEF Choose, ScriptAt
<1>10. CASE Syncconf BY <1>10 DEF Syncconf, ScriptAt, SyncScriptInv, SyncInterfaceInv, SyncLate, Conf
<1>11. CASE SyncconfFails BY <1>11 DEF SyncconfFails, ScriptAt
<1>12. CASE Restart BY <1>12 DEF Restart, ScriptAt
<1>13. CASE RestartFails BY <1>13 DEF RestartFails, Failed, NoScript
<1>14. CASE Interrupted BY <1>14 DEF Interrupted, Failed, NoScript
<1>15. CASE Verify BY <1>15 DEF Verify, NoScript
<1>16. CASE UNCHANGED syncVars BY <1>16 DEF syncVars
<1> QED BY <1>1, <1>2, <1>3, <1>4, <1>5, <1>6, <1>7, <1>8, <1>9, <1>10, <1>11, <1>12,
           <1>13, <1>14, <1>15, <1>16 DEF SyncNext

LEMMA SyncScriptStep == SyncBaseInv /\ [SyncNext]_syncVars => SyncScriptInv'
<1> SUFFICES ASSUME SyncBaseInv, [SyncNext]_syncVars PROVE SyncScriptInv'
  OBVIOUS
<1> USE NoneAssumption DEF SyncBaseInv, SyncTypeOK, Steps, SyncScriptInv, SyncLate
<1>1. ASSUME NEW c \in Conf, RenderConf(c) PROVE SyncScriptInv'
  BY <1>1 DEF RenderConf
<1>2. CASE Stop BY <1>2 DEF Stop
<1>3. CASE Start BY <1>3 DEF Start
<1>4. CASE InterfaceLost BY <1>4 DEF InterfaceLost
<1>5. CASE Begin BY <1>5 DEF Begin, NoScript
<1>6. CASE Compare BY <1>6 DEF Compare
<1>7. CASE Replace BY <1>7 DEF Replace, ScriptAt
<1>8. CASE WriteUnit BY <1>8 DEF WriteUnit, ScriptAt
<1>9. CASE Choose BY <1>9 DEF Choose, ScriptAt
<1>10. CASE Syncconf BY <1>10 DEF Syncconf, ScriptAt
<1>11. CASE SyncconfFails BY <1>11 DEF SyncconfFails, ScriptAt
<1>12. CASE Restart BY <1>12 DEF Restart, ScriptAt
<1>13. CASE RestartFails BY <1>13 DEF RestartFails, Failed, NoScript
<1>14. CASE Interrupted BY <1>14 DEF Interrupted, Failed, NoScript
<1>15. CASE Verify BY <1>15 DEF Verify, NoScript
<1>16. CASE UNCHANGED syncVars BY <1>16 DEF syncVars
<1> QED BY <1>1, <1>2, <1>3, <1>4, <1>5, <1>6, <1>7, <1>8, <1>9, <1>10, <1>11, <1>12,
           <1>13, <1>14, <1>15, <1>16 DEF SyncNext

LEMMA SyncInterfaceStep == SyncBaseInv /\ [SyncNext]_syncVars => SyncInterfaceInv'
<1> SUFFICES ASSUME SyncBaseInv, [SyncNext]_syncVars PROVE SyncInterfaceInv'
  OBVIOUS
<1> USE NoneAssumption DEF SyncBaseInv, SyncTypeOK, Steps, SyncInterfaceInv, SyncLate
<1>1. ASSUME NEW c \in Conf, RenderConf(c) PROVE SyncInterfaceInv'
  BY <1>1 DEF RenderConf
<1>2. CASE Stop BY <1>2 DEF Stop
<1>3. CASE Start BY <1>3 DEF Start
<1>4. CASE InterfaceLost BY <1>4 DEF InterfaceLost
<1>5. CASE Begin BY <1>5 DEF Begin, NoScript
<1>6. CASE Compare BY <1>6 DEF Compare
<1>7. CASE Replace BY <1>7 DEF Replace, ScriptAt, SyncScriptInv
<1>8. CASE WriteUnit BY <1>8 DEF WriteUnit, ScriptAt, SyncScriptInv
<1>9. CASE Choose BY <1>9 DEF Choose, ScriptAt
<1>10. CASE Syncconf BY <1>10 DEF Syncconf, ScriptAt
<1>11. CASE SyncconfFails BY <1>11 DEF SyncconfFails, ScriptAt
<1>12. CASE Restart BY <1>12 DEF Restart, ScriptAt, SyncScriptInv
<1>13. CASE RestartFails BY <1>13 DEF RestartFails, Failed, NoScript
<1>14. CASE Interrupted BY <1>14 DEF Interrupted, Failed, NoScript, SyncScriptInv
<1>15. CASE Verify BY <1>15 DEF Verify, NoScript
<1>16. CASE UNCHANGED syncVars BY <1>16 DEF syncVars
<1> QED BY <1>1, <1>2, <1>3, <1>4, <1>5, <1>6, <1>7, <1>8, <1>9, <1>10, <1>11, <1>12,
           <1>13, <1>14, <1>15, <1>16 DEF SyncNext

\* Types, and what the script and the interface come from, hold always.
THEOREM SyncBase == SyncSpec => []SyncBaseInv
<1>1. SyncBaseInv /\ [SyncNext]_syncVars => SyncBaseInv'
  BY SyncTypeStep, SyncScriptStep, SyncInterfaceStep DEF SyncBaseInv
<1> QED BY SyncBaseInit, <1>1, PTL DEF SyncSpec

\* Type correctness, for all configurations.
THEOREM SyncTypeCorrect == SyncSpec => []SyncTypeOK
<1>1. SyncBaseInv => SyncTypeOK
  BY DEF SyncBaseInv
<1> QED BY SyncBase, <1>1, PTL

\* A sync takes a running interface down only for a change of its link part.
THEOREM SessionsSurvive == SyncSpec => SessionsSurvivePeerChanges
<1> DEFINE Keeps == interface # None /\ script.pc = "choose" /\ script'.pc = "restart"
                      => ~active \/ script.old.link # rendered.link
<1>1. SyncBaseInv /\ [SyncNext]_syncVars => [Keeps]_syncVars
  <2> SUFFICES ASSUME SyncBaseInv, SyncNext, interface # None, script.pc = "choose",
                      script'.pc = "restart", active
               PROVE  script.old.link # rendered.link
    OBVIOUS
  <2> USE DEF SyncBaseInv, SyncTypeOK
  <2>1. Choose
    <3>1. CASE Interrupted BY <3>1 DEF Interrupted, Failed, NoScript
    <3> QED BY <3>1 DEF SyncNext, RenderConf, Stop, Start, InterfaceLost, Begin, Compare, Replace,
                        WriteUnit, Syncconf, SyncconfFails, Restart, RestartFails, Verify
  <2>2. script.structural
    <3>1. script'.pc = IF ~script.structural /\ active /\ interface # None THEN "syncconf" ELSE "restart"
      BY <2>1 DEF Choose, ScriptAt
    <3> QED BY <3>1
  <2> QED BY <2>2 DEF SyncScriptInv, SyncInterfaceInv, SyncLate
<1> QED BY SyncBase, <1>1, PTL DEF SyncSpec, SessionsSurvivePeerChanges

LEMMA SyncUnitStep == SyncBaseInv /\ SyncUnitInv /\ [SyncNext]_syncVars => SyncUnitInv'
<1> SUFFICES ASSUME SyncBaseInv, SyncUnitInv, [SyncNext]_syncVars PROVE SyncUnitInv'
  OBVIOUS
<1> USE NoneAssumption DEF SyncBaseInv, SyncTypeOK, Steps, SyncUnitInv
<1>1. ASSUME NEW c \in Conf, RenderConf(c) PROVE SyncUnitInv'
  BY <1>1 DEF RenderConf
<1>2. CASE Stop BY <1>2 DEF Stop
<1>3. CASE Start BY <1>3 DEF Start
<1>4. CASE InterfaceLost BY <1>4 DEF InterfaceLost
<1>5. CASE Begin BY <1>5 DEF Begin, NoScript
<1>6. CASE Compare BY <1>6 DEF Compare
<1>7. CASE Replace
  <2>1. script.structural = (script.old = None \/ script.old.link # script.new.link)
        /\ script.old = copy
    BY <1>7 DEF Replace, SyncScriptInv
  <2> QED BY <1>7, <2>1 DEF Replace, ScriptAt, SyncInterfaceInv
<1>8. CASE WriteUnit BY <1>8 DEF WriteUnit, ScriptAt
<1>9. CASE Choose BY <1>9 DEF Choose, ScriptAt, SyncInterfaceInv
<1>10. CASE Syncconf BY <1>10 DEF Syncconf, ScriptAt
<1>11. CASE SyncconfFails BY <1>11 DEF SyncconfFails, ScriptAt, SyncInterfaceInv
<1>12. CASE Restart BY <1>12 DEF Restart, ScriptAt
<1>13. CASE RestartFails BY <1>13 DEF RestartFails, Failed, NoScript
<1>14. CASE Interrupted BY <1>14 DEF Interrupted, Failed, NoScript
<1>15. CASE Verify BY <1>15 DEF Verify, NoScript
<1>16. CASE UNCHANGED syncVars BY <1>16 DEF syncVars
<1> QED BY <1>1, <1>2, <1>3, <1>4, <1>5, <1>6, <1>7, <1>8, <1>9, <1>10, <1>11, <1>12,
           <1>13, <1>14, <1>15, <1>16 DEF SyncNext

LEMMA SyncLinkStep == SyncBaseInv /\ SyncLinkInv /\ [SyncNext]_syncVars => SyncLinkInv'
<1> SUFFICES ASSUME SyncBaseInv, SyncLinkInv, [SyncNext]_syncVars PROVE SyncLinkInv'
  OBVIOUS
<1> USE NoneAssumption DEF SyncBaseInv, SyncTypeOK, Steps, SyncLinkInv
<1>1. ASSUME NEW c \in Conf, RenderConf(c) PROVE SyncLinkInv'
  BY <1>1 DEF RenderConf
<1>2. CASE Stop BY <1>2 DEF Stop
<1>3. CASE Start BY <1>3 DEF Start
<1>4. CASE InterfaceLost BY <1>4 DEF InterfaceLost
<1>5. CASE Begin BY <1>5 DEF Begin, NoScript
<1>6. CASE Compare BY <1>6 DEF Compare
<1>7. CASE Replace
  <2>1. script.structural = (script.old = None \/ script.old.link # script.new.link)
        /\ script.old = copy
    BY <1>7 DEF Replace, SyncScriptInv
  <2> QED BY <1>7, <2>1 DEF Replace, ScriptAt, SyncInterfaceInv
<1>8. CASE WriteUnit BY <1>8 DEF WriteUnit, ScriptAt
<1>9. CASE Choose BY <1>9 DEF Choose, ScriptAt
<1>10. CASE Syncconf
  <2>1. interface \in Conf
    BY <1>10 DEF Syncconf, SyncInterfaceInv
  <2>2. interface'.link = interface.link
    BY <1>10, <2>1 DEF Syncconf, Conf
  <2> QED BY <1>10, <2>2 DEF Syncconf, ScriptAt, SyncInterfaceInv
<1>11. CASE SyncconfFails BY <1>11 DEF SyncconfFails, ScriptAt
<1>12. CASE Restart BY <1>12 DEF Restart, ScriptAt
<1>13. CASE RestartFails BY <1>13 DEF RestartFails, Failed, NoScript
<1>14. CASE Interrupted BY <1>14 DEF Interrupted, Failed, NoScript
<1>15. CASE Verify BY <1>15 DEF Verify, NoScript
<1>16. CASE UNCHANGED syncVars BY <1>16 DEF syncVars
<1> QED BY <1>1, <1>2, <1>3, <1>4, <1>5, <1>6, <1>7, <1>8, <1>9, <1>10, <1>11, <1>12,
           <1>13, <1>14, <1>15, <1>16 DEF SyncNext

\* Only Verify answers "ok", and whatever changes the state after it takes the
\* answer back.
LEMMA SyncAnswerStep == SyncBaseInv /\ SyncUnitInv /\ SyncLinkInv /\ Synchronised /\ [SyncNext]_syncVars => Synchronised'
<1> SUFFICES ASSUME SyncBaseInv, SyncUnitInv, SyncLinkInv, Synchronised, [SyncNext]_syncVars PROVE Synchronised'
  OBVIOUS
<1> USE DEF SyncBaseInv, Synchronised
<1>1. CASE answer' = "ok" /\ Verify
  <2>1. Verified /\ script.pc = "verify"
    BY <1>1 DEF Verify
  <2>2. copy = rendered /\ interface # None /\ interface.peers = rendered.peers
    BY <2>1 DEF Verified
  <2>3. rendered \in Conf /\ interface \in Conf
    BY <2>2 DEF SyncTypeOK
  <2>4. ~halfway => unit = rendered.link /\ interface.link = rendered.link
    BY <2>1, <2>2, <2>3, NoneAssumption DEF SyncUnitInv, SyncLinkInv
  <2>5. interface.link = rendered.link => interface = rendered
    BY <2>2, <2>3 DEF Conf
  <2> QED BY <1>1, <2>2, <2>4, <2>5 DEF Verify
<1>2. CASE answer' = "ok" /\ ~Verify
  <2>1. CASE UNCHANGED syncVars
    BY <2>1 DEF syncVars
  <2>2. CASE SyncNext
    <3>1. answer' # "failed" /\ answer' # "none"
      BY <1>2
    <3>2. script.pc # "idle"
      BY <2>2, <3>1, <1>2
      DEF SyncNext, RenderConf, Stop, Start, InterfaceLost, Begin, Compare, Replace, WriteUnit, Choose,
          Syncconf, SyncconfFails, Restart, RestartFails, Interrupted, Failed, Verify
    <3>3. answer = "none" /\ answer' = answer
      BY <2>2, <3>1, <3>2, <1>2
      DEF SyncNext, RenderConf, Stop, Start, InterfaceLost, Begin, Compare, Replace, WriteUnit, Choose,
          Syncconf, SyncconfFails, Restart, RestartFails, Interrupted, Failed, Verify, SyncScriptInv
    <3> QED BY <3>1, <3>3
  <2> QED BY <2>1, <2>2
<1> QED BY <1>1, <1>2

\* A sync that succeeds leaves what was rendered, up to a script ended halfway.
THEOREM SyncSynchronised == SyncSpec => []Synchronised
<1>1. SyncInit => SyncInv
  <2> SUFFICES ASSUME SyncInit PROVE SyncUnitInv /\ SyncLinkInv /\ Synchronised
    BY SyncBaseInit DEF SyncInv
  <2> QED BY NoneAssumption DEF SyncInit, NoScript, SyncUnitInv, SyncLinkInv, Synchronised
<1>2. SyncInv /\ [SyncNext]_syncVars => SyncInv'
  BY SyncTypeStep, SyncScriptStep, SyncInterfaceStep, SyncUnitStep, SyncLinkStep, SyncAnswerStep DEF SyncInv, SyncBaseInv
<1>3. SyncInv => Synchronised
  BY DEF SyncInv
<1> QED BY <1>1, <1>2, <1>3, PTL DEF SyncSpec
=============================================================================
