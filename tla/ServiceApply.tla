----------------------------- MODULE ServiceApply -----------------------------
(***************************************************************************)
(* From users.json to the running services: the mutation RPCs of the       *)
(* host-agent (portal/agent.py, portal/control, dispatcher.py) and the     *)
(* render and apply they call (tools/kvnlib/commands, runtime/plan.py).    *)
(*                                                                         *)
(* users.json is the desired state: a configuration for every service, as  *)
(* a version, and whether the operator enabled it.  A request commits to   *)
(* users.json (one atomic step, module StateStore), renders the generated  *)
(* files one by one, compares them with what they were, and applies the    *)
(* difference to the services.  Docker services read their generated file  *)
(* when they start or reload; a host VPN reads a copy under /etc that the  *)
(* sync script installs.  RPCs run in threads under the global mutation    *)
(* lock, except service.action, which takes a lock of its service.         *)
(*                                                                         *)
(* The configurations of a host VPN differ in its peers only; a change of  *)
(* its interface section is the subject of HostVpnSync.                    *)
(***************************************************************************)
EXTENDS Naturals, FiniteSets, Sequences, SequencesExt

CONSTANTS
    Docker, Host,   \* services run by Compose, host VPN services
    Threads,        \* RPC handler threads of the host-agent
    Operations,     \* bound: the operations each thread is asked for
    RenderOrder,    \* the order in which render_all writes the files
    MaxVersion,     \* bound on the configurations of a service
    Unused,         \* the configurations in which no user has the service
    NoThread

Services == Docker \cup Host
\* service.action without "apply": it works on one service.
Actions == {"start", "stop", "restart", "reload", "enable", "disable"}
AllOperations == {"change", "reconcile", "apply"} \cup Actions

ASSUME ServiceAssumption ==
    /\ Docker \cap Host = {}
    /\ IsFiniteSet(Services) /\ Services # {}
    /\ Operations \in [Threads -> SUBSET AllOperations]
    /\ RenderOrder \in Seq(Services) /\ ToSet(RenderOrder) = Services
    /\ MaxVersion \in Nat \ {0}
    /\ Unused \subseteq 1..MaxVersion
    /\ NoThread \notin Threads

VARIABLES
    users,          \* users.json
    generated,      \* the rendered file of each service
    installed,      \* the copy of it under /etc, host services
    running,        \* the configuration a running service has loaded, or Down
    globalLock,     \* AgentApplication.mutation_lock
    serviceLock,    \* AgentApplication.service_locks
    thread,         \* the request each thread is at
    reported,       \* history: services an answer, a crash or two requests at once left in
                    \* doubt and that have not been seen to run their configuration since
    contested,      \* history: services that two requests in progress work on, under two locks
    byHand          \* history: what an action of the operator made of a service, where this
                    \* is not what users.json asks for

history == <<reported, contested, byHand>>
world == <<users, generated, installed, running>>
locks == <<globalLock, serviceLock>>
vars == <<world, locks, thread, history>>

Down == 0
Version == 1..MaxVersion
Desired == [config : [Services -> Version], enabled : [Services -> BOOLEAN]]

Fresh == [config |-> [s \in Services |-> 1], enabled |-> [s \in Services |-> TRUE]]

Idle == [pc |-> "idle", op |-> "none", service |-> CHOOSE s \in Services : TRUE,
         affected |-> {}, seen |-> Fresh, before |-> Fresh, after |-> Fresh,
         fingerprint |-> Fresh.config, written |-> 0,
         todo |-> {}, syncing |-> {}, queue |-> {}, failed |-> {}]

Steps == {"idle", "commit", "fingerprint", "render", "plan", "apply", "verify", "answer",
          "runtime", "persist"}

Request ==
    [pc : Steps, op : AllOperations \cup {"none"}, service : Services,
     affected : SUBSET Services, seen : Desired, before : Desired, after : Desired,
     fingerprint : [Services -> Version], written : 0..Len(RenderOrder),
     todo : SUBSET Services, syncing : SUBSET Host, queue : SUBSET Services, failed : SUBSET Services]

\* Every variable has its type.
TypeOK ==
    /\ users \in Desired
    /\ generated \in [Services -> Version]
    /\ installed \in [Host -> Version]
    /\ running \in [Services -> Version \cup {Down}]
    /\ globalLock \in Threads \cup {NoThread}
    /\ serviceLock \in [Services -> Threads \cup {NoThread}]
    /\ thread \in [Threads -> Request]
    /\ reported \subseteq Services /\ contested \subseteq Services
    /\ byHand \in [Services -> SUBSET (Version \cup {Down})]

Init ==
    /\ users = Fresh
    /\ generated = Fresh.config
    /\ installed = [h \in Host |-> 1]
    /\ running = [s \in Services |-> 1]
    /\ globalLock = NoThread
    /\ serviceLock = [s \in Services |-> NoThread]
    /\ thread = [t \in Threads |-> Idle]
    /\ reported = {} /\ contested = {} /\ byHand = [s \in Services |-> {}]

(***************************************************************************)
(* Requests and locks: handle_line, mutation_lock_scope.                   *)
(***************************************************************************)

Becomes(t, request) == thread' = [thread EXCEPT ![t] = request]

IsServiceScope(op) == op \in Actions \cup {"apply"}

\* The services a request may work on.
Scope(op, s) == IF op \in Actions THEN {s} ELSE Services

\* The service whose lock a request takes; none for the global lock.
LockOf(op, s) == IF IsServiceScope(op) THEN {s} ELSE {}

InProgress(t) == thread[t].pc # "idle"

\* The request of u is in progress under another lock.
Beside(u, op, s) == InProgress(u) /\ LockOf(thread[u].op, thread[u].service) # LockOf(op, s)

\* A request gets its lock; one that waits for it has done nothing.  A change names the
\* revision of users.json it has seen, the current one or that of a page loaded at the
\* beginning, and the services whose configuration it touches, none when it repeats what is
\* there.
Begin(t, op, s, A) ==
    /\ thread[t].pc = "idle" /\ op \in Operations[t]
    /\ op = "apply" => s \in Host
    /\ op = "reload" => s \in Docker
    /\ ~IsServiceScope(op) => s = Idle.service
    /\ op # "change" => A = {}
    /\ \A x \in A : users.config[x] < MaxVersion
    /\ \E seen \in IF op = "change" THEN {users, Fresh} ELSE {Fresh} :
        Becomes(t, [Idle EXCEPT !.pc = IF op \in Actions THEN "runtime" ELSE "commit",
                                !.op = op, !.service = s, !.affected = A, !.seen = seen])
    /\ IF IsServiceScope(op)
       THEN /\ serviceLock[s] = NoThread /\ serviceLock' = [serviceLock EXCEPT ![s] = t]
            /\ UNCHANGED globalLock
       ELSE globalLock = NoThread /\ globalLock' = t /\ UNCHANGED serviceLock
    /\ contested' = contested \cup UNION {Scope(op, s) \cap Scope(thread[u].op, thread[u].service) :
                                             u \in {u \in Threads : Beside(u, op, s)}}
    /\ UNCHANGED <<world, reported, byHand>>

\* The answer is sent and the lock is released; F is what it calls failed.  The last
\* of several requests leaves in doubt what two of them worked on.
Answer(t, F) ==
    /\ Becomes(t, Idle)
    /\ IF \E u \in Threads \ {t} : InProgress(u)
       THEN reported' = reported \cup F /\ UNCHANGED contested
       ELSE reported' = reported \cup F \cup contested /\ contested' = {}
    /\ IF IsServiceScope(thread[t].op)
       THEN /\ serviceLock' = [serviceLock EXCEPT ![thread[t].service] = NoThread]
            /\ UNCHANGED globalLock
       ELSE globalLock' = NoThread /\ UNCHANGED serviceLock

(***************************************************************************)
(* state.apply, state.reconcile and service.action apply.                  *)
(***************************************************************************)

NextConfig(A) == [s \in Services |-> IF s \in A THEN users.config[s] + 1 ELSE users.config[s]]

\* STATE_STORE.update: a change is refused when users.json is not what the client
\* saw, and ends when it changes nothing; the other operations only read.
Refused(t) == thread[t].op = "change" /\ (thread[t].seen # users \/ thread[t].affected = {})

CommitRefused(t) ==
    /\ thread[t].pc = "commit" /\ Refused(t)
    /\ Answer(t, {})
    /\ UNCHANGED <<world, byHand>>

Commit(t) ==
    /\ thread[t].pc = "commit" /\ ~Refused(t)
    /\ users' = [users EXCEPT !.config = NextConfig(thread[t].affected)]
    /\ Becomes(t, [thread[t] EXCEPT !.pc = "fingerprint", !.before = users, !.after = users',
                                    !.affected = {}, !.seen = Fresh])
    /\ UNCHANGED <<generated, installed, running, locks, history>>

\* generated_fingerprint, before the first file is written.
Fingerprint(t) ==
    /\ thread[t].pc = "fingerprint"
    /\ Becomes(t, [thread[t] EXCEPT !.pc = "render", !.fingerprint = generated])
    /\ UNCHANGED <<world, locks, history>>

\* render_all: one generated file after another, from the committed snapshot.
Render(t) ==
    LET s == RenderOrder[thread[t].written + 1] IN
    /\ thread[t].pc = "render"
    /\ generated' = [generated EXCEPT ![s] = thread[t].after.config[s]]
    /\ Becomes(t, [thread[t] EXCEPT !.written = thread[t].written + 1,
                                    !.pc = IF thread[t].written + 1 = Len(RenderOrder) THEN "plan" ELSE "render"])
    /\ UNCHANGED <<users, installed, running, locks, history>>

\* Rendering raises: apply_degraded, "run reconcile".
RenderFails(t) ==
    /\ thread[t].pc \in {"fingerprint", "render"}
    /\ Answer(t, Services)
    /\ UNCHANGED <<world, byHand>>

\* build_change_set, and the choice restart_services makes from it: a Docker
\* service is touched when its file changed, a host VPN also when its desired
\* state changed or the caller forces it, and a disabled service never.
Changed(t) == {s \in Services : thread[t].fingerprint[s] # generated[s]}

\* Mutants: reconcile forces nothing; apply forces nothing.
ForcedByApply(t) == IF thread[t].op = "apply" THEN {thread[t].service} ELSE {}
ForcedByReconcile(t) == IF thread[t].op = "reconcile" THEN Host ELSE {}

Forced(t) ==
    CASE thread[t].op = "reconcile" -> {h \in Host : thread[t].after.config[h] \notin Unused}
      [] thread[t].op = "apply" -> {thread[t].service}
      [] OTHER -> {}

SemanticChange(t) ==
    {h \in Host : thread[t].before.config[h] # thread[t].after.config[h]}

Touched(t) == (Docker \cap Changed(t)) \cup (Host \cap (Changed(t) \cup SemanticChange(t) \cup Forced(t)))

\* What the plan was made from is not needed any more.
Planned(t) == [thread[t] EXCEPT !.pc = "apply", !.before = Fresh, !.fingerprint = Fresh.config, !.written = 0]

\* Mutant: the operator's preference is forgotten.
PlanAll(t) ==
    /\ thread[t].pc = "plan"
    /\ Becomes(t, [Planned(t) EXCEPT !.todo = Touched(t)])
    /\ UNCHANGED <<world, locks, history>>

Plan(t) ==
    /\ thread[t].pc = "plan"
    /\ Becomes(t, [Planned(t) EXCEPT !.todo = {s \in Touched(t) : thread[t].after.enabled[s]}])
    /\ UNCHANGED <<world, locks, history>>

\* What users.json asks a service to run.
Asked(s) == IF users.enabled[s] THEN users.config[s] ELSE Down

\* The services still in doubt when run is what runs.
InDoubt(run) == {s \in reported : generated[s] # users.config[s] \/ run[s] # Asked(s)}

\* The services of S run what the plan says, whatever the operator made of them before.
TakenBack(S) == [s \in Services |-> IF s \in S THEN {} ELSE byHand[s]]

\* A reload or a hot update of a Docker service works, or is replaced by a restart.
ApplyDocker(t, s) ==
    /\ thread[t].pc = "apply" /\ s \in thread[t].todo \cap Docker
    /\ \/ /\ running[s] # Down
          /\ running' = [running EXCEPT ![s] = generated[s]]
          /\ reported' = InDoubt(running') /\ byHand' = TakenBack({s})
          /\ Becomes(t, [thread[t] EXCEPT !.todo = thread[t].todo \ {s}])
       \/ /\ Becomes(t, [thread[t] EXCEPT !.todo = thread[t].todo \ {s}, !.queue = thread[t].queue \cup {s}])
          /\ UNCHANGED <<running, reported, byHand>>
    /\ UNCHANGED <<users, generated, installed, locks, contested>>

\* sync-host-service.sh: the copy under /etc, then syncconf or a restart, which
\* also starts a service that was down.
SyncHost(t, h) ==
    /\ thread[t].pc = "apply" /\ h \in thread[t].todo \cap Host
    /\ installed' = [installed EXCEPT ![h] = generated[h]]
    /\ running' = [running EXCEPT ![h] = generated[h]]
    /\ Becomes(t, [thread[t] EXCEPT !.pc = "verify", !.syncing = {h}])
    /\ byHand' = TakenBack({h})
    /\ UNCHANGED <<users, generated, locks, reported, contested>>

\* The script stops at one of its steps; the service is as before, or down.
SyncHostFails(t, h) ==
    /\ thread[t].pc = "apply" /\ h \in thread[t].todo \cap Host
    /\ \/ UNCHANGED <<installed, running>>
       \/ /\ installed' = [installed EXCEPT ![h] = generated[h]]
          /\ running' \in {running, [running EXCEPT ![h] = Down]}
    /\ Becomes(t, [thread[t] EXCEPT !.todo = thread[t].todo \ {h}, !.failed = thread[t].failed \cup {h}])
    /\ UNCHANGED <<users, generated, locks, history>>

\* verify_*_runtime: the project file and the copy agree, and the peers that run
\* are those of the state this request committed.
Verified(t, h) ==
    /\ generated[h] = installed[h]
    /\ running[h] = thread[t].after.config[h]

VerifyHost(t) ==
    \E h \in thread[t].syncing :
        /\ thread[t].pc = "verify"
        /\ Becomes(t, [thread[t] EXCEPT !.pc = "apply", !.syncing = {}, !.todo = thread[t].todo \ {h},
                                        !.failed = thread[t].failed \cup (IF Verified(t, h) THEN {} ELSE {h})])
        /\ reported' = InDoubt(running)
        /\ UNCHANGED <<world, locks, contested, byHand>>

\* docker compose restart of everything queued; it starts what was stopped.
Restart(t) ==
    /\ thread[t].pc = "apply" /\ thread[t].todo = {}
    /\ running' = [s \in Services |->
                     IF s \in thread[t].queue THEN generated[s] ELSE running[s]]
    /\ reported' = InDoubt(running') /\ byHand' = TakenBack(thread[t].queue)
    /\ Becomes(t, [thread[t] EXCEPT !.pc = "answer"])
    /\ UNCHANGED <<users, generated, installed, locks, contested>>

\* The command fails or outlives its timeout: any service may be as it was, be
\* down, or come up after all.
RestartFails(t) ==
    /\ thread[t].pc = "apply" /\ thread[t].todo = {} /\ thread[t].queue # {}
    /\ \E left \in [thread[t].queue -> {"unchanged", "down", "restarted"}] :
        running' = [s \in Services |->
            IF s \notin thread[t].queue \/ left[s] = "unchanged" THEN running[s]
            ELSE IF left[s] = "down" THEN Down ELSE generated[s]]
    /\ Becomes(t, [thread[t] EXCEPT !.pc = "answer", !.failed = thread[t].failed \cup thread[t].queue])
    /\ UNCHANGED <<users, generated, installed, locks, history>>

\* Mutant: the report says applied although services failed.
FinishApplied(t) ==
    /\ thread[t].pc = "answer"
    /\ Answer(t, {})
    /\ UNCHANGED <<world, byHand>>

\* The apply report; outcome "failed" when failed is not empty.
Finish(t) ==
    /\ thread[t].pc = "answer"
    /\ Answer(t, thread[t].failed)
    /\ UNCHANGED <<world, byHand>>

(***************************************************************************)
(* service.action: the service first; enable and disable then users.json.  *)
(***************************************************************************)

\* What a service that is started reads: a host VPN its copy under /etc.
Started(s) == IF s \in Host THEN installed[s] ELSE generated[s]

\* systemctl or docker compose.  A restart, or a reload that is replaced by one, starts
\* what was down; a start leaves alone what runs.
Switched(t) ==
    LET s == thread[t].service IN
    CASE thread[t].op \in {"stop", "disable"} -> [running EXCEPT ![s] = Down]
      [] thread[t].op \in {"restart", "reload"} -> [running EXCEPT ![s] = Started(s)]
      [] OTHER -> IF running[s] = Down THEN [running EXCEPT ![s] = Started(s)] ELSE running

\* What users.json asks for, or is about to.
Meant(t) ==
    LET s == thread[t].service IN
    CASE thread[t].op = "enable" -> users.config[s] [] thread[t].op = "disable" -> Down [] OTHER -> Asked(s)

SwitchRuntime(t) ==
    LET s == thread[t].service IN
    /\ thread[t].pc = "runtime"
    /\ running' = Switched(t)
    /\ byHand' = [byHand EXCEPT ![s] = {running'[s]} \ {Meant(t)}]
    /\ Becomes(t, [thread[t] EXCEPT !.pc = "persist"])
    /\ UNCHANGED <<users, generated, installed, locks, reported, contested>>

\* The command fails, or the service is not found as it should be.
SwitchRuntimeFails(t) ==
    /\ thread[t].pc = "runtime"
    /\ running' \in {running, Switched(t), [running EXCEPT ![thread[t].service] = Down]}
    /\ Answer(t, {thread[t].service})
    /\ UNCHANGED <<users, generated, installed, byHand>>

\* A start, stop, restart or reload leaves users.json alone.
Persist(t) ==
    LET s == thread[t].service IN
    /\ thread[t].pc = "persist"
    /\ users' = IF thread[t].op \in {"enable", "disable"}
                THEN [users EXCEPT !.enabled[s] = (thread[t].op = "enable")] ELSE users
    /\ Answer(t, {})
    /\ UNCHANGED <<generated, installed, running, byHand>>

\* "The service was changed, but its persistent state could not be saved."
PersistFails(t) ==
    /\ thread[t].pc = "persist" /\ thread[t].op \in {"enable", "disable"}
    /\ Answer(t, {thread[t].service})
    /\ UNCHANGED <<world, byHand>>

(***************************************************************************)
(* The agent stops or dies with its threads, and systemd starts it again:  *)
(* reconcile_services enables or disables every service by users.json, and *)
(* fails for some of them, before the socket is served.                    *)
(***************************************************************************)

AgentRestart(failing) ==
    /\ thread' = [t \in Threads |-> Idle]
    /\ globalLock' = NoThread
    /\ serviceLock' = [s \in Services |-> NoThread]
    /\ running' = [s \in Services |->
                     IF s \in failing THEN running[s]
                     ELSE IF ~users.enabled[s] THEN Down
                     ELSE IF running[s] = Down THEN Started(s) ELSE running[s]]
    /\ byHand' = [s \in Services |->
                     IF s \in failing \/ running'[s] = running[s] THEN byHand[s] ELSE {running'[s]} \ {Asked(s)}]
    /\ reported' = IF \E t \in Threads : InProgress(t) THEN Services ELSE reported
    /\ contested' = {}
    /\ UNCHANGED <<users, generated, installed>>

Handle(t) ==
    \/ CommitRefused(t) \/ Commit(t) \/ Fingerprint(t) \/ Render(t) \/ RenderFails(t) \/ Plan(t)
    \/ \E s \in Services : ApplyDocker(t, s) \/ SyncHost(t, s) \/ SyncHostFails(t, s)
    \/ VerifyHost(t) \/ Restart(t) \/ RestartFails(t) \/ Finish(t)
    \/ SwitchRuntime(t) \/ SwitchRuntimeFails(t) \/ Persist(t) \/ PersistFails(t)

Next ==
    \/ \E t \in Threads, op \in AllOperations, s \in Services, A \in SUBSET Services : Begin(t, op, s, A)
    \/ \E t \in Threads : Handle(t)
    \/ \E failing \in SUBSET Services : AgentRestart(failing)

Spec == Init /\ [][Next]_vars

(***************************************************************************)
(* Properties.                                                             *)
(***************************************************************************)

Quiet == \A t \in Threads : ~InProgress(t)

\* When no request is in progress, a service that no answer left in doubt, and that no two
\* requests under different locks worked on at once, has the generated file of users.json
\* and, where enabled, runs it, or is as the operator left it: stopped, or started from an
\* older file.
UnreportedIsCurrent ==
    Quiet => \A s \in Services \ reported :
        /\ generated[s] = users.config[s]
        /\ users.enabled[s] => running[s] \in {users.config[s]} \cup byHand[s]

\* A disabled service stays down through changes, reconciles and restarts, unless the
\* operator starts it (README.md: "a disabled service is excluded ... and does not come alive").
DisabledStaysDown ==
    Quiet => \A s \in Services \ reported : ~users.enabled[s] => running[s] \in {Down} \cup byHand[s]

\* t ends an operation op that reports success while nothing else is in progress.
Succeeds(t, op) ==
    /\ thread[t].op = op /\ thread[t].pc = "answer" /\ thread'[t].pc = "idle"
    /\ thread[t].failed = {}
    /\ \A u \in Threads \ {t} : ~InProgress(u)

\* The enabled services of S, but for those another request worked on meanwhile.
Converged(S) == \A s \in S \ contested : users.enabled[s] => running[s] = users.config[s]

\* After a reconcile that succeeds, whatever failed or died before it and whatever the operator
\* stopped, every enabled host VPN that some user has runs the configuration of users.json.
ReconcileConvergesHost ==
    [][\A t \in Threads :
         Succeeds(t, "reconcile") => Converged({h \in Host : users.config[h] \notin Unused})]_vars

\* Whatever failed or died before it, and however stale the copy under /etc is, a
\* forced apply that succeeds leaves its service, if enabled, with the peers of
\* users.json (the button "apply configuration").
ForcedApplyConverges == [][\A t \in Threads : Succeeds(t, "apply") => Converged({thread[t].service})]_vars

\* After a reconcile that succeeds every enabled service runs the configuration of
\* users.json (README.md: "reconcile applies the saved desired state again").
ReconcileConverges == [][\A t \in Threads : Succeeds(t, "reconcile") => Converged(Services)]_vars
=============================================================================
