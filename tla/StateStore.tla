------------------------------ MODULE StateStore ------------------------------
(***************************************************************************)
(* users.json behind JsonStateStore (tools/kvnlib/core/io.py).             *)
(*                                                                         *)
(* A task is one thread that calls the store: an RPC handler of the        *)
(* host-agent, or a kvnctl command, which is a process of its own.  A      *)
(* transaction takes a thread lock (one per process) and then the advisory *)
(* lock of a file, both with a deadline; under them it reads users.json,   *)
(* compares the revision, runs the mutator, and installs the new content   *)
(* by a synced temporary file and os.replace.  A process may die at any    *)
(* step, and the host may lose power.                                      *)
(*                                                                         *)
(* The revision is a hash of the content, so it is the content here.       *)
(***************************************************************************)
EXTENDS Naturals

CONSTANTS
    Tasks,          \* threads that use the store
    Processes,      \* operating-system processes
    ProcessOf,      \* the process each task runs in
    Contents,       \* the contents users.json can have
    InitialContent,
    Mutators,       \* what callers ask for
    Mutate,         \* Mutate[m][c]: the content m makes of c, or Rejected
    Unguarded,      \* tasks that save a copy without naming a revision: kvnctl
    NoTask, NoContent, NoRequest, NoRevision, Rejected

ASSUME StoreAssumption ==
    /\ ProcessOf \in [Tasks -> Processes]
    /\ InitialContent \in Contents
    /\ Mutate \in [Mutators -> [Contents -> Contents \cup {Rejected}]]
    /\ Unguarded \subseteq Tasks
    /\ NoTask \notin Tasks
    /\ NoContent \notin Contents
    /\ NoRevision \notin Contents
    /\ Rejected \notin Contents
    /\ NoRequest \notin [kind : {"update", "save"}, mutator : Mutators,
                         basis : Contents \cup {NoContent},
                         expected : Contents \cup {NoRevision}]

VARIABLES
    file,           \* the content a reader of users.json sees
    fileSynced,     \* its data blocks are on the disk
    durable,        \* the content the directory entry on the disk leads to
    threadLock,     \* StateFileLock._thread_locks, per process
    fileLock,       \* the flock on .users.json.lock
    pc,             \* where each task is
    view,           \* the content a task read without a lock, and works from
    request,        \* the call a task is in
    seen,           \* the content it loaded under the lock
    working,        \* the content it is about to install
    tempSynced,     \* its temporary file has been fsynced
    outcome         \* how its call ended

locks == <<threadLock, fileLock>>
disk == <<file, fileSynced, durable>>
local == <<view, request, seen, working, tempSynced>>
vars == <<disk, locks, pc, local, outcome>>

Request == [kind : {"update", "save"}, mutator : Mutators,
            basis : Contents \cup {NoContent},
            expected : Contents \cup {NoRevision}]

\* "applied": acknowledged; "failed": an exception after or before os.replace;
\* "lost": the caller's process died under the call.
Outcomes == {"none", "applied", "unchanged", "conflict", "rejected", "timeout",
             "failed", "lost"}

\* The steps at which a task holds the thread lock, and the file lock.
InCriticalSection == {"locked", "write", "syncTemp", "replace", "syncDir", "unlockFile"}
HoldingThreadLock == InCriticalSection \cup {"waitFile", "unlockThread"}
Steps == HoldingThreadLock \cup {"idle", "waitThread"}

TypeOK ==
    /\ file \in Contents /\ durable \in Contents /\ fileSynced \in BOOLEAN
    /\ threadLock \in [Processes -> Tasks \cup {NoTask}]
    /\ fileLock \in Tasks \cup {NoTask}
    /\ pc \in [Tasks -> Steps]
    /\ view \in [Tasks -> Contents \cup {NoContent}]
    /\ request \in [Tasks -> Request \cup {NoRequest}]
    /\ seen \in [Tasks -> Contents \cup {NoContent}]
    /\ working \in [Tasks -> Contents \cup {NoContent}]
    /\ tempSynced \in [Tasks -> BOOLEAN]
    /\ outcome \in [Tasks -> Outcomes]

Init ==
    /\ file = InitialContent /\ durable = InitialContent /\ fileSynced = TRUE
    /\ threadLock = [p \in Processes |-> NoTask]
    /\ fileLock = NoTask
    /\ pc = [t \in Tasks |-> "idle"]
    /\ view = [t \in Tasks |-> NoContent]
    /\ request = [t \in Tasks |-> NoRequest]
    /\ seen = [t \in Tasks |-> NoContent]
    /\ working = [t \in Tasks |-> NoContent]
    /\ tempSynced = [t \in Tasks |-> FALSE]
    /\ outcome = [t \in Tasks |-> "none"]

(***************************************************************************)
(* Callers.                                                                *)
(***************************************************************************)

\* load(): no lock is taken, the read is atomic because the file is replaced.
Load(t) ==
    /\ pc[t] = "idle" /\ view[t] # file
    /\ view' = [view EXCEPT ![t] = file]
    /\ UNCHANGED <<disk, locks, pc, request, seen, working, tempSynced, outcome>>

Begin(t, r) ==
    /\ pc[t] = "idle"
    /\ pc' = [pc EXCEPT ![t] = "waitThread"]
    /\ request' = [request EXCEPT ![t] = r]
    /\ view' = [view EXCEPT ![t] = NoContent]
    /\ outcome' = [outcome EXCEPT ![t] = "none"]
    /\ UNCHANGED <<disk, locks, seen, working, tempSynced>>

\* update(mutator, expected_revision): the revision is the one of an earlier
\* load, or none (reconcile, set_service_enabled).
BeginUpdate(t, m) ==
    \E e \in {view[t], NoRevision} \ {NoContent} :
        Begin(t, [kind |-> "update", mutator |-> m, basis |-> NoContent, expected |-> e])

\* save(state, expected_revision): the new content was made from a copy loaded
\* earlier.  kvnctl names no revision.
BeginSave(t, m) ==
    /\ view[t] # NoContent
    /\ Mutate[m][view[t]] # Rejected
    /\ Begin(t, [kind |-> "save", mutator |-> m, basis |-> view[t],
                 expected |-> IF t \in Unguarded THEN NoRevision ELSE view[t]])

(***************************************************************************)
(* StateFileLock.__enter__ and __exit__.                                   *)
(***************************************************************************)

TakeThreadLock(t) ==
    /\ pc[t] = "waitThread" /\ threadLock[ProcessOf[t]] = NoTask
    /\ threadLock' = [threadLock EXCEPT ![ProcessOf[t]] = t]
    /\ pc' = [pc EXCEPT ![t] = "waitFile"]
    /\ UNCHANGED <<disk, fileLock, local, outcome>>

\* The call is over without any lock.
Leave(t, o) ==
    /\ pc' = [pc EXCEPT ![t] = "idle"]
    /\ outcome' = [outcome EXCEPT ![t] = o]
    /\ request' = [request EXCEPT ![t] = NoRequest]
    /\ seen' = [seen EXCEPT ![t] = NoContent]
    /\ working' = [working EXCEPT ![t] = NoContent]
    /\ tempSynced' = [tempSynced EXCEPT ![t] = FALSE]
    /\ UNCHANGED view

\* The holder of the thread lock outlasts the deadline.
ThreadLockTimeout(t) ==
    /\ pc[t] = "waitThread" /\ threadLock[ProcessOf[t]] # NoTask
    /\ Leave(t, "timeout")
    /\ UNCHANGED <<disk, locks>>

TakeFileLock(t) ==
    /\ pc[t] = "waitFile" /\ fileLock = NoTask
    /\ fileLock' = t
    /\ pc' = [pc EXCEPT ![t] = "locked"]
    /\ UNCHANGED <<disk, threadLock, local, outcome>>

\* Mutant: the timeout path also unlocks the file, which another task has locked.
FileLockTimeoutUnlocks(t) ==
    /\ pc[t] = "waitFile" /\ fileLock # NoTask
    /\ threadLock' = [threadLock EXCEPT ![ProcessOf[t]] = NoTask]
    /\ fileLock' = NoTask
    /\ Leave(t, "timeout")
    /\ UNCHANGED disk

\* Mutant: the lock on the file is awaited without a deadline.
FileLockTimeoutNever(t) == FALSE /\ UNCHANGED vars

\* The holder of the file lock outlasts the deadline: the thread lock is given back.
FileLockTimeout(t) ==
    /\ pc[t] = "waitFile" /\ fileLock # NoTask
    /\ threadLock' = [threadLock EXCEPT ![ProcessOf[t]] = NoTask]
    /\ Leave(t, "timeout")
    /\ UNCHANGED <<disk, fileLock>>

UnlockFile(t) ==
    /\ pc[t] = "unlockFile"
    /\ fileLock' = NoTask
    /\ pc' = [pc EXCEPT ![t] = "unlockThread"]
    /\ UNCHANGED <<disk, threadLock, local, outcome>>

UnlockThread(t) ==
    /\ pc[t] = "unlockThread"
    /\ threadLock' = [threadLock EXCEPT ![ProcessOf[t]] = NoTask]
    /\ Leave(t, outcome[t])
    /\ UNCHANGED <<disk, fileLock>>

(***************************************************************************)
(* The body of update() and save(), under the lock.                        *)
(***************************************************************************)

\* What the caller wants in the file, given what the file holds.
Proposal(r, c) == Mutate[r.mutator][IF r.kind = "update" THEN c ELSE r.basis]

\* Mutant: the revision is not compared.
DecisionUnchecked(r, c) ==
    IF Proposal(r, c) = Rejected THEN "rejected"
    ELSE IF r.kind = "update" /\ Proposal(r, c) = c THEN "unchanged"
    ELSE "none"

\* Mutant: an exception of the mutator is swallowed.
DecisionAcceptsRejected(r, c) ==
    IF r.expected # NoRevision /\ r.expected # c THEN "conflict"
    ELSE IF r.kind = "update" /\ Proposal(r, c) = c THEN "unchanged"
    ELSE "none"

\* load(), the revision check and the mutator.  update() writes only a change;
\* save() writes whatever it was given.
Decision(r, c) ==
    IF r.expected # NoRevision /\ r.expected # c THEN "conflict"
    ELSE IF Proposal(r, c) = Rejected THEN "rejected"
    ELSE IF r.kind = "update" /\ Proposal(r, c) = c THEN "unchanged"
    ELSE "none"

Decide(t) ==
    /\ pc[t] = "locked"
    /\ seen' = [seen EXCEPT ![t] = file]
    /\ outcome' = [outcome EXCEPT ![t] = Decision(request[t], file)]
    /\ IF Decision(request[t], file) = "none"
       THEN /\ pc' = [pc EXCEPT ![t] = "write"]
            /\ working' = [working EXCEPT ![t] = Proposal(request[t], file)]
       ELSE /\ pc' = [pc EXCEPT ![t] = "unlockFile"]
            /\ UNCHANGED working
    /\ UNCHANGED <<disk, locks, view, request, tempSynced>>

\* The temporary file is written, but it is still in the page cache.
WriteTemp(t) ==
    /\ pc[t] = "write"
    /\ pc' = [pc EXCEPT ![t] = "syncTemp"]
    /\ tempSynced' = [tempSynced EXCEPT ![t] = FALSE]
    /\ UNCHANGED <<disk, locks, view, request, seen, working, outcome>>

\* Mutant: the temporary file is not synced.
SyncTempSkipped(t) ==
    /\ pc[t] = "syncTemp"
    /\ pc' = [pc EXCEPT ![t] = "replace"]
    /\ UNCHANGED <<disk, locks, local, outcome>>

SyncTemp(t) ==
    /\ pc[t] = "syncTemp"
    /\ pc' = [pc EXCEPT ![t] = "replace"]
    /\ tempSynced' = [tempSynced EXCEPT ![t] = TRUE]
    /\ UNCHANGED <<disk, locks, view, request, seen, working, outcome>>

\* No space, before_replace() raised, ...: the temporary file is unlinked.
WriteFails(t) ==
    /\ pc[t] \in {"write", "syncTemp", "replace"}
    /\ pc' = [pc EXCEPT ![t] = "unlockFile"]
    /\ outcome' = [outcome EXCEPT ![t] = "failed"]
    /\ UNCHANGED <<disk, locks, local>>

\* os.replace: readers see the new content from here on.
Replace(t) ==
    /\ pc[t] = "replace"
    /\ file' = working[t]
    /\ fileSynced' = tempSynced[t]
    /\ pc' = [pc EXCEPT ![t] = "syncDir"]
    /\ UNCHANGED <<durable, locks, local, outcome>>

\* fsync of the directory: the replacement survives a power loss.
SyncDirectory(t) ==
    /\ pc[t] = "syncDir"
    /\ durable' = file
    /\ outcome' = [outcome EXCEPT ![t] = "applied"]
    /\ pc' = [pc EXCEPT ![t] = "unlockFile"]
    /\ UNCHANGED <<file, fileSynced, locks, local>>

\* Mutant: the failure is ignored, and the change is acknowledged.
SyncDirectoryFailsQuietly(t) ==
    /\ pc[t] = "syncDir"
    /\ outcome' = [outcome EXCEPT ![t] = "applied"]
    /\ pc' = [pc EXCEPT ![t] = "unlockFile"]
    /\ UNCHANGED <<disk, locks, local>>

\* The directory cannot be synced: an exception, with the file already replaced.
SyncDirectoryFails(t) ==
    /\ pc[t] = "syncDir"
    /\ outcome' = [outcome EXCEPT ![t] = "failed"]
    /\ pc' = [pc EXCEPT ![t] = "unlockFile"]
    /\ UNCHANGED <<disk, locks, local>>

(***************************************************************************)
(* Failures.                                                               *)
(***************************************************************************)

\* The tasks D end where they are; what they had in memory is gone.
Die(D) ==
    /\ pc' = [t \in Tasks |-> IF t \in D THEN "idle" ELSE pc[t]]
    /\ outcome' = [t \in Tasks |-> IF t \in D /\ pc[t] # "idle" THEN "lost" ELSE outcome[t]]
    /\ view' = [t \in Tasks |-> IF t \in D THEN NoContent ELSE view[t]]
    /\ request' = [t \in Tasks |-> IF t \in D THEN NoRequest ELSE request[t]]
    /\ seen' = [t \in Tasks |-> IF t \in D THEN NoContent ELSE seen[t]]
    /\ working' = [t \in Tasks |-> IF t \in D THEN NoContent ELSE working[t]]
    /\ tempSynced' = [t \in Tasks |-> IF t \in D THEN FALSE ELSE tempSynced[t]]

\* A process dies: the kernel drops its flock, its thread lock is no more.
ProcessDies(p) ==
    LET D == {t \in Tasks : ProcessOf[t] = p} IN
    /\ \E t \in D : pc[t] # "idle"
    /\ Die(D)
    /\ threadLock' = [threadLock EXCEPT ![p] = NoTask]
    /\ fileLock' = IF fileLock \in D THEN NoTask ELSE fileLock
    /\ UNCHANGED disk

\* The host loses power.  An unsynced rename may or may not have reached the
\* disk; where it did, the blocks it leads to are there only if they were synced.
PowerLoss ==
    /\ Die(Tasks)
    /\ threadLock' = [p \in Processes |-> NoTask]
    /\ fileLock' = NoTask
    /\ \/ UNCHANGED <<file, fileSynced>>
       \/ file' = durable /\ fileSynced' = TRUE
    /\ durable' = file'

Step(t) ==
    \/ TakeThreadLock(t) \/ ThreadLockTimeout(t)
    \/ TakeFileLock(t) \/ FileLockTimeout(t)
    \/ Decide(t)
    \/ WriteTemp(t) \/ SyncTemp(t) \/ WriteFails(t)
    \/ Replace(t) \/ SyncDirectory(t) \/ SyncDirectoryFails(t)
    \/ UnlockFile(t) \/ UnlockThread(t)

Next ==
    \/ \E t \in Tasks : Load(t) \/ Step(t)
    \/ \E t \in Tasks, m \in Mutators : BeginUpdate(t, m) \/ BeginSave(t, m)
    \/ \E p \in Processes : ProcessDies(p)
    \/ PowerLoss

Spec == Init /\ [][Next]_vars

\* A running thread goes on; a wait ends by the lock or by its deadline.
FairSpec == Spec /\ \A t \in Tasks : WF_vars(Step(t))
(***************************************************************************)
(* Properties.                                                             *)
(***************************************************************************)

\* No two threads, of one process or of two, are between load() and the
\* release of the lock, whatever timed out or died before (StateFileLock).
MutualExclusion ==
    \A t, u \in Tasks :
        pc[t] \in InCriticalSection /\ pc[u] \in InCriticalSection => t = u

Replacing(t) == pc[t] = "replace" /\ pc'[t] = "syncDir"

\* os.replace of t installs what its mutator makes of the content it replaces,
\* and the content it replaces has the revision the caller named.
Serial(t) ==
    /\ file' = Mutate[request[t].mutator][file]
    /\ request[t].expected \in {NoRevision, file}

\* update(), and a save() that names a revision, lose no change that another
\* task made since they read the file, kvnctl's unguarded saves included.
GuardedReplaceIsSerial ==
    [][\A t \in Tasks :
        Replacing(t) /\ (request[t].kind = "update" \/ request[t].expected # NoRevision)
            => Serial(t)]_vars

\* Every change of users.json is a serialised transaction: what the docstrings
\* of io.py say of the store ("serialised transactions", "the single point of
\* serialised transactions over a JSON file").
EveryReplaceIsSerial == [][\A t \in Tasks : Replacing(t) => Serial(t)]_vars

\* When a call is acknowledged, a power loss no longer takes its change back:
\* the disk leads to the content it installed, and to all of it.
AcknowledgedIsDurable ==
    [][\A t \in Tasks :
        outcome[t] # "applied" /\ outcome'[t] = "applied"
            => durable' = working[t] /\ fileSynced']_vars

\* Whatever the other threads hold or do, a call ends: by its work, by the
\* deadline of one of the two locks, or with its process.
CallReturns == \A t \in Tasks : pc[t] # "idle" ~> pc[t] = "idle"

\* The store is a register with atomic transactions.
Register == INSTANCE SerialStore
    WITH content <- file, stable <- durable, call <- request,
         installed <- {t \in Tasks : pc[t] = "syncDir"}
ImplementsSerialStore == Register!Spec
=============================================================================
