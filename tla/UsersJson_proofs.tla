--------------------------- MODULE UsersJson_proofs ---------------------------
(***************************************************************************)
(* Proofs about users.json: how it is stored (StateStore), for any number  *)
(* of tasks, processes, contents and mutators, and what it says and what   *)
(* is generated from it (DesiredState), for any users, domains,            *)
(* certificates, routes, addresses and operations.                         *)
(*                                                                         *)
(* The inductive invariant of the store says who holds which lock, and     *)
(* that between Decide and Replace the file is still what the task loaded. *)
(* That of the content says that tunnel addresses are apart and that the   *)
(* files, when they are those of the state, are a render of a state that   *)
(* passed the checks.                                                      *)
(***************************************************************************)
EXTENDS StateStore, DesiredState, WellFoundedInduction, FiniteSetTheorems, TLAPS

(***************************************************************************)
(* The store.                                                              *)
(***************************************************************************)

\* The locks are held exactly at the steps that need them.
LockInv ==
    /\ \A t \in Tasks : pc[t] \in InCriticalSection <=> fileLock = t
    /\ \A t \in Tasks : pc[t] \in HoldingThreadLock => threadLock[ProcessOf[t]] = t

\* What a call has decided still holds when it acts on it.
CallInv ==
    \A t \in Tasks :
        /\ pc[t] = "idle" <=> request[t] = NoRequest
        /\ pc[t] \in {"waitThread", "waitFile", "locked"} => outcome[t] = "none"
        /\ pc[t] \in {"write", "syncTemp", "replace"} =>
              /\ outcome[t] = "none"
              /\ Decision(request[t], file) = "none"
              /\ working[t] = Proposal(request[t], file)
        /\ pc[t] = "syncDir" => outcome[t] = "none" /\ working[t] = file
        /\ pc[t] \in {"unlockFile", "unlockThread"} => outcome[t] # "none"
        /\ pc[t] = "replace" => tempSynced[t]

\* A save works from a copy that was loaded, and names the revision of that
\* copy or, where the task is unguarded, none.
GuardInv ==
    \A t \in Tasks :
        pc[t] # "idle" /\ request[t].kind = "save" =>
            /\ request[t].basis \in Contents
            /\ request[t].expected = IF t \in Unguarded THEN NoRevision ELSE request[t].basis

IInv == TypeOK /\ LockInv /\ CallInv /\ GuardInv /\ fileSynced

LEMMA InitHolds == Init => IInv
  BY StoreAssumption
  DEF Init, IInv, TypeOK, LockInv, CallInv, GuardInv, InCriticalSection,
      HoldingThreadLock, Steps, Outcomes

\* What a mutator proposes is a content or Rejected.
LEMMA ProposalType ==
  ASSUME NEW r \in Request, NEW c \in Contents,
         r.kind = "save" => r.basis \in Contents
  PROVE  Proposal(r, c) \in Contents \cup {Rejected}
  BY StoreAssumption DEF Proposal, Request

LEMMA TypeStep == IInv /\ [Next]_vars => TypeOK'
<1> SUFFICES ASSUME IInv, [Next]_vars PROVE TypeOK'
  OBVIOUS
<1> USE StoreAssumption DEF IInv
<1> USE DEF TypeOK, Steps, HoldingThreadLock, InCriticalSection, Outcomes
<1>1. ASSUME NEW t \in Tasks, Load(t) PROVE TypeOK'
  BY <1>1 DEF Load, disk, locks
<1>2. ASSUME NEW t \in Tasks, NEW m \in Mutators, BeginUpdate(t, m) PROVE TypeOK'
  <2>1. PICK e \in {view[t], NoRevision} \ {NoContent} :
           Begin(t, [kind |-> "update", mutator |-> m, basis |-> NoContent, expected |-> e])
    BY <1>2 DEF BeginUpdate
  <2>2. [kind |-> "update", mutator |-> m, basis |-> NoContent, expected |-> e] \in Request
    BY DEF Request
  <2> QED BY <2>1, <2>2 DEF Begin, disk, locks
<1>3. ASSUME NEW t \in Tasks, NEW m \in Mutators, BeginSave(t, m) PROVE TypeOK'
  <2> DEFINE r == [kind |-> "save", mutator |-> m, basis |-> view[t],
                   expected |-> IF t \in Unguarded THEN NoRevision ELSE view[t]]
  <2>1. Begin(t, r) /\ view[t] \in Contents
    BY <1>3 DEF BeginSave
  <2>2. r \in Request
    BY <2>1 DEF Request
  <2> HIDE DEF r
  <2> QED BY <2>1, <2>2 DEF Begin, disk, locks
<1>4. ASSUME NEW t \in Tasks, Step(t) PROVE TypeOK'
  <2>1. CASE TakeThreadLock(t) BY <2>1 DEF TakeThreadLock, disk, local
  <2>2. CASE ThreadLockTimeout(t) BY <2>2 DEF ThreadLockTimeout, Leave, disk, locks
  <2>3. CASE TakeFileLock(t) BY <2>3 DEF TakeFileLock, disk, local
  <2>4. CASE FileLockTimeout(t) BY <2>4 DEF FileLockTimeout, Leave, disk
  <2>5. CASE Decide(t)
    <3>1. request[t] \in Request
      BY <2>5 DEF Decide, CallInv
    <3>2. Proposal(request[t], file) \in Contents \cup {Rejected}
      BY <2>5, <3>1, ProposalType DEF Decide, GuardInv
    <3>3. Decision(request[t], file) \in Outcomes
      BY DEF Decision
    <3>4. Decision(request[t], file) = "none" => Proposal(request[t], file) \in Contents
      BY <3>2 DEF Decision
    <3> QED BY <2>5, <3>3, <3>4 DEF Decide, disk, locks
  <2>6. CASE WriteTemp(t) BY <2>6 DEF WriteTemp, disk, locks
  <2>7. CASE SyncTemp(t) BY <2>7 DEF SyncTemp, disk, locks
  <2>8. CASE WriteFails(t) BY <2>8 DEF WriteFails, disk, locks, local
  <2>9. CASE Replace(t)
    <3>1. request[t] \in Request /\ working[t] = Proposal(request[t], file)
          /\ Proposal(request[t], file) # Rejected
      BY <2>9 DEF Replace, CallInv, Decision
    <3>2. working[t] \in Contents
      BY <2>9, <3>1, ProposalType DEF Replace, GuardInv
    <3> QED BY <2>9, <3>2 DEF Replace, locks, local
  <2>10. CASE SyncDirectory(t) BY <2>10 DEF SyncDirectory, locks, local
  <2>11. CASE SyncDirectoryFails(t) BY <2>11 DEF SyncDirectoryFails, disk, locks, local
  <2>12. CASE UnlockFile(t) BY <2>12 DEF UnlockFile, disk, local
  <2>13. CASE UnlockThread(t) BY <2>13 DEF UnlockThread, Leave, disk
  <2> QED BY <1>4, <2>1, <2>2, <2>3, <2>4, <2>5, <2>6, <2>7, <2>8, <2>9, <2>10,
             <2>11, <2>12, <2>13 DEF Step
<1>5. ASSUME NEW p \in Processes, ProcessDies(p) PROVE TypeOK'
  BY <1>5 DEF ProcessDies, Die, disk
<1>6. CASE PowerLoss
  BY <1>6 DEF PowerLoss, Die
<1>7. CASE UNCHANGED vars
  BY <1>7 DEF vars, disk, locks, local
<1> QED BY <1>1, <1>2, <1>3, <1>4, <1>5, <1>6, <1>7 DEF Next

\* Timeouts and deaths give back exactly the locks that were held.
LEMMA LockStep == IInv /\ [Next]_vars => LockInv'
<1> SUFFICES ASSUME IInv, [Next]_vars PROVE LockInv'
  OBVIOUS
<1> USE StoreAssumption DEF IInv, TypeOK, LockInv, Steps, HoldingThreadLock, InCriticalSection
<1>1. ASSUME NEW t \in Tasks, Load(t) PROVE LockInv'
  BY <1>1 DEF Load, locks
<1>2. ASSUME NEW t \in Tasks, NEW m \in Mutators, BeginUpdate(t, m) \/ BeginSave(t, m)
      PROVE LockInv'
  <2>1. /\ pc[t] = "idle" /\ pc' = [pc EXCEPT ![t] = "waitThread"]
        /\ UNCHANGED locks
    BY <1>2 DEF BeginUpdate, BeginSave, Begin
  <2> QED BY <2>1 DEF locks
<1>3. ASSUME NEW t \in Tasks, Step(t) PROVE LockInv'
  <2>1. CASE TakeThreadLock(t) BY <2>1 DEF TakeThreadLock
  <2>2. CASE ThreadLockTimeout(t) BY <2>2 DEF ThreadLockTimeout, Leave, locks
  <2>3. CASE TakeFileLock(t) BY <2>3 DEF TakeFileLock
  <2>4. CASE FileLockTimeout(t) BY <2>4 DEF FileLockTimeout, Leave
  <2>5. CASE Decide(t) BY <2>5 DEF Decide, locks
  <2>6. CASE WriteTemp(t) BY <2>6 DEF WriteTemp, locks
  <2>7. CASE SyncTemp(t) BY <2>7 DEF SyncTemp, locks
  <2>8. CASE WriteFails(t) BY <2>8 DEF WriteFails, locks
  <2>9. CASE Replace(t) BY <2>9 DEF Replace, locks
  <2>10. CASE SyncDirectory(t) BY <2>10 DEF SyncDirectory, locks
  <2>11. CASE SyncDirectoryFails(t) BY <2>11 DEF SyncDirectoryFails, locks
  <2>12. CASE UnlockFile(t) BY <2>12 DEF UnlockFile
  <2>13. CASE UnlockThread(t) BY <2>13 DEF UnlockThread, Leave
  <2> QED BY <1>3, <2>1, <2>2, <2>3, <2>4, <2>5, <2>6, <2>7, <2>8, <2>9, <2>10,
             <2>11, <2>12, <2>13 DEF Step
<1>4. ASSUME NEW p \in Processes, ProcessDies(p) PROVE LockInv'
  BY <1>4 DEF ProcessDies, Die
<1>5. CASE PowerLoss
  BY <1>5 DEF PowerLoss, Die
<1>6. CASE UNCHANGED vars
  BY <1>6 DEF vars, locks
<1> QED BY <1>1, <1>2, <1>3, <1>4, <1>5, <1>6 DEF Next

LEMMA CallsAreRequests ==
  ASSUME TypeOK, NEW t \in Tasks, NEW m \in Mutators, BeginUpdate(t, m) \/ BeginSave(t, m)
  PROVE  \E r \in Request : Begin(t, r)
<1>1. CASE BeginUpdate(t, m)
  <2>1. PICK e \in {view[t], NoRevision} \ {NoContent} :
           Begin(t, [kind |-> "update", mutator |-> m, basis |-> NoContent, expected |-> e])
    BY <1>1 DEF BeginUpdate
  <2>2. [kind |-> "update", mutator |-> m, basis |-> NoContent, expected |-> e] \in Request
    BY DEF Request, TypeOK
  <2> QED BY <2>1, <2>2
<1>2. CASE BeginSave(t, m)
  <2> DEFINE r == [kind |-> "save", mutator |-> m, basis |-> view[t],
                   expected |-> IF t \in Unguarded THEN NoRevision ELSE view[t]]
  <2>1. Begin(t, r) /\ view[t] # NoContent
    BY <1>2 DEF BeginSave
  <2>2. r \in Request
    BY <2>1 DEF Request, TypeOK
  <2> HIDE DEF r
  <2> QED BY <2>1, <2>2
<1> QED BY <1>1, <1>2

\* The file lock keeps every other task away from the file: only Replace and a
\* power loss change it, so what the holder decided on stays true.
LEMMA CallStep == IInv /\ [Next]_vars => CallInv'
<1> SUFFICES ASSUME IInv, [Next]_vars PROVE CallInv'
  OBVIOUS
<1> USE StoreAssumption DEF IInv, TypeOK, LockInv, CallInv, Steps, InCriticalSection
<1>r. NoRequest \notin Request
  BY DEF Request
<1>1. ASSUME NEW t \in Tasks, Load(t) PROVE CallInv'
  BY <1>1 DEF Load, disk
<1>2. ASSUME NEW t \in Tasks, NEW r \in Request, Begin(t, r) PROVE CallInv'
  BY <1>2, <1>r DEF Begin, disk
<1>3. ASSUME NEW t \in Tasks, NEW m \in Mutators, BeginUpdate(t, m) \/ BeginSave(t, m)
      PROVE CallInv'
  BY <1>2, <1>3, CallsAreRequests
<1>4. ASSUME NEW t \in Tasks, Step(t) PROVE CallInv'
  <2>1. CASE TakeThreadLock(t) BY <2>1 DEF TakeThreadLock, disk, local
  <2>2. CASE ThreadLockTimeout(t) BY <2>2 DEF ThreadLockTimeout, Leave, disk
  <2>3. CASE TakeFileLock(t) BY <2>3 DEF TakeFileLock, disk, local
  <2>4. CASE FileLockTimeout(t) BY <2>4 DEF FileLockTimeout, Leave, disk
  <2>5. CASE Decide(t) BY <2>5 DEF Decide, disk
  <2>6. CASE WriteTemp(t) BY <2>6 DEF WriteTemp, disk
  <2>7. CASE SyncTemp(t) BY <2>7 DEF SyncTemp, disk
  <2>8. CASE WriteFails(t) BY <2>8 DEF WriteFails, disk, local
  <2>9. CASE Replace(t) BY <2>9 DEF Replace, local
  <2>10. CASE SyncDirectory(t) BY <2>10 DEF SyncDirectory, local
  <2>11. CASE SyncDirectoryFails(t) BY <2>11 DEF SyncDirectoryFails, disk, local
  <2>12. CASE UnlockFile(t) BY <2>12 DEF UnlockFile, disk, local
  <2>13. CASE UnlockThread(t) BY <2>13 DEF UnlockThread, Leave, disk
  <2> QED BY <1>4, <2>1, <2>2, <2>3, <2>4, <2>5, <2>6, <2>7, <2>8, <2>9, <2>10,
             <2>11, <2>12, <2>13 DEF Step
<1>5. ASSUME NEW p \in Processes, ProcessDies(p) PROVE CallInv'
  BY <1>5 DEF ProcessDies, Die, disk
<1>6. CASE PowerLoss
  BY <1>6 DEF PowerLoss, Die
<1>7. CASE UNCHANGED vars
  BY <1>7 DEF vars, disk, local
<1> QED BY <1>1, <1>2, <1>3, <1>4, <1>5, <1>6, <1>7 DEF Next

LEMMA GuardStep == IInv /\ [Next]_vars => GuardInv'
<1> SUFFICES ASSUME IInv, [Next]_vars PROVE GuardInv'
  OBVIOUS
<1> USE StoreAssumption DEF IInv, TypeOK, GuardInv
<1>1. ASSUME NEW t \in Tasks, NEW m \in Mutators, BeginUpdate(t, m) PROVE GuardInv'
  <2>1. PICK e \in {view[t], NoRevision} \ {NoContent} :
           Begin(t, [kind |-> "update", mutator |-> m, basis |-> NoContent, expected |-> e])
    BY <1>1 DEF BeginUpdate
  <2> QED BY <2>1, SMTT(30) DEF Begin
<1>2. ASSUME NEW t \in Tasks, NEW m \in Mutators, BeginSave(t, m) PROVE GuardInv'
  BY <1>2, SMTT(30) DEF BeginSave, Begin
<1>3. ASSUME NEW t \in Tasks, Load(t) \/ Step(t) PROVE GuardInv'
  <2>1. \A u \in Tasks : pc'[u] # "idle" => pc[u] # "idle" /\ request'[u] = request[u]
    BY <1>3, ZenonT(30) DEF Load, Step, TakeThreadLock, ThreadLockTimeout, TakeFileLock, FileLockTimeout,
                Decide, WriteTemp, SyncTemp, WriteFails, Replace, SyncDirectory,
                SyncDirectoryFails, UnlockFile, UnlockThread, Leave, local
  <2> QED BY <2>1
<1>4. ASSUME NEW p \in Processes, ProcessDies(p) PROVE GuardInv'
  BY <1>4 DEF ProcessDies, Die
<1>5. CASE PowerLoss
  BY <1>5 DEF PowerLoss, Die
<1>6. CASE UNCHANGED vars
  BY <1>6 DEF vars, local
<1> QED BY <1>1, <1>2, <1>3, <1>4, <1>5, <1>6 DEF Next

LEMMA SyncedStep == IInv /\ [Next]_vars => fileSynced'
<1> SUFFICES ASSUME IInv, [Next]_vars PROVE fileSynced'
  OBVIOUS
<1>1. CASE \E t \in Tasks : Replace(t)
  BY <1>1 DEF Replace, IInv, CallInv
<1>2. CASE PowerLoss
  BY <1>2 DEF PowerLoss, IInv
<1>3. CASE UNCHANGED fileSynced
  BY <1>3 DEF IInv
<1> QED
  BY <1>1, <1>2, <1>3
  DEF Next, Load, BeginUpdate, BeginSave, Begin, Step, TakeThreadLock, ThreadLockTimeout,
      TakeFileLock, FileLockTimeout, Decide, WriteTemp, SyncTemp, WriteFails, SyncDirectory,
      SyncDirectoryFails, UnlockFile, UnlockThread, ProcessDies, disk, vars

\* The inductive invariant holds in every reachable state.
THEOREM Invariance == Spec => []IInv
<1>1. IInv /\ [Next]_vars => IInv'
  BY TypeStep, LockStep, CallStep, GuardStep, SyncedStep DEF IInv
<1> QED BY InitHolds, <1>1, PTL DEF Spec

\* Every variable keeps its type; in particular no rejected or missing content
\* ever becomes users.json (update() and save() of JsonStateStore).
THEOREM TypeCorrect == Spec => []TypeOK
  BY Invariance, PTL DEF IInv

\* StateFileLock excludes: two tasks are never both inside the lock.
THEOREM StoreMutualExclusion == Spec => []MutualExclusion
<1>1. IInv => MutualExclusion
  BY DEF IInv, LockInv, MutualExclusion
<1> QED BY <1>1, Invariance, PTL

LEMMA ReplaceStep ==
  ASSUME NEW t \in Tasks, IInv, [Next]_vars, Replacing(t)
  PROVE  Replace(t)
<1> USE DEF IInv, TypeOK, Replacing
<1>1. ASSUME NEW u \in Tasks, Step(u), u # t PROVE FALSE
  BY <1>1 DEF Step, TakeThreadLock, ThreadLockTimeout, TakeFileLock, FileLockTimeout, Leave,
     Decide, WriteTemp, SyncTemp, WriteFails, Replace, SyncDirectory, SyncDirectoryFails,
     UnlockFile, UnlockThread
<1>2. Step(t) => Replace(t)
  BY DEF Step, TakeThreadLock, ThreadLockTimeout, TakeFileLock, FileLockTimeout, Leave,
     Decide, WriteTemp, SyncTemp, WriteFails, Replace, SyncDirectory, SyncDirectoryFails,
     UnlockFile, UnlockThread
<1>3. ASSUME NEW u \in Tasks, NEW r, Begin(u, r) PROVE FALSE
  BY <1>3 DEF Begin
<1>4. ASSUME NEW u \in Tasks, NEW m \in Mutators, BeginUpdate(u, m) \/ BeginSave(u, m)
      PROVE FALSE
  BY <1>3, <1>4 DEF BeginUpdate, BeginSave
<1>5. ASSUME NEW u \in Tasks, Load(u) PROVE FALSE
  BY <1>5 DEF Load
<1>6. ASSUME NEW D, Die(D) PROVE FALSE
  BY <1>6 DEF Die
<1>7. ~UNCHANGED vars
  BY DEF vars
<1> QED BY <1>1, <1>2, <1>4, <1>5, <1>6, <1>7 DEF Next, ProcessDies, PowerLoss

\* update() and a save() under a revision never write over a change they did
\* not see, for any number of threads, processes, timeouts and crashes.
THEOREM GuardedReplaceSerial == Spec => GuardedReplaceIsSerial
<1>1. ASSUME IInv, [Next]_vars, NEW t \in Tasks, Replacing(t),
             request[t].kind = "update" \/ request[t].expected # NoRevision
      PROVE  Serial(t)
  <2>1. Replace(t)
    BY <1>1, ReplaceStep
  <2>2. /\ file' = Proposal(request[t], file)
        /\ request[t].expected \in {NoRevision, file}
    BY <1>1, <2>1 DEF IInv, CallInv, Replace, Decision
  <2>3. request[t] \in Request
    BY <1>1, <2>1 DEF IInv, TypeOK, CallInv, Replace
  <2>4. request[t].kind = "save" => request[t].basis = request[t].expected
    BY <1>1, <2>1, <2>3 DEF IInv, GuardInv, Replace
  <2> QED BY <1>1, <2>2, <2>3, <2>4 DEF Serial, Proposal, Request
<1>2. IInv /\ [Next]_vars
      => [\A t \in Tasks :
            Replacing(t) /\ (request[t].kind = "update" \/ request[t].expected # NoRevision)
              => Serial(t)]_vars
  BY <1>1
<1> QED BY <1>2, Invariance, PTL DEF Spec, GuardedReplaceIsSerial

LEMMA SyncStep ==
  ASSUME NEW t \in Tasks, IInv, [Next]_vars,
         outcome[t] # "applied", outcome'[t] = "applied"
  PROVE  SyncDirectory(t)
<1> USE DEF IInv, TypeOK
<1>1. ASSUME NEW u \in Tasks, Step(u), u # t PROVE FALSE
  BY <1>1 DEF Step, TakeThreadLock, ThreadLockTimeout, TakeFileLock, FileLockTimeout, Leave,
     Decide, WriteTemp, SyncTemp, WriteFails, Replace, SyncDirectory, SyncDirectoryFails,
     UnlockFile, UnlockThread
<1>2. Decision(request[t], file) # "applied"
  BY DEF Decision
<1>3. Step(t) => SyncDirectory(t)
  BY <1>2 DEF Step, TakeThreadLock, ThreadLockTimeout, TakeFileLock, FileLockTimeout, Leave,
     Decide, WriteTemp, SyncTemp, WriteFails, Replace, SyncDirectory, SyncDirectoryFails,
     UnlockFile, UnlockThread
<1>4. ASSUME NEW u \in Tasks, NEW r, Begin(u, r) PROVE FALSE
  BY <1>4 DEF Begin
<1>5. ASSUME NEW u \in Tasks, NEW m \in Mutators, BeginUpdate(u, m) \/ BeginSave(u, m)
      PROVE FALSE
  BY <1>4, <1>5 DEF BeginUpdate, BeginSave
<1>6. ASSUME NEW u \in Tasks, Load(u) PROVE FALSE
  BY <1>6 DEF Load
<1>7. ASSUME NEW D, Die(D) PROVE FALSE
  BY <1>7 DEF Die
<1>8. ~UNCHANGED vars
  BY DEF vars
<1> QED BY <1>1, <1>3, <1>5, <1>6, <1>7, <1>8 DEF Next, ProcessDies, PowerLoss

\* An acknowledged change is on the disk, complete (atomic_write_text).
THEOREM AcknowledgedDurable == Spec => AcknowledgedIsDurable
<1>1. ASSUME IInv, [Next]_vars, NEW t \in Tasks,
             outcome[t] # "applied", outcome'[t] = "applied"
      PROVE  durable' = working[t] /\ fileSynced'
  BY <1>1, SyncStep DEF IInv, CallInv, SyncDirectory
<1>2. IInv /\ [Next]_vars
      => [\A t \in Tasks : outcome[t] # "applied" /\ outcome'[t] = "applied"
            => durable' = working[t] /\ fileSynced']_vars
  BY <1>1
<1> QED BY <1>2, Invariance, PTL DEF Spec, AcknowledgedIsDurable

-----------------------------------------------------------------------------
(***************************************************************************)
(* Refinement: StateStore implements SerialStore.  The linearisation point *)
(* of a change is os.replace, the one of a refusal is the comparison under *)
(* the lock.                                                               *)
(***************************************************************************)

LEMMA RegisterInit == Init => Register!Init
  BY DEF Init, Register!Init

LEMMA NobodyElseInstalls ==
  ASSUME IInv, NEW t \in Tasks, pc[t] \in InCriticalSection \ {"syncDir"}
  PROVE  {u \in Tasks : pc[u] = "syncDir"} = {}
  BY DEF IInv, LockInv, InCriticalSection

LEMMA RegisterStep ==
  ASSUME IInv, [Next]_vars
  PROVE  [Register!Next]_(Register!vars)
<1> DEFINE installed == {u \in Tasks : pc[u] = "syncDir"}
<1> USE DEF IInv, TypeOK, Register!vars
<1>r. NoRequest \notin Request
  BY StoreAssumption DEF Request
<1>1. ASSUME NEW t \in Tasks, Load(t) PROVE UNCHANGED Register!vars
  BY <1>1 DEF Load, disk
<1>2. ASSUME NEW t \in Tasks, NEW r \in Request, Begin(t, r) PROVE Register!Open(t)
  BY <1>2 DEF Begin, Register!Open, Register!Request, Request, CallInv, disk
<1>3. ASSUME NEW t \in Tasks, TakeThreadLock(t) \/ TakeFileLock(t) \/ WriteTemp(t)
             \/ SyncTemp(t) \/ UnlockFile(t)
      PROVE UNCHANGED Register!vars
  <2>1. /\ UNCHANGED <<disk, request, outcome>>
        /\ \A u \in Tasks : pc'[u] = "syncDir" <=> pc[u] = "syncDir"
    BY <1>3 DEF TakeThreadLock, TakeFileLock, WriteTemp, SyncTemp, UnlockFile, local
  <2> QED BY <2>1 DEF disk
<1>4. ASSUME NEW t \in Tasks, ThreadLockTimeout(t) \/ FileLockTimeout(t)
      PROVE Register!Close(t)
  BY <1>4, <1>r, ZenonT(30) DEF ThreadLockTimeout, FileLockTimeout, Leave, Register!Close,
     Register!Undecided, CallInv, disk
<1>5. ASSUME NEW t \in Tasks, Decide(t)
      PROVE Register!Refuse(t) \/ UNCHANGED Register!vars
  <2>1. CASE Decision(request[t], file) = "none"
    BY <1>5, <2>1 DEF Decide, CallInv, disk
  <2>2. CASE Decision(request[t], file) # "none"
    <3>1. /\ pc[t] = "locked" /\ pc' = [pc EXCEPT ![t] = "unlockFile"]
          /\ outcome' = [outcome EXCEPT ![t] = Decision(request[t], file)]
          /\ UNCHANGED <<file, durable, request>>
      BY <1>5, <2>2 DEF Decide, disk
    <3>2. Register!Undecided(t)
      BY <3>1 DEF Register!Undecided, CallInv
    <3>3. installed' = installed \ {t}
      BY <3>1
    <3>4. request[t] \in Request
      BY <3>1 DEF CallInv
    <3>7. CASE ~Register!RevisionHolds(t)
      <4>1. Decision(request[t], file) = "conflict"
        BY <3>7 DEF Register!RevisionHolds, Decision
      <4> QED BY <3>1, <3>2, <3>3, <3>7, <4>1 DEF Register!Refuse, Register!End
    <3>8. CASE Register!RevisionHolds(t)
      <4>3. Proposal(request[t], file) = Register!Wanted(t)
        BY DEF Proposal, Register!Wanted
      <4>4. \/ Register!Wanted(t) = Rejected /\ Decision(request[t], file) = "rejected"
            \/ Register!Wanted(t) = file /\ Decision(request[t], file) = "unchanged"
        BY <2>2, <3>8, <4>3 DEF Decision, Register!RevisionHolds
      <4> QED BY <3>1, <3>2, <3>3, <3>8, <4>4 DEF Register!Refuse, Register!End
    <3> QED BY <3>7, <3>8
  <2> QED BY <2>1, <2>2
<1>6. ASSUME NEW t \in Tasks, WriteFails(t) \/ SyncDirectoryFails(t)
      PROVE Register!Fail(t)
  BY <1>6, ZenonT(30) DEF WriteFails, SyncDirectoryFails, Register!Fail, Register!End,
     Register!Undecided, CallInv, disk, local
<1>7. ASSUME NEW t \in Tasks, Replace(t) PROVE Register!Install(t)
  <2>1. /\ request[t] \in Request /\ outcome[t] = "none"
        /\ Decision(request[t], file) = "none"
        /\ file' = Proposal(request[t], file)
    BY <1>7 DEF Replace, CallInv
  <2>2. installed = {} /\ installed' = {t}
    BY <1>7, NobodyElseInstalls DEF Replace, InCriticalSection
  <2>5. Register!RevisionHolds(t) /\ Proposal(request[t], file) = Register!Wanted(t)
    BY <2>1 DEF Register!RevisionHolds, Register!Wanted, Decision, Proposal
  <2>6. Register!Wanted(t) # Rejected
    BY <2>1, <2>5 DEF Decision
  <2>7. Register!Undecided(t)
    BY <1>7, <2>1, <2>2, <1>r DEF Register!Undecided, Replace
  <2> QED BY <1>7, <2>1, <2>2, <2>5, <2>6, <2>7 DEF Register!Install, Replace, local
<1>8. ASSUME NEW t \in Tasks, SyncDirectory(t) PROVE Register!Acknowledge(t)
  BY <1>8 DEF SyncDirectory, Register!Acknowledge, Register!End, local
<1>9. ASSUME NEW t \in Tasks, UnlockThread(t) PROVE Register!Close(t)
  BY <1>9 DEF UnlockThread, Leave, Register!Close, CallInv, disk
<1>10. ASSUME NEW p \in Processes, ProcessDies(p) PROVE \E D \in SUBSET Tasks : Register!Crash(D)
  <2> DEFINE D == {t \in Tasks : ProcessOf[t] = p}
  <2>1. Die(D) /\ UNCHANGED disk
    BY <1>10 DEF ProcessDies
  <2>2. Register!Crash(D)
    BY <2>1 DEF Die, Register!Crash, Register!Abandon, CallInv, disk
  <2> QED BY <2>2
<1>11. ASSUME PowerLoss PROVE Register!PowerLoss
  BY <1>11 DEF PowerLoss, Die, Register!PowerLoss, Register!Abandon, CallInv
<1>12. ASSUME NEW t \in Tasks, NEW m \in Mutators, BeginUpdate(t, m) \/ BeginSave(t, m)
       PROVE Register!Open(t)
  BY <1>2, <1>12, CallsAreRequests
<1>13. UNCHANGED vars => UNCHANGED Register!vars
  BY DEF vars, disk, local
<1> QED
  BY <1>1, <1>3, <1>4, <1>5, <1>6, <1>7, <1>8, <1>9, <1>10, <1>11, <1>12, <1>13
  DEF Next, Step, Register!Next

\* The store is a register with atomic transactions, for every mutator, and for
\* savers that name a revision and those that do not.
THEOREM Implementation == Spec => ImplementsSerialStore
<1>1. IInv /\ [Next]_vars => [Register!Next]_(Register!vars)
  BY RegisterStep
<1> QED BY <1>1, RegisterInit, Invariance, PTL DEF Spec, ImplementsSerialStore, Register!Spec

(***************************************************************************)
(* The content: what a state is, and that every operation leaves one whose *)
(* tunnel addresses are apart.                                             *)
(***************************************************************************)

NatLess == {ss \in Nat \X Nat : ss[1] < ss[2]}
\* A set of natural numbers that is not empty has a least element.
LEMMA LeastExists ==
    ASSUME NEW S \in SUBSET Nat, S # {}
    PROVE  \E a \in S : \A b \in S : a <= b
  <1>1. IsWellFoundedOn(NatLess, Nat)
    BY NatLessThanWellFounded DEF OpToRel, NatLess
  <1>2. PICK x \in S : \A y \in S : ~ (<<y, x>> \in NatLess)
    BY <1>1, WFMin
  <1>3. ASSUME NEW y \in Nat, NEW z \in Nat, y < z PROVE <<y, z>> \in NatLess
    BY <1>3 DEF NatLess
  <1>4. ASSUME NEW b \in S PROVE x <= b
    <2>1. x \in Nat /\ b \in Nat
      OBVIOUS
    <2>2. ~ (b < x)
      BY <1>2, <1>3, <2>1
    <2> QED BY <2>1, <2>2
  <1> QED BY <1>4

Shape(f, fields) == f = [x \in fields |-> f[x]]
UserFields == {"enabled", "systems", "overrides", "device", "key", "token", "address"}
RouteFields == {"set", "default", "reality_mode", "aliases"}
StateFields == {"users", "routes", "custom", "reality_xhttp_server_names", "site", "local_site", "ocserv_sni",
                "xhttp_mode", "protocol_version"}

IsUser(u) ==
    /\ Shape(u, UserFields)
    /\ \A s \in DOMAIN u.overrides : u.overrides[s] # ""
    /\ u.address \in [TUNNELS -> Hosts \cup {0}]

IsRoute(r) ==
    /\ Shape(r, RouteFields)
    /\ r.set \in BOOLEAN /\ r.default # "" /\ "" \notin r.aliases

UsersOk(users) == Shape(users, Names) /\ \A n \in Names : IsUser(users[n])
RoutesOk(routes) == Shape(routes, SNI_ROUTE_SYSTEMS) /\ \A s \in SNI_ROUTE_SYSTEMS : IsRoute(routes[s])
IsState(st) ==
    /\ Shape(st, StateFields)
    /\ UsersOk(st.users)
    /\ RoutesOk(st.routes)
    /\ \A c \in st.custom : c.sni # "" /\ c.dest # ""
    /\ "" \notin st.site

Unique(st) ==
    \A t \in TUNNELS : \A n, m \in Present(st) :
        n # m /\ st.users[n].address[t] # 0 => st.users[n].address[t] # st.users[m].address[t]

\* A user who is not there is a user.
LEMMA NoUserIsUser == IsUser(NoUser)
  <1>1. Shape(NoUser, UserFields)
    BY DEF NoUser, Shape, UserFields
  <1>2. DOMAIN NoUser.overrides = {}
    BY DEF NoUser
  <1>3. NoUser.address \in [TUNNELS -> Hosts \cup {0}]
    BY DEF NoUser
  <1> QED BY <1>1, <1>2, <1>3 DEF IsUser

\* The fields of a state in which one user is replaced.
LEMMA WithUserFields ==
    ASSUME NEW st, Shape(st, StateFields), NEW n \in Names, NEW u
    PROVE  LET new == WithUser(st, n, u)
           IN  /\ Shape(new, StateFields) /\ new.users = [st.users EXCEPT ![n] = u] /\ new.routes = st.routes
               /\ new.custom = st.custom /\ new.site = st.site
  BY DEF Shape, StateFields, WithUser

\* A user may be replaced by one who has no address, or the addresses he had.
LEMMA WithUserGood ==
    ASSUME NEW st, IsState(st), Unique(st), NEW n \in Names, NEW u, IsUser(u),
           \A t \in TUNNELS : u.address[t] # 0 => n \in Present(st) /\ u.address[t] = st.users[n].address[t]
    PROVE  IsState(WithUser(st, n, u)) /\ Unique(WithUser(st, n, u))
  <1> DEFINE new == WithUser(st, n, u)
  <1>1. Shape(st, StateFields) /\ Shape(st.users, Names) /\ \A m \in Names : IsUser(st.users[m])
    BY DEF IsState, UsersOk
  <1>2. /\ Shape(new, StateFields) /\ new.users = [st.users EXCEPT ![n] = u] /\ new.routes = st.routes
        /\ new.custom = st.custom /\ new.site = st.site
    BY <1>1, WithUserFields
  <1>3. /\ Shape(new.users, Names) /\ new.users[n] = u
        /\ \A m \in Names : m # n => new.users[m] = st.users[m]
    BY <1>1, <1>2 DEF Shape
  <1>4. IsState(new)
    BY <1>1, <1>2, <1>3 DEF IsState, UsersOk
  <1>5. Unique(new)
    BY <1>3 DEF Unique, Present, user_systems
  <1> QED BY <1>4, <1>5


WithRoute(st, s, r) == [st EXCEPT !.routes[s] = r]

\* A step that leaves the users as they are.
KeepsUsers(st, new) == IsState(new) /\ new.users = st.users

\* A route may be replaced by any other that names something.
LEMMA WithRouteGood ==
    ASSUME NEW st, IsState(st), NEW s \in SNI_ROUTE_SYSTEMS, NEW r, IsRoute(r)
    PROVE  KeepsUsers(st, WithRoute(st, s, r))
  <1> DEFINE new == WithRoute(st, s, r)
  <1>1. Shape(st, StateFields) /\ Shape(st.routes, SNI_ROUTE_SYSTEMS)
    BY DEF IsState, RoutesOk
  <1>2. /\ Shape(new, StateFields) /\ new.users = st.users
        /\ new.routes = [st.routes EXCEPT ![s] = r]
        /\ new.custom = st.custom /\ new.site = st.site
    BY <1>1 DEF Shape, StateFields, WithRoute
  <1>3. /\ Shape(new.routes, SNI_ROUTE_SYSTEMS) /\ new.routes[s] = r
        /\ \A x \in SNI_ROUTE_SYSTEMS : x # s => new.routes[x] = st.routes[x]
    BY <1>1, <1>2 DEF Shape
  <1>4. RoutesOk(new.routes)
    BY <1>3 DEF RoutesOk, IsState
  <1> QED BY <1>2, <1>4 DEF IsState, KeepsUsers

\* Aliases that are given to a route.
LEMMA AliasesGood ==
    ASSUME NEW r, IsRoute(r), NEW A, "" \notin A
    PROVE  /\ IsRoute([r EXCEPT !.set = TRUE, !.aliases = @ \cup A])
           /\ IsRoute([r EXCEPT !.aliases = @ \cup A])
           /\ IsRoute([r EXCEPT !.aliases = A])
  BY DEF IsRoute, Shape, RouteFields

\* Aliases that are taken from a route.
LEMMA RemovedGood ==
    ASSUME NEW r, IsRoute(r), NEW A
    PROVE  IsRoute([r EXCEPT !.aliases = @ \ A])
  BY DEF IsRoute, Shape, RouteFields

\* A route with another default.
LEMMA DefaultGood ==
    ASSUME NEW r, IsRoute(r), NEW d, d # ""
    PROVE  IsRoute([r EXCEPT !.default = d, !.aliases = @ \cup {d}])
  BY DEF IsRoute, Shape, RouteFields

\* A route that is named by an operation (ensure_sni_route).
LEMMA ensure_sni_routeGood ==
    ASSUME NEW st, IsState(st), NEW s \in SNI_ROUTE_SYSTEMS
    PROVE  KeepsUsers(st, ensure_sni_route(st, s))
  <1> DEFINE A == {system_sni(st, s)}
             r == [st.routes[s] EXCEPT !.set = TRUE, !.aliases = @ \cup A]
  <1>1. Shape(st, StateFields) /\ Shape(st.routes, SNI_ROUTE_SYSTEMS) /\ IsRoute(st.routes[s])
    BY DEF IsState, RoutesOk
  <1>2. "" \notin A
    BY <1>1 DEF IsRoute, system_sni
  <1>3. IsRoute(r)
    BY <1>1, <1>2, AliasesGood
  <1>4. ensure_sni_route(st, s) = WithRoute(st, s, r)
    BY <1>1 DEF ensure_sni_route, WithRoute, IsRoute, Shape, StateFields, RouteFields
  <1> HIDE DEF r
  <1> QED BY <1>3, <1>4, WithRouteGood

\* The operations on the default and the aliases of a route keep the users.
LEMMA RouteOperations ==
    ASSUME NEW st, IsState(st), NEW s \in SNI_ROUTE_SYSTEMS, NEW new,
           new \in set_default(st, s) \cup add_alias(st, s) \cup remove_alias(st, s) \cup set_aliases(st, s)
    PROVE  KeepsUsers(st, new)
  <1>1. IsRoute(st.routes[s]) /\ system_sni(st, s) # ""
    BY DEF IsState, RoutesOk, IsRoute, system_sni
  <1>a. Shape(st, StateFields) /\ Shape(st.routes, SNI_ROUTE_SYSTEMS) /\ Shape(st.routes[s], RouteFields)
    BY DEF IsState, RoutesOk, IsRoute
  <1>2. CASE new \in set_default(st, s)
    <2>1. PICK d \in Domains : new = [st EXCEPT !.routes[s].default = d, !.routes[s].aliases = @ \cup {d}]
      BY <1>2 DEF set_default
    <2>2. d # ""
      BY DesiredAssumption
    <2>3. IsRoute([st.routes[s] EXCEPT !.default = d, !.aliases = @ \cup {d}])
      BY <1>1, <2>2, DefaultGood
    <2>4. new = WithRoute(st, s, [st.routes[s] EXCEPT !.default = d, !.aliases = @ \cup {d}])
      BY <2>1, <1>a DEF WithRoute, Shape, StateFields, RouteFields
    <2> QED BY <2>3, <2>4, WithRouteGood
  <1>3. CASE new \in add_alias(st, s)
    <2>1. PICK d \in Domains : new = [st EXCEPT !.routes[s].aliases = @ \cup {d}]
      BY <1>3 DEF add_alias
    <2>2. d # "" /\ "" \notin {d}
      BY DesiredAssumption
    <2>3. IsRoute([st.routes[s] EXCEPT !.aliases = @ \cup {d}])
      BY <1>1, <2>2, AliasesGood
    <2>4. new = WithRoute(st, s, [st.routes[s] EXCEPT !.aliases = @ \cup {d}])
      BY <2>1, <1>a DEF WithRoute, Shape, StateFields, RouteFields
    <2> QED BY <2>3, <2>4, WithRouteGood
  <1>4. CASE new \in remove_alias(st, s)
    <2>1. PICK d \in st.routes[s].aliases : new = [st EXCEPT !.routes[s].aliases = @ \ {d}]
      BY <1>4 DEF remove_alias
    <2>3. IsRoute([st.routes[s] EXCEPT !.aliases = @ \ {d}])
      BY <1>1, RemovedGood
    <2>4. new = WithRoute(st, s, [st.routes[s] EXCEPT !.aliases = @ \ {d}])
      BY <2>1, <1>a DEF WithRoute, Shape, StateFields, RouteFields
    <2> QED BY <2>3, <2>4, WithRouteGood
  <1>5. CASE new \in set_aliases(st, s)
    <2> DEFINE A == {system_sni(st, s)}
    <2>1. new = [st EXCEPT !.routes[s].aliases = A] /\ "" \notin A
      BY <1>1, <1>5 DEF set_aliases
    <2> HIDE DEF A
    <2>2. IsRoute([st.routes[s] EXCEPT !.aliases = A])
      BY <1>1, <2>1, AliasesGood
    <2>3. new = WithRoute(st, s, [st.routes[s] EXCEPT !.aliases = A])
      BY <2>1, <1>a DEF WithRoute, Shape, StateFields, RouteFields
    <2> QED BY <2>2, <2>3, WithRouteGood
  <1> QED BY <1>2, <1>3, <1>4, <1>5

\* So does the mode of Reality (reality_route_for_mode).
LEMMA set_reality_modeGood ==
    ASSUME NEW st, IsState(st), NEW s \in SNI_ROUTE_SYSTEMS, NEW new \in set_reality_mode(st, s)
    PROVE  KeepsUsers(st, new)
  <1>1. IsRoute(st.routes[s])
    BY DEF IsState, RoutesOk
  <1>2. PICK m \in {"external", "self-steal"}, d \in Domains :
            new = [st EXCEPT !.routes[s] = [set |-> TRUE, default |-> d, reality_mode |-> m,
                      aliases |-> {d} \cup (@.aliases \ IF m = "external" THEN site_domains(st) ELSE {})]]
    BY DEF set_reality_mode
  <1> DEFINE A == {d} \cup (st.routes[s].aliases \ IF m = "external" THEN site_domains(st) ELSE {})
  <1>3. new = WithRoute(st, s, [set |-> TRUE, default |-> d, reality_mode |-> m, aliases |-> A])
    BY <1>2 DEF WithRoute
  <1>4. d # "" /\ "" \notin A
    BY <1>1, DesiredAssumption DEF IsRoute
  <1>5. IsRoute([set |-> TRUE, default |-> d, reality_mode |-> m, aliases |-> A])
    <2> HIDE DEF A
    <2> QED BY <1>4 DEF IsRoute, Shape, RouteFields
  <1> HIDE DEF A
  <1> QED BY <1>3, <1>5, WithRouteGood

\* A step that keeps the users keeps their addresses apart.
LEMMA UniqueKept ==
    ASSUME NEW st, Unique(st), NEW new, KeepsUsers(st, new)
    PROVE  Unique(new)
  BY DEF Unique, Present, user_systems, KeepsUsers

\* A user whose tunnel addresses are those of another.
SameAddress(u, v) == IsUser(v) /\ v.address = u.address
NamesGiven(overrides) == \A s \in DOMAIN overrides : overrides[s] # ""

\* Fields of a user that say nothing of his addresses.
LEMMA UserFieldsGood ==
    ASSUME NEW u, IsUser(u), NEW x, NEW y, NEW overrides, NamesGiven(overrides)
    PROVE  /\ SameAddress(u, [u EXCEPT !.key = x])
           /\ SameAddress(u, [u EXCEPT !.token = x])
           /\ SameAddress(u, [u EXCEPT !.key = x, !.token = y])
           /\ SameAddress(u, [u EXCEPT !.enabled = x])
           /\ SameAddress(u, [u EXCEPT !.device = x])
           /\ SameAddress(u, [u EXCEPT !.overrides = overrides])
           /\ SameAddress(u, [u EXCEPT !.systems = x, !.overrides = overrides])
           /\ SameAddress(u, [u EXCEPT !.device = x, !.overrides = overrides])
  BY DEF SameAddress, IsUser, NamesGiven, Shape, UserFields

\* A device profile names an SNI for each system it is about.
LEMMA DeviceProfileNames ==
    ASSUME NEW device \in Devices, NEW s \in {"tls", "hysteria"}
    PROVE  DEVICE_PROFILES[device][s] # ""
  <1>1. device \in {"ios", "android", "windows"}
    BY DesiredAssumption
  <1>2. DEVICE_PROFILES[device][s] =
            CASE device = "ios" -> IF s = "tls" THEN "www.apple.com" ELSE "gateway.icloud.com"
              [] device = "android" -> IF s = "tls" THEN "www.android.com" ELSE "www.gstatic.com"
              [] device = "windows" -> IF s = "tls" THEN "www.microsoft.com" ELSE "www.apple.com"
    BY DEF DEVICE_PROFILES
  <1> QED BY <1>1, <1>2

\* A device profile keeps the addresses of the user.
LEMMA apply_device_profileGood ==
    ASSUME NEW u, IsUser(u), NEW device, NEW overwrite \in BOOLEAN
    PROVE  /\ SameAddress(u, apply_device_profile(u, device, overwrite))
           /\ apply_device_profile(u, device, overwrite).systems = u.systems
  <1> DEFINE overrides == IF device \notin Devices THEN u.overrides
                          ELSE [s \in DOMAIN u.overrides \cup {"tls", "hysteria"} |->
                                   IF s \in {"tls", "hysteria"} /\ (overwrite \/ s \notin DOMAIN u.overrides)
                                   THEN DEVICE_PROFILES[device][s] ELSE u.overrides[s]]
             new == [u EXCEPT !.device = IF device \in Devices THEN device ELSE "", !.overrides = overrides]
  <1>1. NamesGiven(overrides)
    BY DeviceProfileNames DEF IsUser, NamesGiven
  <1>2. apply_device_profile(u, device, overwrite) = new
    BY DEF apply_device_profile, IsUser, Shape, UserFields
  <1> HIDE DEF overrides
  <1>3. SameAddress(u, new) /\ new.systems = u.systems
    BY <1>1 DEF SameAddress, IsUser, NamesGiven, Shape, UserFields
  <1> QED BY <1>2, <1>3

\* A new user has no address.
LEMMA NewUserGood ==
    ASSUME NEW systems, NEW device
    PROVE  /\ SameAddress(NoUser, NewUser(systems))
           /\ SameAddress(NoUser, [NewUser(systems) EXCEPT !.device = device])
  <1> DEFINE key == NewKey
             token == NewToken
  <1>1. NewUser(systems) = [NoUser EXCEPT !.enabled = TRUE, !.systems = systems, !.key = key, !.token = token]
    BY DEF NewUser
  <1> HIDE DEF key, token
  <1>2. SameAddress(NoUser, NewUser(systems))
    BY <1>1, NoUserIsUser DEF SameAddress, IsUser, Shape, UserFields
  <1>3. SameAddress(NewUser(systems), [NewUser(systems) EXCEPT !.device = device])
    <2>1. IsUser(NewUser(systems))
      BY <1>2 DEF SameAddress
    <2>2. NamesGiven(NewUser(systems).overrides)
      BY <2>1 DEF IsUser, NamesGiven
    <2> QED BY <2>1, <2>2, UserFieldsGood
  <1> QED BY <1>2, <1>3 DEF SameAddress

\* No override is one without a name.
LEMMA NoOverrides == NamesGiven(<<>>)
  <1>1. DOMAIN <<>> = {}
    OBVIOUS
  <1> QED BY <1>1 DEF NamesGiven

\* Overrides that are assigned or taken away.
LEMMA OverridesGood ==
    ASSUME NEW u, IsUser(u), NEW s, NEW d, d # "", NEW systems
    PROVE  /\ NamesGiven(Assigned(u.overrides, s, d)) /\ NamesGiven(Without(u.overrides, systems))
  <1>1. NamesGiven(Assigned(u.overrides, s, d))
    BY DEF IsUser, NamesGiven, Assigned
  <1>2. NamesGiven(Without(u.overrides, systems))
    BY DEF IsUser, NamesGiven, Without
  <1> QED BY <1>1, <1>2

Good(st) == IsState(st) /\ Unique(st)

\* A user may be replaced by one with the same addresses.
LEMMA SameAddressGood ==
    ASSUME NEW st, Good(st), NEW n \in Present(st), NEW u, SameAddress(st.users[n], u)
    PROVE  Good(WithUser(st, n, u))
  <1>1. n \in Names /\ IsUser(u) /\ \A t \in TUNNELS : u.address[t] = st.users[n].address[t]
    BY DEF Present, SameAddress
  <1> QED BY <1>1, WithUserGood DEF Good

\* A user may be replaced by one who has none.
LEMMA NoAddressGood ==
    ASSUME NEW st, Good(st), NEW n \in Names, NEW u, SameAddress(NoUser, u)
    PROVE  Good(WithUser(st, n, u))
  <1>1. IsUser(u) /\ \A t \in TUNNELS : u.address[t] = 0
    BY DEF NoUser, SameAddress
  <1> QED BY <1>1, WithUserGood DEF Good

\* The users of a state are users.
LEMMA UserOfState ==
    ASSUME NEW st, Good(st), NEW n \in Names
    PROVE  IsUser(st.users[n]) /\ NamesGiven(st.users[n].overrides)
  BY DEF Good, IsState, UsersOk, IsUser, NamesGiven

\* kvn add-user keeps the addresses apart.
LEMMA cmd_add_userGood ==
    ASSUME NEW st, Good(st), NEW new \in cmd_add_user(st)
    PROVE  Good(new)
  <1>a. PICK device \in Devices \cup {""} :
            new \in UNION {{WithUser(st, n, apply_device_profile(NewUser(systems), device, TRUE)) :
                              n \in Names \ Present(st)} : systems \in SystemChoices}
    BY Zenon DEF cmd_add_user
  <1>b. PICK systems \in SystemChoices :
            new \in {WithUser(st, n, apply_device_profile(NewUser(systems), device, TRUE)) : n \in Names \ Present(st)}
    BY <1>a, Zenon
  <1>1. PICK n \in Names \ Present(st) : new = WithUser(st, n, apply_device_profile(NewUser(systems), device, TRUE))
    BY <1>b, Zenon
  <1>2. SameAddress(NoUser, NewUser(systems))
    BY NewUserGood
  <1>3. SameAddress(NewUser(systems), apply_device_profile(NewUser(systems), device, TRUE))
    BY <1>2, apply_device_profileGood DEF SameAddress
  <1>4. SameAddress(NoUser, apply_device_profile(NewUser(systems), device, TRUE))
    BY <1>2, <1>3 DEF SameAddress
  <1> QED BY <1>1, <1>4, NoAddressGood

\* So does every edit: of the systems, whose addresses stay reserved,
LEMMA edit_systemsGood ==
    ASSUME NEW st, Good(st), NEW n \in Present(st), NEW new \in edit_systems(st, n)
    PROVE  Good(new)
  <1>1. n \in Names /\ IsUser(st.users[n])
    BY UserOfState DEF Present
  <1>2. PICK systems \in SystemChoices :
            new = WithUser(st, n, [st.users[n] EXCEPT !.systems = systems,
                                       !.overrides = Without(@, SNI_ROUTE_SYSTEMS \ systems)])
    BY DEF edit_systems
  <1> DEFINE u == st.users[n]
             left == Without(u.overrides, SNI_ROUTE_SYSTEMS \ systems)
  <1>3. NamesGiven(left)
    BY <1>1, OverridesGood DEF Without, NamesGiven, IsUser
  <1>4. new = WithUser(st, n, [u EXCEPT !.systems = systems, !.overrides = left])
    BY <1>1, <1>2 DEF IsUser, Shape, UserFields
  <1> HIDE DEF left
  <1>5. SameAddress(u, [u EXCEPT !.systems = systems, !.overrides = left])
    BY <1>1, <1>3, UserFieldsGood
  <1> QED BY <1>4, <1>5, SameAddressGood

\* of the device,
LEMMA edit_deviceGood ==
    ASSUME NEW st, Good(st), NEW n \in Present(st), NEW new \in edit_device(st, n)
    PROVE  Good(new)
  <1>1. n \in Names /\ IsUser(st.users[n])
    BY UserOfState DEF Present
  <1>2. PICK d \in Devices : new = WithUser(st, n, apply_device_profile(st.users[n], d, TRUE))
    BY DEF edit_device
  <1> QED BY <1>1, <1>2, apply_device_profileGood, SameAddressGood

\* of an SNI,
LEMMA edit_sniGood ==
    ASSUME NEW st, Good(st), NEW n \in Present(st), NEW new \in edit_sni(st, n)
    PROVE  Good(new)
  <1>1. n \in Names /\ IsUser(st.users[n])
    BY UserOfState DEF Present
  <1>2. PICK overrides :
            NamesGiven(overrides) /\ new = WithUser(st, n, [st.users[n] EXCEPT !.overrides = overrides])
    <2>1. CASE \E s \in USER_SNI_OVERRIDE_SYSTEMS \cap RouteChoices, d \in Domains :
                   new = WithUser(st, n, [st.users[n] EXCEPT !.overrides = Assigned(@, s, d)])
      <3>1. PICK s \in USER_SNI_OVERRIDE_SYSTEMS \cap RouteChoices, d \in Domains :
                new = WithUser(st, n, [st.users[n] EXCEPT !.overrides = Assigned(@, s, d)])
        BY <2>1
      <3>2. d # ""
        BY DesiredAssumption
      <3>3. NamesGiven(Assigned(st.users[n].overrides, s, d))
        BY <1>1, <3>2 DEF IsUser, NamesGiven, Assigned
      <3>4. PICK o : o = Assigned(st.users[n].overrides, s, d)
        OBVIOUS
      <3>5. NamesGiven(o) /\ new = WithUser(st, n, [st.users[n] EXCEPT !.overrides = o])
        BY <3>1, <3>3, <3>4
      <3> QED BY <3>5
    <2>2. CASE \E s \in USER_SNI_OVERRIDE_SYSTEMS \cap RouteChoices :
                   new = WithUser(st, n, [st.users[n] EXCEPT !.overrides = Without(@, {s})])
      <3>1. PICK s : new = WithUser(st, n, [st.users[n] EXCEPT !.overrides = Without(@, {s})])
        BY <2>2
      <3>2. NamesGiven(Without(st.users[n].overrides, {s}))
        BY <1>1 DEF IsUser, NamesGiven, Without
      <3>3. PICK o : o = Without(st.users[n].overrides, {s})
        OBVIOUS
      <3>4. NamesGiven(o) /\ new = WithUser(st, n, [st.users[n] EXCEPT !.overrides = o])
        BY <3>1, <3>2, <3>3
      <3> QED BY <3>4
    <2>3. \/ new \in UNION {{WithUser(st, n, [st.users[n] EXCEPT !.overrides = Assigned(@, s, d)]) : d \in Domains} :
                                s \in USER_SNI_OVERRIDE_SYSTEMS \cap RouteChoices}
          \/ new \in {WithUser(st, n, [st.users[n] EXCEPT !.overrides = Without(@, {s})]) :
                          s \in USER_SNI_OVERRIDE_SYSTEMS \cap RouteChoices}
      BY DEF edit_sni
    <2>4. ASSUME new \in UNION {{WithUser(st, n, [st.users[n] EXCEPT !.overrides = Assigned(@, s, d)]) : d \in Domains} :
                                   s \in USER_SNI_OVERRIDE_SYSTEMS \cap RouteChoices}
          PROVE  \E s \in USER_SNI_OVERRIDE_SYSTEMS \cap RouteChoices, d \in Domains :
                     new = WithUser(st, n, [st.users[n] EXCEPT !.overrides = Assigned(@, s, d)])
      <3>1. PICK s \in USER_SNI_OVERRIDE_SYSTEMS \cap RouteChoices :
                new \in {WithUser(st, n, [st.users[n] EXCEPT !.overrides = Assigned(@, s, d)]) : d \in Domains}
        BY <2>4
      <3>2. PICK d \in Domains : new = WithUser(st, n, [st.users[n] EXCEPT !.overrides = Assigned(@, s, d)])
        BY <3>1
      <3> QED BY <3>2
    <2>5. ASSUME new \in {WithUser(st, n, [st.users[n] EXCEPT !.overrides = Without(@, {s})]) :
                             s \in USER_SNI_OVERRIDE_SYSTEMS \cap RouteChoices}
          PROVE  \E s \in USER_SNI_OVERRIDE_SYSTEMS \cap RouteChoices :
                     new = WithUser(st, n, [st.users[n] EXCEPT !.overrides = Without(@, {s})])
      BY <2>5
    <2> QED BY <2>1, <2>2, <2>3, <2>4, <2>5
  <1>3. SameAddress(st.users[n], [st.users[n] EXCEPT !.overrides = overrides])
    BY <1>1, <1>2, UserFieldsGood
  <1> QED BY <1>2, <1>3, SameAddressGood

\* of the keys, of the token and of whether the user is enabled.
LEMMA EditFieldsGood ==
    ASSUME NEW st, Good(st), NEW n \in Present(st), NEW new,
           new \in regenerate_keys(st, n) \cup edit_enabled(st, n) \cup _rotate_user(st, n) \cup rotate_subscription(st, n)
    PROVE  Good(new)
  <1>1. n \in Names /\ IsUser(st.users[n]) /\ NamesGiven(st.users[n].overrides)
    BY UserOfState DEF Present
  <1>2. CASE new \in regenerate_keys(st, n)
    <2>1. PICK k : new = WithUser(st, n, [st.users[n] EXCEPT !.key = k])
      BY <1>2 DEF regenerate_keys
    <2> QED BY <1>1, <2>1, UserFieldsGood, SameAddressGood
  <1>3. CASE new \in edit_enabled(st, n)
    <2>1. PICK e : new = WithUser(st, n, [st.users[n] EXCEPT !.enabled = e])
      BY <1>3 DEF edit_enabled
    <2> QED BY <1>1, <2>1, UserFieldsGood, SameAddressGood
  <1>4. CASE new \in _rotate_user(st, n)
    <2>1. PICK k, w : new = WithUser(st, n, [st.users[n] EXCEPT !.key = k, !.token = w])
      BY <1>4 DEF _rotate_user
    <2> QED BY <1>1, <2>1, UserFieldsGood, SameAddressGood
  <1>5. CASE new \in rotate_subscription(st, n)
    <2>1. PICK w : new = WithUser(st, n, [st.users[n] EXCEPT !.token = w])
      BY <1>5 DEF rotate_subscription
    <2> QED BY <1>1, <2>1, UserFieldsGood, SameAddressGood
  <1> QED BY <1>2, <1>3, <1>4, <1>5

\* A user who is removed gives his addresses back.
LEMMA remove_userGood ==
    ASSUME NEW st, Good(st), NEW n \in Names
    PROVE  Good(remove_user(st, n))
  <1>1. SameAddress(NoUser, NoUser)
    BY NoUserIsUser DEF SameAddress
  <1> QED BY <1>1, NoAddressGood DEF remove_user

\* A user who is renamed takes his addresses along.
LEMMA edit_nameGood ==
    ASSUME NEW st, Good(st), NEW n \in Present(st), NEW new \in edit_name(st, n)
    PROVE  Good(new)
  <1>1. PICK m \in Names \ Present(st) : new = [st EXCEPT !.users[m] = st.users[n], !.users[n] = NoUser]
    BY DEF edit_name
  <1>2. n \in Names /\ m \in Names /\ n # m
    BY DEF Present
  <1>3. /\ Shape(st, StateFields) /\ Shape(st.users, Names) /\ \A x \in Names : IsUser(st.users[x])
    BY DEF Good, IsState, UsersOk
  <1>4. /\ Shape(new, StateFields) /\ new.users = [[st.users EXCEPT ![m] = st.users[n]] EXCEPT ![n] = NoUser]
        /\ new.routes = st.routes /\ new.custom = st.custom /\ new.site = st.site
    BY <1>1, <1>3 DEF Shape, StateFields
  <1>5. /\ Shape(new.users, Names) /\ new.users[m] = st.users[n] /\ new.users[n] = NoUser
        /\ \A x \in Names \ {n, m} : new.users[x] = st.users[x]
    BY <1>2, <1>3, <1>4 DEF Shape
  <1>6. IsState(new)
    BY <1>2, <1>3, <1>4, <1>5, NoUserIsUser DEF Good, IsState, UsersOk
  <1>7. Unique(new)
    <2>1. NoUser.systems = {}
      BY DEF NoUser
    <2>2. \A x \in Present(new) : x \in Names /\ x # n /\ (x # m => x \in Present(st))
      BY <1>5, <2>1 DEF Present, user_systems
    <2> QED BY <1>2, <1>5, <2>2 DEF Good, Unique
  <1> QED BY <1>6, <1>7 DEF Good

\* _create_user of the portal.
LEMMA _create_userGood ==
    ASSUME NEW st, Good(st), NEW new \in _create_user(st)
    PROVE  Good(new)
  <1>a. PICK device \in Devices \cup {""} :
            new \in UNION {{WithUser(st, n, [NewUser(systems) EXCEPT !.device = device]) :
                              n \in Names \ Present(st)} : systems \in SystemChoices}
    BY Zenon DEF _create_user
  <1>b. PICK systems \in SystemChoices :
            new \in {WithUser(st, n, [NewUser(systems) EXCEPT !.device = device]) : n \in Names \ Present(st)}
    BY <1>a, Zenon
  <1>1. PICK n \in Names \ Present(st) : new = WithUser(st, n, [NewUser(systems) EXCEPT !.device = device])
    BY <1>b, Zenon
  <1> QED BY <1>1, NewUserGood, NoAddressGood

\* _update_user of the portal.
LEMMA _update_userGood ==
    ASSUME NEW st, Good(st), NEW n \in Present(st), NEW new \in _update_user(st, n)
    PROVE  Good(new)
  <1>1. CASE new \in edit_name(st, n)
    BY <1>1, edit_nameGood
  <1>2. CASE new \in edit_systems(st, n)
    BY <1>2, edit_systemsGood
  <1>3. CASE \E device \in Devices \cup {""} :
                 new = WithUser(st, n, [st.users[n] EXCEPT !.device = device, !.overrides = <<>>])
    <2>1. PICK device \in Devices \cup {""} :
              new = WithUser(st, n, [st.users[n] EXCEPT !.device = device, !.overrides = <<>>])
      BY <1>3
    <2>2. IsUser(st.users[n]) /\ NamesGiven(<<>>)
      BY UserOfState, NoOverrides DEF Present
    <2>3. SameAddress(st.users[n], [st.users[n] EXCEPT !.device = device, !.overrides = <<>>])
      BY <2>2, UserFieldsGood
    <2> QED BY <2>1, <2>3, SameAddressGood
  <1> QED BY <1>1, <1>2, <1>3 DEF _update_user

\* Whatever kvn edit-user makes of a state is good.
LEMMA cmd_edit_userGood ==
    ASSUME NEW st, Good(st), NEW new \in cmd_edit_user(st)
    PROVE  Good(new)
  <1>1. PICK n \in Present(st) : new \in edit_systems(st, n) \cup edit_device(st, n) \cup edit_sni(st, n)
                                         \cup regenerate_keys(st, n) \cup edit_enabled(st, n)
    BY DEF cmd_edit_user
  <1> QED BY <1>1, edit_systemsGood, edit_deviceGood, edit_sniGood, EditFieldsGood

\* Whatever the portal makes of the users of a state is good.
LEMMA apply_userGood ==
    ASSUME NEW st, Good(st), NEW new \in apply_user(st)
    PROVE  Good(new)
  <1>1. CASE new \in _create_user(st)
    BY <1>1, _create_userGood
  <1>2. CASE \E n \in Present(st) : new \in _update_user(st, n) \cup edit_enabled(st, n) \cup {remove_user(st, n)}
                                            \cup _rotate_user(st, n) \cup rotate_subscription(st, n)
    <2>1. PICK n \in Present(st) : new \in _update_user(st, n) \cup edit_enabled(st, n) \cup {remove_user(st, n)}
                                            \cup _rotate_user(st, n) \cup rotate_subscription(st, n)
      BY <1>2
    <2>2. n \in Names
      BY DEF Present
    <2> QED BY <2>1, <2>2, _update_userGood, EditFieldsGood, remove_userGood
  <1> QED BY <1>1, <1>2 DEF apply_user

\* A step that keeps the users keeps a state good.
LEMMA KeepsUsersGood ==
    ASSUME NEW st, Good(st), NEW new, KeepsUsers(st, new)
    PROVE  Good(new)
  BY UniqueKept DEF Good, KeepsUsers

\* Settings outside the users and the routes.
LEMMA SettingsFields ==
    ASSUME NEW st, IsState(st), NEW x
    PROVE  /\ KeepsUsers(st, [st EXCEPT !.local_site = x])
           /\ KeepsUsers(st, [st EXCEPT !.ocserv_sni = x])
           /\ KeepsUsers(st, [st EXCEPT !.xhttp_mode = x])
           /\ KeepsUsers(st, [st EXCEPT !.protocol_version = x])
           /\ KeepsUsers(st, [st EXCEPT !.reality_xhttp_server_names = x])
           /\ "" \notin x => KeepsUsers(st, [st EXCEPT !.site = x])
           /\ (\A c \in x : c.sni # "" /\ c.dest # "") => KeepsUsers(st, [st EXCEPT !.custom = x])
  BY DEF KeepsUsers, IsState, Shape, StateFields

\* Custom routes name an SNI and a backend.
LEMMA custom_routesGood ==
    ASSUME NEW st, Good(st), NEW new \in custom_routes(st)
    PROVE  Good(new)
  <1>1. \A c \in st.custom : c.sni # "" /\ c.dest # ""
    BY DEF Good, IsState
  <1>2. \E x : new = [st EXCEPT !.custom = x] /\ \A c \in x : c.sni # "" /\ c.dest # ""
    <2>1. CASE \E d \in Domains, b \in {"telemt"} :
                   new = [st EXCEPT !.custom = {c \in @ : c.sni # d} \cup {[sni |-> d, dest |-> b]}]
      <3>1. PICK d \in Domains : new = [st EXCEPT !.custom = {c \in @ : c.sni # d} \cup {[sni |-> d, dest |-> "telemt"]}]
        BY <2>1
      <3> DEFINE x == {c \in st.custom : c.sni # d} \cup {[sni |-> d, dest |-> "telemt"]}
      <3>2. d # ""
        BY DesiredAssumption
      <3>3. ASSUME NEW c \in x PROVE c.sni # "" /\ c.dest # ""
        <4>1. CASE c \in st.custom
          BY <1>1, <4>1
        <4>2. CASE c = [sni |-> d, dest |-> "telemt"]
          BY <3>2, <4>2
        <4> QED BY <4>1, <4>2
      <3> QED BY <3>1, <3>3
    <2>2. CASE \E c \in st.custom : new = [st EXCEPT !.custom = @ \ {c}]
      <3>1. PICK c \in st.custom : new = [st EXCEPT !.custom = @ \ {c}]
        BY <2>2
      <3> DEFINE x == st.custom \ {c}
      <3>2. \A e \in x : e.sni # "" /\ e.dest # ""
        BY <1>1
      <3> QED BY <3>1, <3>2
    <2> DEFINE b == {"telemt"}
    <2>3. new \in {[st EXCEPT !.custom = {c \in @ : c.sni # d} \cup {[sni |-> d, dest |-> z]}] : d \in Domains, z \in b}
               \cup {[st EXCEPT !.custom = @ \ {c}] : c \in st.custom}
      BY DEF custom_routes
    <2> HIDE DEF b
    <2>4. \/ \E d \in Domains, z \in b : new = [st EXCEPT !.custom = {c \in @ : c.sni # d} \cup {[sni |-> d, dest |-> z]}]
          \/ \E c \in st.custom : new = [st EXCEPT !.custom = @ \ {c}]
      BY <2>3
    <2> QED BY <2>1, <2>2, <2>4 DEF b
  <1>3. PICK x : new = [st EXCEPT !.custom = x] /\ \A c \in x : c.sni # "" /\ c.dest # ""
    BY <1>2
  <1>4. KeepsUsers(st, new)
    BY <1>3, SettingsFields DEF Good
  <1> QED BY <1>4, KeepsUsersGood

\* Two steps that keep the users are one.
LEMMA KeepsUsersTwice ==
    ASSUME NEW st, NEW r, KeepsUsers(st, r), NEW new, KeepsUsers(r, new)
    PROVE  KeepsUsers(st, new)
  BY DEF KeepsUsers

\* An operation on a route that exists from then on.
LEMMA RouteChoicesGood ==
    ASSUME NEW st, Good(st), NEW s \in RouteChoices, NEW new,
           LET r == ensure_sni_route(st, s)
           IN  new \in set_default(r, s) \cup add_alias(r, s) \cup remove_alias(r, s) \cup set_aliases(r, s)
                       \cup set_reality_mode(r, s)
    PROVE  Good(new)
  <1>1. s \in SNI_ROUTE_SYSTEMS /\ IsState(st)
    BY RouteAssumption DEF Good
  <1>2. PICK r : r = ensure_sni_route(st, s)
    OBVIOUS
  <1>3. KeepsUsers(st, r)
    BY <1>1, <1>2, ensure_sni_routeGood
  <1>4. IsState(r)
    BY <1>3 DEF KeepsUsers
  <1>5. KeepsUsers(r, new)
    <2>1. CASE new \in set_reality_mode(r, s)
      BY <1>1, <1>4, <2>1, set_reality_modeGood
    <2>2. CASE new \in set_default(r, s) \cup add_alias(r, s) \cup remove_alias(r, s) \cup set_aliases(r, s)
      BY <1>1, <1>4, <2>2, RouteOperations
    <2> QED BY <1>2, <2>1, <2>2
  <1> QED BY <1>3, <1>5, KeepsUsersTwice, KeepsUsersGood

\* Whatever kvn sni-routes makes of a state is good.
LEMMA cmd_sni_routesGood ==
    ASSUME NEW st, Good(st), NEW new \in cmd_sni_routes(st)
    PROVE  Good(new)
  <1>1. CASE new \in custom_routes(st)
    BY <1>1, custom_routesGood
  <1> DEFINE Of(s) == LET r == ensure_sni_route(st, s)
                      IN  set_default(r, s) \cup add_alias(r, s) \cup remove_alias(r, s) \cup set_aliases(r, s)
  <1>2. ASSUME NEW s \in RouteChoices, new \in Of(s) PROVE Good(new)
    BY <1>2, RouteChoicesGood
  <1>3. ASSUME NEW s \in REALITY_SYSTEMS \cap RouteChoices, new \in set_reality_mode(ensure_sni_route(st, s), s)
        PROVE  Good(new)
    BY <1>3, RouteChoicesGood
  <1> DEFINE Named == UNION {Of(s) : s \in RouteChoices}
             Modes == UNION {set_reality_mode(ensure_sni_route(st, s), s) : s \in REALITY_SYSTEMS \cap RouteChoices}
  <1>4. new \in custom_routes(st) \cup Named \cup Modes
    BY DEF cmd_sni_routes
  <1> HIDE DEF Of
  <1>5. CASE new \in Named
    <2>1. PICK s \in RouteChoices : new \in Of(s)
      BY <1>5
    <2> QED BY <2>1, <1>2
  <1>6. CASE new \in Modes
    <2>1. PICK s \in REALITY_SYSTEMS \cap RouteChoices : new \in set_reality_mode(ensure_sni_route(st, s), s)
      BY <1>6
    <2> QED BY <2>1, <1>3
  <1> HIDE DEF Named, Modes
  <1> QED BY <1>1, <1>4, <1>5, <1>6

\* Whatever the portal makes of the routes is good.
LEMMA apply_sni_routeGood ==
    ASSUME NEW st, Good(st), NEW new \in apply_sni_route(st)
    PROVE  Good(new)
  <1> DEFINE Of(s) == LET r == ensure_sni_route(st, s)
                      IN  set_default(r, s) \cup add_alias(r, s)
                          \cup {x \in remove_alias(r, s) :
                                   LET gone == r.routes[s].aliases \ x.routes[s].aliases
                                   IN  system_sni(r, s) \notin gone
                                       /\ \A n \in {m \in Present(st) : s \in DOMAIN st.users[m].overrides} :
                                              st.users[n].overrides[s] \notin gone}
  <1>1. ASSUME NEW s \in RouteChoices, new \in Of(s) PROVE Good(new)
    <2>1. LET r == ensure_sni_route(st, s) IN new \in set_default(r, s) \cup add_alias(r, s) \cup remove_alias(r, s)
      BY <1>1
    <2> QED BY <2>1, RouteChoicesGood
  <1>2. ASSUME NEW s \in REALITY_SYSTEMS \cap RouteChoices, new \in set_reality_mode(ensure_sni_route(st, s), s)
        PROVE  Good(new)
    BY <1>2, RouteChoicesGood
  <1> DEFINE Named == UNION {Of(s) : s \in RouteChoices}
             Modes == UNION {set_reality_mode(ensure_sni_route(st, s), s) : s \in REALITY_SYSTEMS \cap RouteChoices}
  <1>3. new \in Named \cup Modes
    BY DEF apply_sni_route
  <1> HIDE DEF Of
  <1>4. CASE new \in Named
    <2>1. PICK s \in RouteChoices : new \in Of(s)
      BY <1>4
    <2> QED BY <2>1, <1>1
  <1>5. CASE new \in Modes
    <2>1. PICK s \in REALITY_SYSTEMS \cap RouteChoices : new \in set_reality_mode(ensure_sni_route(st, s), s)
      BY <1>5
    <2> QED BY <2>1, <1>2
  <1> HIDE DEF Named, Modes
  <1> QED BY <1>3, <1>4, <1>5

\* Whatever the portal makes of MTProto, xHTTP and AmneziaWG is good.
LEMMA SettingsGood ==
    ASSUME NEW st, Good(st), NEW new \in apply_mtproto(st) \cup apply_protocol(st) \cup apply_amneziawg(st)
    PROVE  Good(new)
  <1>1. CASE new \in apply_mtproto(st)
    <2>1. PICK x : new = [st EXCEPT !.local_site = x]
      BY <1>1 DEF apply_mtproto
    <2> QED BY <2>1, SettingsFields, KeepsUsersGood DEF Good
  <1>2. CASE new \in apply_protocol(st)
    <2>1. PICK x : new = [st EXCEPT !.xhttp_mode = x]
      BY <1>2 DEF apply_protocol
    <2> QED BY <2>1, SettingsFields, KeepsUsersGood DEF Good
  <1>3. CASE new \in apply_amneziawg(st)
    <2>1. PICK x : new = [st EXCEPT !.protocol_version = x]
      BY <1>3 DEF apply_amneziawg, update_amneziawg_profile
    <2> QED BY <2>1, SettingsFields, KeepsUsersGood DEF Good
  <1> QED BY <1>1, <1>2, <1>3

\* A certificate, of the site or of ocserv, leaves the state good.
LEMMA issue_certificateGood ==
    ASSUME NEW st, Good(st), NEW new \in issue_certificate(st)
    PROVE  Good(new)
  <1>1. CASE \E S \in SiteChoices : new = [st EXCEPT !.site = S]
    <2>1. PICK S : "" \notin S /\ new = [st EXCEPT !.site = S]
      BY <1>1, DesiredAssumption
    <2> QED BY <2>1, SettingsFields, KeepsUsersGood DEF Good
  <1>2. CASE \E d \in Domains : new = [st EXCEPT !.ocserv_sni = d]
    BY <1>2, SettingsFields, KeepsUsersGood DEF Good
  <1> QED BY <1>1, <1>2 DEF issue_certificate, configure_letsencrypt_state

\* The preparation leaves the systems and the addresses that there are.
Same(st, new) ==
    /\ IsState(new)
    /\ \A n \in Names : new.users[n].systems = st.users[n].systems /\ new.users[n].address = st.users[n].address

\* A step that keeps the systems and addresses of the users keeps a state good.
LEMMA SameGood ==
    ASSUME NEW st, Good(st), NEW new, Same(st, new)
    PROVE  Good(new)
  BY DEF Same, Good, Unique, Present, user_systems

\* The fields of a state in which all users are replaced.
LEMMA WithUsersFields ==
    ASSUME NEW st, IsState(st), NEW users, UsersOk(users)
    PROVE  LET new == [st EXCEPT !.users = users]
           IN  IsState(new) /\ new.users = users /\ new.routes = st.routes
  BY DEF IsState, Shape, StateFields

\* The overrides of a user that are dropped (validate_state_inputs).
LEMMA validate_userGood ==
    ASSUME NEW u, IsUser(u)
    PROVE  /\ SameAddress(u, validate_user(u)) /\ validate_user(u).systems = u.systems
           /\ DOMAIN validate_user(u).overrides \subseteq USER_SNI_OVERRIDE_SYSTEMS
  <1> DEFINE left == [s \in DOMAIN u.overrides \cap USER_SNI_OVERRIDE_SYSTEMS \cap u.systems |-> u.overrides[s]]
  <1>1. NamesGiven(left) /\ DOMAIN left \subseteq USER_SNI_OVERRIDE_SYSTEMS
    BY DEF IsUser, NamesGiven
  <1>2. validate_user(u) = [u EXCEPT !.overrides = left]
    BY DEF validate_user, IsUser, Shape, UserFields
  <1> HIDE DEF left
  <1>3. /\ SameAddress(u, [u EXCEPT !.overrides = left]) /\ [u EXCEPT !.overrides = left].systems = u.systems
        /\ [u EXCEPT !.overrides = left].overrides = left
    BY <1>1 DEF SameAddress, IsUser, NamesGiven, Shape, UserFields
  <1> QED BY <1>1, <1>2, <1>3

\* A route is not taken back.
KeepsRoutes(st, new) == \A s \in SNI_ROUTE_SYSTEMS : st.routes[s].set => new.routes[s].set

\* The SNI of users that become aliases of their route, which is set then.
LEMMA AdoptedGood ==
    ASSUME NEW st, IsState(st), NEW s \in SNI_ROUTE_SYSTEMS, NEW used, "" \notin used
    PROVE  /\ KeepsUsers(st, Adopted(st, s, used)) /\ KeepsRoutes(st, Adopted(st, s, used))
           /\ used # {} => Adopted(st, s, used).routes[s].set
  <1> DEFINE unknown == used \ route_sni_choices(st, s)
  <1>1. CASE unknown = {}
    <2>1. Adopted(st, s, used) = st
      BY <1>1 DEF Adopted
    <2>2. used # {} => st.routes[s].set
      BY <1>1 DEF route_sni_choices
    <2> QED BY <2>1, <2>2 DEF KeepsUsers, KeepsRoutes
  <1>2. CASE unknown # {}
    <2>1. PICK r : r = ensure_sni_route(st, s)
      OBVIOUS
    <2>2. KeepsUsers(st, r) /\ IsState(r)
      BY <2>1, ensure_sni_routeGood DEF KeepsUsers
    <2>3. /\ Shape(st, StateFields) /\ Shape(st.routes, SNI_ROUTE_SYSTEMS) /\ Shape(st.routes[s], RouteFields)
          /\ Shape(r, StateFields) /\ Shape(r.routes, SNI_ROUTE_SYSTEMS) /\ IsRoute(r.routes[s])
      BY <2>2 DEF IsState, RoutesOk, IsRoute
    <2>4. r.routes[s].set /\ \A x \in SNI_ROUTE_SYSTEMS : x # s => r.routes[x] = st.routes[x]
      BY <2>1, <2>3 DEF ensure_sni_route, Shape, StateFields, RouteFields
    <2> DEFINE route == [r.routes[s] EXCEPT !.aliases = @ \cup unknown]
    <2>5. Adopted(st, s, used) = WithRoute(r, s, route)
      BY <1>2, <2>1, <2>3 DEF Adopted, WithRoute, IsRoute, Shape, StateFields, RouteFields
    <2>6. "" \notin unknown
      OBVIOUS
    <2> HIDE DEF unknown
    <2>7. IsRoute(route)
      BY <2>3, <2>6, AliasesGood
    <2>8. route.set = r.routes[s].set
      BY <2>3 DEF IsRoute, Shape, RouteFields
    <2> HIDE DEF route
    <2>9. KeepsUsers(r, Adopted(st, s, used))
      BY <2>2, <2>5, <2>7, WithRouteGood
    <2>10. /\ Adopted(st, s, used).routes[s] = route
           /\ \A x \in SNI_ROUTE_SYSTEMS : x # s => Adopted(st, s, used).routes[x] = r.routes[x]
      BY <2>3, <2>5 DEF WithRoute, Shape, StateFields
    <2> QED BY <2>2, <2>4, <2>8, <2>9, <2>10, KeepsUsersTwice DEF KeepsRoutes
  <1> QED BY <1>1, <1>2

\* Device profiles that are applied again give users no address.
LEMMA reapply_device_profilesGood ==
    ASSUME NEW st, IsState(st)
    PROVE  /\ Same(st, reapply_device_profiles(st)) /\ reapply_device_profiles(st).routes = st.routes
           /\ \A n \in Names : DOMAIN reapply_device_profiles(st).users[n].overrides
                                   \subseteq DOMAIN st.users[n].overrides \cup {"tls", "hysteria"}
  <1> DEFINE Reapplied(user) == IF user.device \in Devices THEN apply_device_profile(user, user.device, FALSE) ELSE user
             users == [n \in Names |-> Reapplied(st.users[n])]
  <1>1. ASSUME NEW n \in Names
        PROVE  /\ SameAddress(st.users[n], Reapplied(st.users[n])) /\ Reapplied(st.users[n]).systems = st.users[n].systems
               /\ DOMAIN Reapplied(st.users[n]).overrides \subseteq DOMAIN st.users[n].overrides \cup {"tls", "hysteria"}
    <2>1. IsUser(st.users[n])
      BY DEF IsState, UsersOk
    <2>2. CASE st.users[n].device \in Devices
      <3>1. PICK u, v : u = st.users[n] /\ v = apply_device_profile(u, u.device, FALSE)
        OBVIOUS
      <3>2. SameAddress(u, v) /\ v.systems = u.systems
        BY <2>1, <3>1, apply_device_profileGood
      <3>3. DOMAIN v.overrides \subseteq DOMAIN u.overrides \cup {"tls", "hysteria"}
        BY <2>1, <3>1 DEF apply_device_profile, IsUser, Shape, UserFields
      <3> QED BY <2>2, <3>1, <3>2, <3>3
    <2>3. CASE st.users[n].device \notin Devices
      BY <2>1, <2>3 DEF SameAddress
    <2> QED BY <2>2, <2>3
  <1>2. reapply_device_profiles(st) = [st EXCEPT !.users = users]
    BY DEF reapply_device_profiles
  <1> HIDE DEF Reapplied
  <1>3. UsersOk(users)
    BY <1>1 DEF UsersOk, Shape, SameAddress
  <1>4. \A n \in Names : users[n] = Reapplied(st.users[n])
    OBVIOUS
  <1> HIDE DEF users
  <1>5. /\ IsState(reapply_device_profiles(st)) /\ reapply_device_profiles(st).users = users
        /\ reapply_device_profiles(st).routes = st.routes
    BY <1>2, <1>3, WithUsersFields
  <1> QED BY <1>1, <1>4, <1>5 DEF Same, SameAddress

\* The overrides are of systems that may have one, and a Reality route with one is set.
OverridesOk(st) ==
    \A n \in Names : DOMAIN st.users[n].overrides \subseteq USER_SNI_OVERRIDE_SYSTEMS
OverridesRouted(st) ==
    \A n \in Names : \A s \in REALITY_SYSTEMS : s \in DOMAIN st.users[n].overrides => st.routes[s].set

\* After validate_state_inputs the overrides are of systems that may have one, and a Reality
\* route with an override is set.
LEMMA validate_state_inputsGood ==
    ASSUME NEW st, IsState(st)
    PROVE  LET new == validate_state_inputs(st)
           IN  Same(st, new) /\ OverridesOk(new) /\ OverridesRouted(new)
  <1> DEFINE users == [n \in Names |-> validate_user(st.users[n])]
             Used(s) == {users[n].overrides[s] : n \in {m \in Names : s \in DOMAIN users[m].overrides}}
             with == [st EXCEPT !.users = users]
             normal == [st EXCEPT !.users = users, !.routes["tls"].aliases = @ \ site_domains(st)]
  <1>1. ASSUME NEW n \in Names
        PROVE  /\ SameAddress(st.users[n], users[n]) /\ users[n].systems = st.users[n].systems
               /\ DOMAIN users[n].overrides \subseteq USER_SNI_OVERRIDE_SYSTEMS
    BY validate_userGood DEF IsState, UsersOk
  <1>2. UsersOk(users)
    BY <1>1 DEF UsersOk, Shape, SameAddress
  <1>3. ASSUME NEW s PROVE "" \notin Used(s)
    BY <1>1 DEF SameAddress, IsUser
  <1>4. ASSUME NEW s, NEW n \in Names, s \in DOMAIN users[n].overrides PROVE Used(s) # {}
    BY <1>4
  <1>5. PICK used : used = [s \in USER_SNI_OVERRIDE_SYSTEMS |-> Used(s)]
    OBVIOUS
  <1>6. /\ \A s \in USER_SNI_OVERRIDE_SYSTEMS : used[s] = Used(s) /\ "" \notin used[s]
        /\ \A n \in Names : \A s \in DOMAIN users[n].overrides : used[s] # {}
    BY <1>1, <1>3, <1>4, <1>5
  <1> HIDE DEF users
  <1>7. IsState(with) /\ with.users = users /\ with.routes = st.routes
    BY <1>2, WithUsersFields
  <1> DEFINE new == validate_state_inputs(st)
  <1>8. PICK v1, v2, v3 :
            /\ v1 = Adopted(normal, "tls", used["tls"])
            /\ v2 = Adopted(v1, "hysteria", used["hysteria"])
            /\ v3 = Adopted(v2, "reality-tcp", used["reality-tcp"])
            /\ new = Adopted(v3, "reality-xhttp", used["reality-xhttp"])
    BY <1>6 DEF validate_state_inputs, users, USER_SNI_OVERRIDE_SYSTEMS, REALITY_SYSTEMS
  <1>9. KeepsUsers(with, normal)
    <2> DEFINE site == site_domains(st)
               route == [with.routes["tls"] EXCEPT !.aliases = @ \ site]
    <2>1. "tls" \in SNI_ROUTE_SYSTEMS
      BY DEF SNI_ROUTE_SYSTEMS, NGINX_ROUTED_SYSTEMS
    <2>2. /\ Shape(with, StateFields) /\ Shape(with.routes, SNI_ROUTE_SYSTEMS) /\ IsRoute(with.routes["tls"])
          /\ Shape(st, StateFields)
      BY <1>7, <2>1 DEF IsState, RoutesOk
    <2>3. normal = WithRoute(with, "tls", route)
      <3> HIDE DEF site
      <3>1. normal = [st EXCEPT !.users = users, !.routes["tls"].aliases = @ \ site]
        BY DEF site
      <3> QED BY <1>7, <2>1, <2>2, <3>1 DEF WithRoute, IsRoute, Shape, StateFields, RouteFields
    <2>4. IsRoute(route)
      BY <2>2, RemovedGood
    <2> HIDE DEF route
    <2> QED BY <1>7, <2>1, <2>3, <2>4, WithRouteGood
  <1> HIDE DEF with, normal, new
  <1>10. {"tls", "hysteria", "reality-tcp", "reality-xhttp"} \subseteq SNI_ROUTE_SYSTEMS \cap USER_SNI_OVERRIDE_SYSTEMS
    BY DEF SNI_ROUTE_SYSTEMS, NGINX_ROUTED_SYSTEMS, USER_SNI_OVERRIDE_SYSTEMS, REALITY_SYSTEMS
  <1>11. IsState(normal) /\ normal.users = users
    BY <1>7, <1>9 DEF KeepsUsers
  <1>a. \A s \in {"tls", "hysteria", "reality-tcp", "reality-xhttp"} : s \in SNI_ROUTE_SYSTEMS /\ "" \notin used[s]
    BY <1>6, <1>10
  <1>12. KeepsUsers(normal, v1)
    BY <1>8, <1>a, <1>11, AdoptedGood
  <1>13. KeepsUsers(v1, v2)
    <2>1. IsState(v1) /\ "hysteria" \in SNI_ROUTE_SYSTEMS /\ "" \notin used["hysteria"]
      BY <1>a, <1>12 DEF KeepsUsers
    <2> QED BY <1>8, <2>1, AdoptedGood
  <1>14. KeepsUsers(v2, v3) /\ (used["reality-tcp"] # {} => v3.routes["reality-tcp"].set)
    <2>1. IsState(v2) /\ "reality-tcp" \in SNI_ROUTE_SYSTEMS /\ "" \notin used["reality-tcp"]
      BY <1>a, <1>13 DEF KeepsUsers
    <2> QED BY <1>8, <2>1, AdoptedGood
  <1>15. KeepsUsers(v3, new) /\ KeepsRoutes(v3, new) /\ (used["reality-xhttp"] # {} => new.routes["reality-xhttp"].set)
    <2>1. IsState(v3) /\ "reality-xhttp" \in SNI_ROUTE_SYSTEMS /\ "" \notin used["reality-xhttp"]
      BY <1>a, <1>14 DEF KeepsUsers
    <2> QED BY <1>8, <2>1, AdoptedGood
  <1>16. IsState(new) /\ new.users = users
    BY <1>11, <1>12, <1>13, <1>14, <1>15 DEF KeepsUsers
  <1>17. Same(st, new) /\ OverridesOk(new)
    BY <1>1, <1>16 DEF Same, SameAddress, OverridesOk
  <1>18. OverridesRouted(new)
    BY <1>6, <1>10, <1>14, <1>15, <1>16 DEF OverridesRouted, KeepsRoutes, REALITY_SYSTEMS
  <1> QED BY <1>17, <1>18 DEF new

\* The next address is one that nobody has, or none.
LEMMA next_client_addressFree ==
    ASSUME NEW st, NEW t
    PROVE  \/ next_client_address(st, t) = 0
           \/ next_client_address(st, t) \in Hosts \ Taken(st, t)
  <1> DEFINE free == Hosts \ Taken(st, t)
  <1>1. CASE free = {}
    BY <1>1 DEF next_client_address
  <1>2. CASE free # {}
    <2>1. free \in SUBSET Nat
      BY DesiredAssumption
    <2>2. \E a \in free : \A b \in free : a <= b
      BY <1>2, <2>1, LeastExists
    <2>3. next_client_address(st, t) = CHOOSE a \in free : \A b \in free : a <= b
      BY <1>2 DEF next_client_address
    <2> HIDE DEF free
    <2>4. next_client_address(st, t) \in free
      BY <2>2, <2>3
    <2> QED BY <2>4 DEF free
  <1> QED BY <1>1, <1>2

\* What the tunnels do not touch.
KeepsNames(st, new) ==
    /\ new.routes = st.routes
    /\ \A n \in Names : new.users[n].overrides = st.users[n].overrides

\* The user who lacks an address gets one that nobody has.
LEMMA ensure_tunnel_stateGood ==
    ASSUME NEW st, Good(st), NEW t \in TUNNELS
    PROVE  Good(ensure_tunnel_state(st, t)) /\ KeepsNames(st, ensure_tunnel_state(st, t))
  <1> DEFINE lacking == {n \in Names : t \in user_systems(st, n) /\ st.users[n].address[t] = 0}
             new == ensure_tunnel_state(st, t)
  <1>1. CASE lacking = {}
    BY <1>1 DEF ensure_tunnel_state, KeepsNames
  <1>2. CASE lacking # {}
    <2>1. PICK n, a : n = (CHOOSE m \in lacking : TRUE) /\ a = next_client_address(st, t)
      OBVIOUS
    <2>2. n \in lacking
      BY <1>2, <2>1
    <2>3. n \in Names /\ n \in Present(st)
      BY <2>2 DEF Present, user_systems
    <2>4. new = [st EXCEPT !.users[n].address[t] = a]
      BY <1>2, <2>1 DEF ensure_tunnel_state
    <2> HIDE DEF new, lacking
    <2>5. /\ Shape(st, StateFields) /\ Shape(st.users, Names) /\ \A m \in Names : IsUser(st.users[m])
      BY DEF Good, IsState, UsersOk
    <2> DEFINE u == [st.users[n] EXCEPT !.address[t] = a]
    <2>6. /\ Shape(new, StateFields) /\ new.users = [st.users EXCEPT ![n] = u]
          /\ new.routes = st.routes /\ new.custom = st.custom /\ new.site = st.site
      BY <2>4, <2>5 DEF Shape, StateFields
    <2>7. a \in Hosts \cup {0} /\ (a = 0 \/ a \notin Taken(st, t))
      BY <2>1, next_client_addressFree
    <2>8. /\ Shape(u, UserFields) /\ u.overrides = st.users[n].overrides /\ u.systems = st.users[n].systems
          /\ u.address = [st.users[n].address EXCEPT ![t] = a]
      <3>1. PICK r, b : r = st.users[n] /\ b = [r.address EXCEPT ![t] = a]
        OBVIOUS
      <3>2. Shape(r, UserFields)
        BY <2>3, <2>5, <3>1 DEF IsUser
      <3>3. u = [r EXCEPT !.address = b]
        BY <3>1, <3>2 DEF Shape, UserFields
      <3> HIDE DEF u
      <3>4. Shape(u, UserFields) /\ u.overrides = r.overrides /\ u.systems = r.systems /\ u.address = b
        BY <3>2, <3>3 DEF Shape, UserFields
      <3> QED BY <3>1, <3>4
    <2>9. /\ u.address \in [TUNNELS -> Hosts \cup {0}] /\ u.address[t] = a
          /\ \A x \in TUNNELS : x # t => u.address[x] = st.users[n].address[x]
      <3>1. st.users[n].address \in [TUNNELS -> Hosts \cup {0}]
        BY <2>3, <2>5 DEF IsUser
      <3>2. ASSUME NEW f \in [TUNNELS -> Hosts \cup {0}]
            PROVE  LET g == [f EXCEPT ![t] = a]
                   IN  /\ g \in [TUNNELS -> Hosts \cup {0}] /\ g[t] = a
                       /\ \A x \in TUNNELS : x # t => g[x] = f[x]
        BY <2>7
      <3> HIDE DEF u
      <3> QED BY <2>8, <3>1, <3>2
    <2>10. IsUser(u)
      <3>1. \A s \in DOMAIN u.overrides : u.overrides[s] # ""
        BY <2>3, <2>5, <2>8 DEF IsUser
      <3> HIDE DEF u
      <3> QED BY <2>8, <2>9, <3>1 DEF IsUser
    <2> HIDE DEF u
    <2>11. /\ Shape(new.users, Names) /\ new.users[n] = u
           /\ \A m \in Names : m # n => new.users[m] = st.users[m]
      BY <2>3, <2>5, <2>6 DEF Shape
    <2>12. IsState(new)
      BY <2>5, <2>6, <2>10, <2>11 DEF Good, IsState, UsersOk
    <2>13. KeepsNames(st, new)
      BY <2>6, <2>8, <2>11 DEF KeepsNames
    <2>14. Present(new) = Present(st)
      BY <2>8, <2>11 DEF Present, user_systems
    <2>15. Unique(new)
      <3> SUFFICES ASSUME NEW x \in TUNNELS, NEW p \in Present(new), NEW q \in Present(new), p # q,
                          new.users[p].address[x] # 0
                   PROVE  new.users[p].address[x] # new.users[q].address[x]
        BY DEF Unique
      <3>1. p \in Present(st) /\ q \in Present(st) /\ p \in Names /\ q \in Names
        BY <2>14 DEF Present
      <3>2. st.users[p].address[x] # 0 => st.users[p].address[x] # st.users[q].address[x]
        BY <3>1 DEF Good, Unique
      <3>3. CASE x # t \/ (p # n /\ q # n)
        BY <2>9, <2>11, <3>1, <3>2, <3>3
      <3>4. CASE x = t /\ p = n
        <4>1. new.users[p].address[x] = a /\ new.users[q].address[x] = st.users[q].address[t]
          BY <2>9, <2>11, <3>1, <3>4
        <4>2. st.users[q].address[t] \in Taken(st, t)
          BY <3>1 DEF Taken
        <4> QED BY <2>7, <4>1, <4>2
      <3>5. CASE x = t /\ q = n
        <4>1. new.users[q].address[x] = a /\ new.users[p].address[x] = st.users[p].address[t]
          BY <2>9, <2>11, <3>1, <3>5
        <4>2. st.users[p].address[t] \in Taken(st, t)
          BY <3>1 DEF Taken
        <4> QED BY <2>7, <4>1, <4>2
      <3> QED BY <3>3, <3>4, <3>5
    <2> QED BY <2>12, <2>13, <2>15 DEF Good, new
  <1> QED BY <1>1, <1>2

\* What the files rely on in a state that was prepared.
Prepared(st) ==
    /\ OverridesOk(st) /\ OverridesRouted(st)
    /\ route_server_names(st, "reality-xhttp") \subseteq st.reality_xhttp_server_names

\* prepare_state keeps the addresses apart and leaves what the files rely on.
LEMMA prepare_stateGood ==
    ASSUME NEW st, Good(st)
    PROVE  Good(prepare_state(st)) /\ Prepared(prepare_state(st))
  <1>1. PICK v1, v2, v3, v4 :
            /\ v1 = validate_state_inputs(st) /\ v2 = reapply_device_profiles(v1)
            /\ v3 = ensure_tunnel_state(v2, "amneziawg") /\ v4 = ensure_tunnel_state(v3, "wireguard")
    OBVIOUS
  <1>2. prepare_state(st) = xray_config_state(v4)
    BY <1>1 DEF prepare_state, ensure_amneziawg_state, ensure_wireguard_state
  <1>3. Same(st, v1) /\ OverridesOk(v1) /\ OverridesRouted(v1)
    BY <1>1, validate_state_inputsGood DEF Good
  <1>4. /\ Same(v1, v2) /\ v2.routes = v1.routes
        /\ \A n \in Names : DOMAIN v2.users[n].overrides \subseteq DOMAIN v1.users[n].overrides \cup {"tls", "hysteria"}
    BY <1>1, <1>3, reapply_device_profilesGood DEF Same
  <1>5. Good(v2)
    BY <1>3, <1>4, SameGood
  <1>6. OverridesOk(v2) /\ OverridesRouted(v2)
    BY <1>3, <1>4 DEF OverridesOk, OverridesRouted, USER_SNI_OVERRIDE_SYSTEMS, REALITY_SYSTEMS
  <1>7. Good(v3) /\ KeepsNames(v2, v3)
    <2>1. "amneziawg" \in TUNNELS /\ v3 = ensure_tunnel_state(v2, "amneziawg")
      BY <1>1 DEF TUNNELS
    <2> QED BY <1>5, <2>1, ensure_tunnel_stateGood
  <1>8. Good(v4) /\ KeepsNames(v3, v4)
    <2>1. "wireguard" \in TUNNELS /\ v4 = ensure_tunnel_state(v3, "wireguard")
      BY <1>1 DEF TUNNELS
    <2> QED BY <1>7, <2>1, ensure_tunnel_stateGood
  <1>9. OverridesOk(v4) /\ OverridesRouted(v4)
    BY <1>6, <1>7, <1>8 DEF OverridesOk, OverridesRouted, KeepsNames
  <1> DEFINE names == v4.reality_xhttp_server_names \cup route_server_names(v4, "reality-xhttp")
             new == [v4 EXCEPT !.reality_xhttp_server_names = names]
  <1>10. Shape(v4, StateFields)
    BY <1>8 DEF Good, IsState
  <1>11. prepare_state(st) = new
    BY <1>2 DEF xray_config_state
  <1>12. new.reality_xhttp_server_names = names /\ new.routes = v4.routes /\ new.users = v4.users
    <2> HIDE DEF names
    <2> QED BY <1>10 DEF Shape, StateFields
  <1>13. Good(new)
    BY <1>8, SettingsFields, KeepsUsersGood DEF Good
  <1>14. Prepared(new)
    BY <1>9, <1>12 DEF Prepared, OverridesOk, OverridesRouted, route_server_names, system_sni
  <1> QED BY <1>11, <1>13, <1>14

\* What setup.sh writes is a state.
LEMMA NewStateGood ==
    ASSUME NEW configured \in BOOLEAN
    PROVE  IsState(NewState(configured)) /\ \A n \in Names : NewState(configured).users[n] = NoUser
  <1> DEFINE st == NewState(configured)
             route(s) == [set |-> configured, default |-> DEFAULT_SNIS[s],
                          aliases |-> IF configured THEN {DEFAULT_SNIS[s]} ELSE {}, reality_mode |-> "external"]
  <1>1. /\ Shape(st, StateFields) /\ st.users = [n \in Names |-> NoUser]
        /\ st.routes = [s \in SNI_ROUTE_SYSTEMS |-> route(s)] /\ st.custom = {} /\ st.site = {MainDomain}
    BY DEF NewState, Shape, StateFields
  <1> HIDE DEF st
  <1>2. UsersOk(st.users)
    <2>1. PICK u : u = NoUser
      OBVIOUS
    <2>2. IsUser(u)
      BY <2>1, NoUserIsUser
    <2>3. st.users = [n \in Names |-> u]
      BY <1>1, <2>1
    <2>4. Shape(st.users, Names) /\ \A n \in Names : st.users[n] = u
      BY <2>3 DEF Shape
    <2> QED BY <2>2, <2>4 DEF UsersOk
  <1>3. ASSUME NEW s \in SNI_ROUTE_SYSTEMS PROVE IsRoute(route(s))
    <2>1. DEFAULT_SNIS[s] # ""
      <3>1. s \in {"tls", "reality-xhttp", "reality-tcp", "hysteria", "telemt", "mtg"}
        BY DEF SNI_ROUTE_SYSTEMS, NGINX_ROUTED_SYSTEMS, REALITY_SYSTEMS, MTPROTO_SYSTEMS
      <3>2. DEFAULT_SNIS[s] =
                CASE s = "tls" -> "www.microsoft.com" [] s = "reality-xhttp" -> "github.com"
                  [] s = "reality-tcp" -> "apple.com" [] s = "hysteria" -> "www.apple.com"
                  [] s = "telemt" -> "yandex.com" [] s = "mtg" -> "ya.ru"
        BY DEF DEFAULT_SNIS
      <3> QED BY <3>1, <3>2
    <2>2. PICK d, A : d = DEFAULT_SNIS[s] /\ A = IF configured THEN {d} ELSE {}
      OBVIOUS
    <2>3. "" \notin A
      BY <2>1, <2>2
    <2>4. route(s) = [set |-> configured, default |-> d, aliases |-> A, reality_mode |-> "external"]
      BY <2>2
    <2>5. IsRoute([set |-> configured, default |-> d, aliases |-> A, reality_mode |-> "external"])
      BY <2>1, <2>2, <2>3 DEF IsRoute, Shape, RouteFields
    <2> QED BY <2>4, <2>5
  <1> HIDE DEF route
  <1>4. RoutesOk(st.routes)
    BY <1>1, <1>3 DEF RoutesOk, Shape
  <1>5. IsState(st)
    BY <1>1, <1>2, <1>4, DesiredAssumption DEF IsState
  <1> QED BY <1>1, <1>5 DEF st

\* So it is with its first user.
LEMMA FirstStateGood ==
    ASSUME NEW n \in Names, NEW server \in NewServers, NEW k
    PROVE  Good([NewState(server.configured) EXCEPT !.users[n] =
                    [NoUser EXCEPT !.enabled = TRUE, !.systems = server.systems, !.key = k, !.token = k]])
  <1>1. PICK st : st = NewState(server.configured)
    OBVIOUS
  <1> DEFINE u == [NoUser EXCEPT !.enabled = TRUE, !.systems = server.systems, !.key = k, !.token = k]
  <1>2. IsState(st) /\ \A m \in Names : st.users[m] = NoUser
    BY <1>1, NewStateGood, DesiredAssumption
  <1>3. NoUser.systems = {}
    BY DEF NoUser
  <1>4. Good(st)
    BY <1>2, <1>3 DEF Good, Unique, Present, user_systems
  <1>5. SameAddress(NoUser, u)
    BY NoUserIsUser DEF SameAddress, IsUser, Shape, UserFields
  <1> HIDE DEF u
  <1>6. Good(WithUser(st, n, u))
    BY <1>4, <1>5, NoAddressGood
  <1> QED BY <1>1, <1>6 DEF WithUser, u

\* The inbound of TLS has no parameter; it is never written anew.
TlsKept(f) ==
    /\ Shape(f, DOMAIN f) /\ "xray" \in DOMAIN f
    /\ Shape(f.xray["tls"], {"clients", "names", "target", "parameter"})
    /\ f.xray["tls"].parameter = ""

Rendered(st, f) == Prepared(st) /\ Valid(st) /\ \E old : TlsKept(old) /\ f = render_all(st, old)

DInv == Good(state) /\ TlsKept(files) /\ (whole => Rendered(state, files))

\* render_all keeps the inbound of TLS without a parameter.
LEMMA render_allKept ==
    ASSUME NEW st, NEW old, TlsKept(old)
    PROVE  TlsKept(render_all(st, old))
  <1>1. render_all(st, old).xray = render_xray(st, old.xray)
    BY DEF render_all
  <1>2. render_xray(st, old.xray)["tls"] = [old.xray["tls"] EXCEPT !.clients = client_entries(st, "tls")]
    BY DEF render_xray, render_inbound, Xray
  <1>3. /\ Shape(render_all(st, old), DOMAIN render_all(st, old)) /\ "xray" \in DOMAIN render_all(st, old)
    BY DEF render_all, Shape
  <1>4. ASSUME NEW x, Shape(x, {"clients", "names", "target", "parameter"}), x.parameter = "", NEW c
        PROVE  LET y == [x EXCEPT !.clients = c]
               IN  Shape(y, {"clients", "names", "target", "parameter"}) /\ y.parameter = ""
    BY <1>4 DEF Shape
  <1>5. PICK f, x : f = render_all(st, old) /\ x = old.xray["tls"]
    OBVIOUS
  <1>6. f.xray["tls"] = [x EXCEPT !.clients = client_entries(st, "tls")]
    BY <1>1, <1>2, <1>5
  <1>7. Shape(x, {"clients", "names", "target", "parameter"}) /\ x.parameter = ""
    BY <1>5 DEF TlsKept
  <1>8. Shape(f.xray["tls"], {"clients", "names", "target", "parameter"}) /\ f.xray["tls"].parameter = ""
    <2>1. PICK c, y : c = client_entries(st, "tls") /\ y = f.xray["tls"]
      OBVIOUS
    <2>2. y = [x EXCEPT !.clients = c]
      BY <1>6, <2>1
    <2>3. Shape(y, {"clients", "names", "target", "parameter"}) /\ y.parameter = ""
      BY <1>4, <1>7, <2>2
    <2> QED BY <2>1, <2>3
  <1> QED BY <1>3, <1>5, <1>8 DEF TlsKept

\* So does a render that ends early,
LEMMA RenderedUpToKept ==
    ASSUME NEW st, NEW old, TlsKept(old), NEW i
    PROVE  TlsKept(RenderedUpTo(i, render_all(st, old), old))
  <1>1. PICK new : new = render_all(st, old)
    OBVIOUS
  <1>2. TlsKept(new)
    BY <1>1, render_allKept
  <1>3. LET f == RenderedUpTo(i, new, old)
        IN  Shape(f, DOMAIN f) /\ "xray" \in DOMAIN f /\ f.xray \in {new.xray, old.xray}
    BY DEF RenderedUpTo, TlsKept, Shape
  <1> QED BY <1>1, <1>2, <1>3 DEF TlsKept

\* and the configuration that it starts from.
LEMMA NoFilesKept ==
    ASSUME NEW st
    PROVE  TlsKept(NoFiles(st))
  <1> DEFINE F == {Order[i] : i \in DOMAIN Order}
  <1>1. 2 \in DOMAIN Order /\ Order[2] = "xray"
    BY DEF Order
  <1>2. "xray" \in F
    BY <1>1
  <1>3. NoFiles(st) = [f \in F |-> IF f = "xray" THEN default_xray_config(st) ELSE IF f = "clients" THEN <<>> ELSE {}]
    BY DEF NoFiles
  <1> HIDE DEF F
  <1>4. /\ Shape(NoFiles(st), DOMAIN NoFiles(st)) /\ "xray" \in DOMAIN NoFiles(st)
        /\ NoFiles(st).xray = default_xray_config(st)
    BY <1>2, <1>3 DEF Shape
  <1>5. default_xray_config(st)["tls"] = [clients |-> {}, names |-> {}, target |-> "", parameter |-> ""]
    BY DEF default_xray_config, Xray
  <1>6. ASSUME NEW c
        PROVE  Shape([clients |-> c, names |-> c, target |-> "", parameter |-> ""],
                     {"clients", "names", "target", "parameter"})
    BY DEF Shape
  <1>7. PICK x : x = default_xray_config(st)["tls"]
    OBVIOUS
  <1>8. x = [clients |-> {}, names |-> {}, target |-> "", parameter |-> ""]
    BY <1>5, <1>7
  <1>9. Shape(x, {"clients", "names", "target", "parameter"})
    BY <1>6, <1>8, Zenon
  <1>10. x.parameter = ""
    BY <1>8
  <1> QED BY <1>4, <1>7, <1>9, <1>10 DEF TlsKept

\* The invariant holds on a new server.
LEMMA DesiredInitHolds == DesiredInit => DInv
  <1> SUFFICES ASSUME DesiredInit PROVE DInv
    OBVIOUS
  <1>1. PICK n \in Names, server \in NewServers : \E k :
            state = prepare_state([NewState(server.configured) EXCEPT !.users[n] =
                        [NoUser EXCEPT !.enabled = TRUE, !.systems = server.systems, !.key = k, !.token = k]])
    BY DEF DesiredInit
  <1>2. Good(state) /\ Prepared(state)
    BY <1>1, FirstStateGood, prepare_stateGood
  <1>3. TlsKept(NoFiles(state)) /\ TlsKept(files)
    BY NoFilesKept, render_allKept DEF DesiredInit
  <1>4. Rendered(state, files)
    BY <1>2, <1>3 DEF DesiredInit, Rendered
  <1> QED BY <1>2, <1>3, <1>4 DEF DInv

\* The state and the files that an operation leaves.
LEMMA KvnHolds ==
    ASSUME DInv, NEW st, Good(st), NEW clients, Kvn(st, clients)
    PROVE  DInv'
  <1>1. PICK prepared, old : prepared = prepare_state(st) /\ old = [files EXCEPT !.clients = clients]
    OBVIOUS
  <1>2. Good(prepared) /\ Prepared(prepared)
    BY <1>1, prepare_stateGood
  <1>3. TlsKept(old)
    BY <1>1 DEF DInv, TlsKept, Shape
  <1>4. CASE /\ Valid(prepared)
             /\ state' = prepared /\ files' = render_all(prepared, old) /\ whole' = TRUE
    <2>1. Rendered(state', files') /\ TlsKept(files')
      BY <1>2, <1>3, <1>4, render_allKept DEF Rendered
    <2> QED BY <1>2, <1>4, <2>1 DEF DInv
  <1>5. CASE files' = old /\ whole' = FALSE /\ state' = state
    BY <1>3, <1>5 DEF DInv
  <1>6. CASE Interrupted(prepared, old) /\ state' = state
    <2>1. PICK i : files' = RenderedUpTo(i, render_all(prepared, old), old)
      BY <1>6 DEF Interrupted
    <2>2. whole' = FALSE
      BY <1>6 DEF Interrupted
    <2>3. TlsKept(files')
      BY <1>3, <2>1, RenderedUpToKept
    <2> QED BY <1>6, <2>2, <2>3 DEF DInv
  <1> QED BY <1>1, <1>4, <1>5, <1>6 DEF Kvn

\* An operation of the portal, which saves first, keeps it.
LEMMA PortalHolds ==
    ASSUME DInv, NEW st, Good(st), Portal(st)
    PROVE  DInv'
  <1>1. PICK prepared : prepared = prepare_state(st)
    OBVIOUS
  <1>2. Good(prepared) /\ Prepared(prepared)
    BY <1>1, prepare_stateGood
  <1>3. Valid(prepared) /\ state' = prepared
    BY <1>1 DEF Portal
  <1>4. CASE files' = render_all(prepared, files) /\ whole' = TRUE
    <2>1. Rendered(state', files') /\ TlsKept(files')
      BY <1>2, <1>3, <1>4, render_allKept DEF Rendered, DInv
    <2> QED BY <1>2, <1>3, <2>1 DEF DInv
  <1>5. CASE Interrupted(prepared, files)
    <2>1. PICK i : files' = RenderedUpTo(i, render_all(prepared, files), files)
      BY <1>5 DEF Interrupted
    <2>2. whole' = FALSE
      BY <1>5 DEF Interrupted
    <2>3. TlsKept(files')
      BY <2>1, RenderedUpToKept DEF DInv
    <2> QED BY <1>2, <1>3, <2>2, <2>3 DEF DInv
  <1> QED BY <1>1, <1>4, <1>5 DEF Portal

\* Every step keeps it.
LEMMA DesiredNextHolds == DInv /\ [DesiredNext]_desiredVars => DInv'
  <1> SUFFICES ASSUME DInv, [DesiredNext]_desiredVars PROVE DInv'
    OBVIOUS
  <1>1. Good(state)
    BY DEF DInv
  <1>2. CASE AddUser
    BY <1>1, <1>2, cmd_add_userGood, KvnHolds DEF AddUser
  <1>3. CASE EditUser
    BY <1>1, <1>3, cmd_edit_userGood, KvnHolds DEF EditUser
  <1>4. CASE RenameUser
    BY <1>1, <1>4, edit_nameGood, KvnHolds DEF RenameUser
  <1>5. CASE RemoveUser
    BY <1>1, <1>5, remove_userGood, KvnHolds DEF RemoveUser, Present
  <1>6. CASE SniRoutes
    BY <1>1, <1>6, cmd_sni_routesGood, KvnHolds DEF SniRoutes
  <1>7. CASE PortalUser
    BY <1>1, <1>7, apply_userGood, PortalHolds DEF PortalUser
  <1>8. CASE PortalRoute
    BY <1>1, <1>8, apply_sni_routeGood, PortalHolds DEF PortalRoute
  <1>9. CASE PortalSettings
    BY <1>1, <1>9, SettingsGood, PortalHolds DEF PortalSettings
  <1>10. CASE IssueCertificate
    <2>1. PICK st \in issue_certificate(state) :
              LET prepared == prepare_state(st)
              IN  \/ /\ Valid(prepared)
                     /\ state' = prepared /\ files' = render_all(prepared, files) /\ whole' = TRUE
                  \/ state' = st /\ whole' = FALSE /\ files' = files
                  \/ state' = st /\ Interrupted(prepared, files)
      BY <1>10 DEF IssueCertificate
    <2>2. Good(st)
      BY <1>1, issue_certificateGood
    <2>3. PICK prepared : prepared = prepare_state(st)
      OBVIOUS
    <2>4. Good(prepared) /\ Prepared(prepared)
      BY <2>2, <2>3, prepare_stateGood
    <2>5. CASE /\ Valid(prepared)
               /\ state' = prepared /\ files' = render_all(prepared, files) /\ whole' = TRUE
      <3>1. Rendered(state', files') /\ TlsKept(files')
        BY <2>4, <2>5, render_allKept DEF Rendered, DInv
      <3> QED BY <2>4, <2>5, <3>1 DEF DInv
    <2>6. CASE state' = st /\ whole' = FALSE /\ files' = files
      BY <2>2, <2>6 DEF DInv
    <2>7. CASE state' = st /\ Interrupted(prepared, files)
      <3>1. PICK i : files' = RenderedUpTo(i, render_all(prepared, files), files)
        BY <2>7 DEF Interrupted
      <3>2. whole' = FALSE
        BY <2>7 DEF Interrupted
      <3>3. TlsKept(files')
        BY <3>1, RenderedUpToKept DEF DInv
      <3> QED BY <2>2, <2>7, <3>2, <3>3 DEF DInv
    <2> QED BY <2>1, <2>3, <2>5, <2>6, <2>7
  <1>11. CASE reconcile
    <2>1. PICK prepared : prepared = prepare_state(state)
      OBVIOUS
    <2>2. Good(prepared) /\ Prepared(prepared)
      BY <1>1, <2>1, prepare_stateGood
    <2>3. Valid(prepared) /\ state' = prepared /\ files' = render_all(prepared, files)
      BY <1>11, <2>1 DEF reconcile
    <2>4. Rendered(state', files') /\ TlsKept(files')
      BY <2>2, <2>3, render_allKept DEF Rendered, DInv
    <2> QED BY <2>2, <2>3, <2>4 DEF DInv
  <1>12. CASE UNCHANGED desiredVars
    BY <1>12 DEF desiredVars, DInv
  <1> QED BY <1>2, <1>3, <1>4, <1>5, <1>6, <1>7, <1>8, <1>9, <1>10, <1>11, <1>12 DEF DesiredNext

\* The invariant of users.json and what is generated from it: in every reachable state the
\* state is well formed and its tunnel addresses are apart, and when the files are said to be
\* those of the state they are a whole render of it, after it was prepared and checked.
THEOREM DesiredInvariant == DesiredSpec => []DInv
  BY DesiredInitHolds, DesiredNextHolds, PTL DEF DesiredSpec

\* No tunnel address is ever reserved for two users (next_awg_client_address,
\* next_wireguard_client_address), for any number of users, addresses and operations.
THEOREM AddressesStayUnique == DesiredSpec => []AddressesAreUnique
  <1>1. DInv => AddressesAreUnique
    BY DEF DInv, Good, Unique, AddressesAreUnique
  <1> QED BY <1>1, DesiredInvariant, PTL

(***************************************************************************)
(* What the services know, and that access ends.                           *)
(***************************************************************************)

IsProfile(p, st, n, system, sni, port) ==
    /\ p.system = system /\ p.sni = sni /\ p.port = port
    /\ p.credential = Credential(st, n, system)
    /\ p.address = IF system \in TUNNELS THEN st.users[n].address[system] ELSE 0
    /\ p.parameter = CASE system = "reality-xhttp" -> st.xhttp_mode
                       [] system = "amneziawg" -> st.protocol_version
                       [] OTHER -> ""

\* The fields of a profile.
LEMMA ProfileFields ==
    ASSUME NEW st, NEW n, NEW system, NEW sni, NEW port
    PROVE  IsProfile(Profile(st, n, system, sni, port), st, n, system, sni, port)
  <1> DEFINE c == Credential(st, n, system)
             a == IF system \in TUNNELS THEN st.users[n].address[system] ELSE 0
             q == CASE system = "reality-xhttp" -> st.xhttp_mode
                    [] system = "amneziawg" -> st.protocol_version
                    [] OTHER -> ""
  <1>0. PICK p : p = Profile(st, n, system, sni, port)
    OBVIOUS
  <1>1. p = [system |-> system, sni |-> sni, port |-> port, credential |-> c, address |-> a, parameter |-> q]
    BY <1>0 DEF Profile
  <1> HIDE DEF c, a, q
  <1>2. p.system = system /\ p.sni = sni /\ p.port = port /\ p.credential = c /\ p.address = a /\ p.parameter = q
    BY <1>1
  <1>3. IsProfile(p, st, n, system, sni, port)
    BY <1>2 DEF c, a, q, IsProfile
  <1> QED BY <1>0, <1>3

TLS_FIELDS == {"clients", "names", "target", "parameter"}

\* What a Reality service knows.
RenderedReality(st, f, s) ==
    /\ f.xray[s].names = ServerNames(st, s)
    /\ f.xray[s].parameter = IF s = "reality-xhttp" THEN st.xhttp_mode ELSE ""
    /\ reality_mode(st, s) = "self-steal" => f.xray[s].target = LOCAL_REALITY_TARGET

\* What the services know when the files are rendered.
LEMMA RenderedFiles ==
    ASSUME NEW st, NEW f, Rendered(st, f)
    PROVE  /\ f.nginx = render_nginx(st)
           /\ \A s \in Xray : f.xray[s].clients = client_entries(st, s)
           /\ f.xray["tls"].parameter = ""
           /\ \A s \in REALITY_SYSTEMS : RenderedReality(st, f, s)
           /\ f.hysteria = client_entries(st, "hysteria") /\ f.telemt = telemt_config_text(st)
           /\ f.mtg = mtg_config_text(st) /\ f.amneziawg = render_amneziawg(st) /\ f.wireguard = render_wireguard(st)
           /\ f.ocserv = client_entries(st, "ocserv")
           /\ f.web = WebFiles(st)
           /\ \E old : f.clients = write_client_files(st, old)
  <1>1. PICK old : TlsKept(old) /\ f = render_all(st, old)
    BY DEF Rendered
  <1>2. /\ f.nginx = render_nginx(st) /\ f.xray = render_xray(st, old.xray)
        /\ f.hysteria = client_entries(st, "hysteria") /\ f.telemt = telemt_config_text(st)
        /\ f.mtg = mtg_config_text(st) /\ f.amneziawg = render_amneziawg(st) /\ f.wireguard = render_wireguard(st)
        /\ f.ocserv = client_entries(st, "ocserv") /\ f.web = WebFiles(st)
        /\ f.clients = write_client_files(st, old.clients)
    BY <1>1 DEF render_all, render_hysteria, render_ocserv, write_sub_web
  <1>3. \A s \in Xray : f.xray[s] = render_inbound(st, s, old.xray[s])
    BY <1>2 DEF render_xray
  <1>4. ASSUME NEW s \in REALITY_SYSTEMS
        PROVE  f.xray[s] = [clients |-> client_entries(st, s), names |-> ServerNames(st, s),
                            target |-> RenderedTarget(st, s, old.xray[s]),
                            parameter |-> IF s = "reality-xhttp" THEN st.xhttp_mode ELSE ""]
    BY <1>3 DEF render_inbound, Xray, REALITY_SYSTEMS
  <1>5. f.xray["tls"].clients = client_entries(st, "tls") /\ f.xray["tls"].parameter = ""
    <2>1. PICK x : x = old.xray["tls"]
      OBVIOUS
    <2>2. f.xray["tls"] = [x EXCEPT !.clients = client_entries(st, "tls")]
      BY <1>3, <2>1 DEF render_inbound, Xray
    <2>3. Shape(x, TLS_FIELDS) /\ x.parameter = ""
      BY <1>1, <2>1 DEF TlsKept, TLS_FIELDS
    <2> QED BY <2>2, <2>3 DEF Shape, TLS_FIELDS
  <1>6. \A s \in REALITY_SYSTEMS : reality_mode(st, s) = "self-steal" => RenderedTarget(st, s, old.xray[s]) = LOCAL_REALITY_TARGET
    BY DEF RenderedTarget, reality_target
  <1>7. ASSUME NEW s \in REALITY_SYSTEMS
        PROVE  /\ f.xray[s].clients = client_entries(st, s) /\ f.xray[s].names = ServerNames(st, s)
               /\ f.xray[s].parameter = IF s = "reality-xhttp" THEN st.xhttp_mode ELSE ""
               /\ reality_mode(st, s) = "self-steal" => f.xray[s].target = LOCAL_REALITY_TARGET
    <2>1. PICK c, d, t, q :
              /\ c = client_entries(st, s) /\ d = ServerNames(st, s) /\ t = RenderedTarget(st, s, old.xray[s])
              /\ q = IF s = "reality-xhttp" THEN st.xhttp_mode ELSE ""
      OBVIOUS
    <2>2. f.xray[s] = [clients |-> c, names |-> d, target |-> t, parameter |-> q]
      BY <1>4, <2>1
    <2>3. f.xray[s].clients = c /\ f.xray[s].names = d /\ f.xray[s].target = t /\ f.xray[s].parameter = q
      BY <2>2
    <2> QED BY <1>6, <2>1, <2>3
  <1>8. \A s \in Xray : f.xray[s].clients = client_entries(st, s)
    BY <1>5, <1>7 DEF Xray
  <1>9. \A s \in REALITY_SYSTEMS : RenderedReality(st, f, s)
    BY <1>7 DEF RenderedReality
  <1> QED BY <1>2, <1>5, <1>8, <1>9

\* Under the invariant nobody has access but the users who have it now.
LEMMA AccessEndsWith ==
    ASSUME DInv PROVE AccessEnds
  <1> SUFFICES ASSUME whole PROVE AccessEnds
    BY DEF AccessEnds
  <1>1. Rendered(state, files)
    BY DEF DInv
  <1>2. \A s \in Xray : files.xray[s].clients = client_entries(state, s)
    BY <1>1, RenderedFiles
  <1>3. /\ files.hysteria = client_entries(state, "hysteria") /\ files.ocserv = client_entries(state, "ocserv")
        /\ files.telemt.clients = client_entries(state, "telemt")
    <2>1. files.telemt = telemt_config_text(state) /\ files.hysteria = client_entries(state, "hysteria") /\ files.ocserv = client_entries(state, "ocserv")
      BY <1>1, RenderedFiles
    <2> QED BY <2>1 DEF telemt_config_text
  <1>4. ASSUME NEW t \in TUNNELS, NEW peer \in files[t].peers PROVE peer.credential \in client_entries(state, t)
    <2>1. files[t] = render_tunnel(state, t)
      BY <1>1, RenderedFiles DEF TUNNELS, render_amneziawg, render_wireguard
    <2> DEFINE peers == {[credential |-> Credential(state, n, t), address |-> state.users[n].address[t]] :
                            n \in Having(state, t)}
               v == IF t = "amneziawg" THEN state.protocol_version ELSE ""
    <2>a. files[t] = [peers |-> peers, parameter |-> v]
      BY <2>1 DEF render_tunnel
    <2>b. files[t].peers = peers
      <3> HIDE DEF peers, v
      <3> QED BY <2>a
    <2>3. PICK n \in Having(state, t) :
              peer = [credential |-> Credential(state, n, t), address |-> state.users[n].address[t]]
      BY <2>b
    <2>4. peer.credential = Credential(state, n, t)
      BY <2>3
    <2> QED BY <2>4 DEF client_entries
  <1>5. DOMAIN files.clients = enabled_users(state)
    <2>1. PICK old : files.clients = write_client_files(state, old)
      BY <1>1, RenderedFiles
    <2> QED BY <2>1 DEF write_client_files
  <1>6. ASSUME NEW w \in files.web
        PROVE  /\ \E n \in enabled_users(state) : w.token = state.users[n].token
               /\ \A p \in w.profiles : p.credential \in client_entries(state, p.system)
    <2>1. w \in WebFiles(state)
      BY <1>1, RenderedFiles
    <2>2. CASE \E n \in enabled_users(state) :
                   w = [path |-> "uri", token |-> state.users[n].token,
                        profiles |-> uri_list_for_systems(state, n, user_systems(state, n))]
      <3>1. PICK n \in enabled_users(state) :
                w = [path |-> "uri", token |-> state.users[n].token,
                     profiles |-> uri_list_for_systems(state, n, user_systems(state, n))]
        BY <2>2
      <3>2. ASSUME NEW p \in w.profiles PROVE p.credential \in client_entries(state, p.system)
        <4>1. p \in uri_list_for_systems(state, n, user_systems(state, n))
          BY <3>1
        <4>2. p.system \in user_systems(state, n) /\ p.credential = Credential(state, n, p.system)
          <5>1. p.system \in user_systems(state, n)
            BY <4>1 DEF uri_list_for_systems
          <5>2. p \in {vless_tls_link(state, n, "443"), vless_reality_link(state, n, "443"),
                       vless_reality_tcp_link(state, n, "443"), hysteria2_link(state, n)}
            BY <4>1 DEF uri_list_for_systems
          <5>3. PICK system, sni, port : p = Profile(state, n, system, sni, port)
            BY <5>2 DEF vless_tls_link, vless_reality_link, vless_reality_tcp_link, hysteria2_link
          <5>x. IsProfile(Profile(state, n, system, sni, port), state, n, system, sni, port)
            BY ProfileFields
          <5>4. p.system = system /\ p.credential = Credential(state, n, system)
            BY <5>3, <5>x DEF IsProfile
          <5> QED BY <5>1, <5>4
        <4>3. n \in Having(state, p.system)
          BY <4>2 DEF Having
        <4> QED BY <4>2, <4>3 DEF client_entries
      <3> QED BY <3>1, <3>2
    <2>3. CASE \E n \in Having(state, "wireguard") :
                   w = [path |-> "wg", token |-> state.users[n].token, profiles |-> {karing_wireguard_yaml(state, n)}]
      <3>1. PICK n \in Having(state, "wireguard") :
                w = [path |-> "wg", token |-> state.users[n].token, profiles |-> {karing_wireguard_yaml(state, n)}]
        BY <2>3
      <3>2. ASSUME NEW p \in w.profiles PROVE p.credential \in client_entries(state, p.system)
        <4>1. p = karing_wireguard_yaml(state, n)
          BY <3>1
        <4>2. p.system = "wireguard" /\ p.credential = Credential(state, n, "wireguard")
          BY <4>1 DEF karing_wireguard_yaml, Profile
        <4> QED BY <4>2 DEF client_entries
      <3> QED BY <3>1, <3>2 DEF Having
    <2> QED BY <2>1, <2>2, <2>3 DEF WebFiles
  <1> QED BY <1>2, <1>3, <1>4, <1>5, <1>6 DEF AccessEnds

(***************************************************************************)
(* The SNI router: all claims of one SNI name one backend, so the first    *)
(* that stands is the backend of each.                                     *)
(***************************************************************************)

NginxClaims(st) ==
    RouteClaims(st)
    \cup UserClaims(st, enabled_users(st), [n \in Names |-> user_systems(st, n)], [s \in NGINX_ROUTED_SYSTEMS |-> s])
    \cup CustomClaims(st) \cup OcservClaims(st) \cup SiteClaims(st)
CheckedClaims(st) ==
    RouteClaims(st) \cup CustomClaims(st) \cup OcservClaims(st) \cup SiteClaims(st)
    \cup UserClaims(st, Present(st), [n \in Names |-> NGINX_ROUTED_SYSTEMS],
                    [s \in NGINX_ROUTED_SYSTEMS |-> IF st.routes[s].set THEN s ELSE ""])

IsClaim(c, sni, dest) == c.sni = sni /\ c.dest = dest /\ c.rank \in 1..5

\* The fields of a claim.
LEMMA ClaimFields ==
    ASSUME NEW sni, NEW dest, NEW rank \in 1..5
    PROVE  IsClaim(Claim(sni, dest, rank), sni, dest)
  BY DEF Claim, IsClaim

\* The claims of users, one by one.
LEMMA UserClaimsAre ==
    ASSUME NEW st, NEW users, NEW systems, NEW dest
    PROVE  /\ \A c \in UserClaims(st, users, systems, dest) :
                  \E n \in users : \E s \in NGINX_ROUTED_SYSTEMS \cap DOMAIN st.users[n].overrides \cap systems[n] :
                      c = Claim(st.users[n].overrides[s], dest[s], 2)
           /\ \A n \in users : \A s \in NGINX_ROUTED_SYSTEMS \cap DOMAIN st.users[n].overrides \cap systems[n] :
                  Claim(st.users[n].overrides[s], dest[s], 2) \in UserClaims(st, users, systems, dest)
  BY DEF UserClaims

\* The claims of routes, one by one.
LEMMA RouteClaimsAre ==
    ASSUME NEW st
    PROVE  /\ \A c \in RouteClaims(st) :
                  \E s \in NGINX_ROUTED_SYSTEMS : \E d \in route_sni_choices(st, s) : c = Claim(d, s, 1)
           /\ \A s \in NGINX_ROUTED_SYSTEMS : \A d \in route_sni_choices(st, s) : Claim(d, s, 1) \in RouteClaims(st)
  BY DEF RouteClaims

\* The destination of a domain of the site.
LEMMA SiteDestination ==
    ASSUME NEW st, NEW d
    PROVE  \/ site_route_destination(st, d) = Site
           \/ /\ site_route_destination(st, d) \in REALITY_SYSTEMS
              /\ reality_mode(st, site_route_destination(st, d)) = "self-steal"
  <1> DEFINE candidates == {s \in REALITY_SYSTEMS :
                               /\ reality_mode(st, s) = "self-steal" /\ system_sni(st, s) \in site_domains(st)
                               /\ d \in route_sni_choices(st, s)}
  <1>1. CASE Cardinality(candidates) = 1
    <2>1. candidates # {}
      BY <1>1, FS_EmptySet
    <2>2. PICK s : s = CHOOSE x \in candidates : TRUE
      OBVIOUS
    <2>3. s \in candidates
      BY <2>1, <2>2
    <2>4. site_route_destination(st, d) = s
      BY <1>1, <2>2 DEF site_route_destination
    <2> QED BY <2>3, <2>4
  <1>2. CASE Cardinality(candidates) # 1
    BY <1>2 DEF site_route_destination
  <1> QED BY <1>1, <1>2

Ready(st) == IsState(st) /\ Prepared(st)

\* What the nginx map claims was checked against all other claims.
LEMMA ClaimsAreChecked ==
    ASSUME NEW st, Ready(st), NEW c \in NginxClaims(st)
    PROVE  /\ c.sni # "" /\ c.dest # "" /\ c.rank \in 1..5
           /\ \E e \in CheckedClaims(st) : e.sni = c.sni /\ (e.dest = c.dest \/ (e.dest = "" /\ c.dest = "tls"))
  <1>1. CASE c \in RouteClaims(st)
    <2>a. PICK s \in NGINX_ROUTED_SYSTEMS : \E d \in route_sni_choices(st, s) : c = Claim(d, s, 1)
      BY <1>1, RouteClaimsAre
    <2>1. PICK d \in route_sni_choices(st, s) : c = Claim(d, s, 1)
      BY <2>a
    <2>2. IsClaim(c, d, s)
      BY <2>1, ClaimFields
    <2>3. s \in SNI_ROUTE_SYSTEMS /\ s # ""
      BY <2>1 DEF SNI_ROUTE_SYSTEMS, NGINX_ROUTED_SYSTEMS, REALITY_SYSTEMS, MTPROTO_SYSTEMS
    <2>4. d # ""
      BY <2>1, <2>3 DEF Ready, IsState, RoutesOk, IsRoute, route_sni_choices, route_server_names, system_sni
    <2> QED BY <1>1, <2>2, <2>3, <2>4 DEF IsClaim, CheckedClaims
  <1>2. CASE c \in UserClaims(st, enabled_users(st), [n \in Names |-> user_systems(st, n)],
                              [s \in NGINX_ROUTED_SYSTEMS |-> s])
    <2>1. PICK n \in enabled_users(st) : \E s \in NGINX_ROUTED_SYSTEMS :
                  /\ s \in DOMAIN st.users[n].overrides
                  /\ c = Claim(st.users[n].overrides[s], [x \in NGINX_ROUTED_SYSTEMS |-> x][s], 2)
      BY <1>2, UserClaimsAre
    <2>2. PICK s \in NGINX_ROUTED_SYSTEMS :
                  s \in DOMAIN st.users[n].overrides /\ c = Claim(st.users[n].overrides[s], s, 2)
      BY <2>1
    <2>3. IsClaim(c, st.users[n].overrides[s], s)
      BY <2>2, ClaimFields
    <2>4. n \in Names /\ n \in Present(st)
      BY DEF enabled_users, Present
    <2>5. st.users[n].overrides[s] # "" /\ s # ""
      BY <2>2, <2>4 DEF Ready, IsState, UsersOk, IsUser, NGINX_ROUTED_SYSTEMS, REALITY_SYSTEMS, MTPROTO_SYSTEMS
    <2> DEFINE dest == [x \in NGINX_ROUTED_SYSTEMS |-> IF st.routes[x].set THEN x ELSE ""]
               all == [x \in Names |-> NGINX_ROUTED_SYSTEMS]
               e == Claim(st.users[n].overrides[s], dest[s], 2)
    <2>6. s \in NGINX_ROUTED_SYSTEMS \cap DOMAIN st.users[n].overrides \cap all[n]
      BY <2>2, <2>4
    <2>7. e \in CheckedClaims(st)
      <3> HIDE DEF dest, all
      <3>1. e \in UserClaims(st, Present(st), all, dest)
        BY <2>4, <2>6, UserClaimsAre
      <3> QED BY <3>1 DEF CheckedClaims, dest, all
    <2>8. IsClaim(e, st.users[n].overrides[s], dest[s])
      <3> HIDE DEF dest
      <3> QED BY ClaimFields
    <2>9. s = "tls" \/ st.routes[s].set
      <3>1. s \in USER_SNI_OVERRIDE_SYSTEMS
        BY <2>2, <2>4 DEF Ready, Prepared, OverridesOk
      <3>2. s \in REALITY_SYSTEMS \/ s = "tls"
        BY <3>1, <2>2 DEF USER_SNI_OVERRIDE_SYSTEMS, NGINX_ROUTED_SYSTEMS, MTPROTO_SYSTEMS, REALITY_SYSTEMS
      <3> QED BY <3>2, <2>2, <2>4 DEF Ready, Prepared, OverridesRouted
    <2>10. dest[s] = s \/ (dest[s] = "" /\ s = "tls")
      BY <2>2, <2>9
    <2> HIDE DEF dest, e
    <2> QED BY <2>3, <2>5, <2>7, <2>8, <2>10 DEF IsClaim
  <1>3. CASE c \in CustomClaims(st)
    <2>1. PICK x \in st.custom : c = Claim(x.sni, x.dest, 3)
      BY <1>3 DEF CustomClaims
    <2>2. IsClaim(c, x.sni, x.dest)
      BY <2>1, ClaimFields
    <2>3. x.sni # "" /\ x.dest # ""
      BY <2>1 DEF Ready, IsState
    <2> QED BY <1>3, <2>2, <2>3 DEF IsClaim, CheckedClaims
  <1>4. CASE c \in OcservClaims(st)
    <2>1. PICK d \in OcservSni(st) : c = Claim(d, "ocserv", 4)
      BY <1>4 DEF OcservClaims
    <2>2. IsClaim(c, d, "ocserv")
      BY <2>1, ClaimFields
    <2>3. d # ""
      BY <2>1 DEF OcservSni
    <2> QED BY <1>4, <2>2, <2>3 DEF IsClaim, CheckedClaims
  <1>5. CASE c \in SiteClaims(st)
    <2>1. PICK d \in site_domains(st) : c = Claim(d, site_route_destination(st, d), 5)
      BY <1>5 DEF SiteClaims
    <2>2. IsClaim(c, d, site_route_destination(st, d))
      BY <2>1, ClaimFields
    <2>3. d # ""
      BY <2>1 DEF Ready, IsState, site_domains
    <2>4. site_route_destination(st, d) # ""
      BY SiteDestination DEF Site, REALITY_SYSTEMS
    <2> QED BY <1>5, <2>2, <2>3, <2>4 DEF IsClaim, CheckedClaims
  <1> QED BY <1>1, <1>2, <1>3, <1>4, <1>5 DEF NginxClaims

\* Claims of one SNI that pass the check name one backend.
LEMMA ClaimsAgree ==
    ASSUME NEW st, Ready(st), ~ collisions(st),
           NEW c \in NginxClaims(st), NEW d \in NginxClaims(st), c.sni = d.sni
    PROVE  c.dest = d.dest
  <1>1. PICK e \in CheckedClaims(st) : e.sni = c.sni /\ (e.dest = c.dest \/ (e.dest = "" /\ c.dest = "tls"))
    BY ClaimsAreChecked
  <1>2. PICK f \in CheckedClaims(st) : f.sni = d.sni /\ (f.dest = d.dest \/ (f.dest = "" /\ d.dest = "tls"))
    BY ClaimsAreChecked
  <1>3. \A x, y \in CheckedClaims(st) : x.sni = y.sni => x.dest = y.dest
    BY DEF collisions, CheckedClaims
  <1>4. e.dest = f.dest
    BY <1>1, <1>2, <1>3
  <1>5. c.dest # "" /\ d.dest # ""
    BY ClaimsAreChecked
  <1> QED BY <1>1, <1>2, <1>4, <1>5

\* The nginx map leads every SNI that is claimed to the backend of the claim.
LEMMA MapFollows ==
    ASSUME NEW st, Ready(st), ~ collisions(st)
    PROVE  /\ "" \notin DOMAIN all_sni_aliases(st)
           /\ \A c \in NginxClaims(st) : c.sni \in DOMAIN all_sni_aliases(st) /\ all_sni_aliases(st)[c.sni] = c.dest
  <1> DEFINE those(d) == {c \in NginxClaims(st) : c.sni = d}
  <1>1. all_sni_aliases(st) = [d \in {c.sni : c \in NginxClaims(st)} |->
                                  (CHOOSE c \in those(d) : \A e \in those(d) : c.rank <= e.rank).dest]
    BY DEF all_sni_aliases, NginxClaims
  <1>2. DOMAIN all_sni_aliases(st) = {c.sni : c \in NginxClaims(st)}
    BY <1>1
  <1>3. ASSUME NEW c \in NginxClaims(st) PROVE all_sni_aliases(st)[c.sni] = c.dest
    <2>1. \E x \in those(c.sni) : \A e \in those(c.sni) : x.rank <= e.rank
      <3> DEFINE ranks == {x.rank : x \in those(c.sni)}
      <3>1. c \in those(c.sni)
        OBVIOUS
      <3>a. ASSUME NEW x \in NginxClaims(st) PROVE x.rank \in Nat
        <4>1. x.rank \in 1..5
          BY ClaimsAreChecked
        <4> QED BY <4>1
      <3>2. ranks \in SUBSET Nat /\ ranks # {}
        BY <3>1, <3>a
      <3>3. PICK a \in ranks : \A b \in ranks : a <= b
        <4> HIDE DEF ranks
        <4> QED BY <3>2, LeastExists
      <3> QED BY <3>3
    <2>2. PICK x : x = CHOOSE y \in those(c.sni) : \A e \in those(c.sni) : y.rank <= e.rank
      OBVIOUS
    <2>3. x \in those(c.sni)
      BY <2>1, <2>2
    <2>4. all_sni_aliases(st)[c.sni] = x.dest
      BY <1>1, <2>2
    <2>5. x.dest = c.dest
      BY <2>3, ClaimsAgree
    <2> QED BY <2>4, <2>5
  <1>4. "" \notin DOMAIN all_sni_aliases(st)
    BY <1>2, ClaimsAreChecked
  <1> QED BY <1>2, <1>3, <1>4

(***************************************************************************)
(* The profiles of the clients.                                            *)
(***************************************************************************)

\* The profile p of user n, who has its system.
ProfileOf(st, p, n) ==
    /\ n \in enabled_users(st) /\ p.system \in user_systems(st, n)
    /\ IsProfile(p, st, n, p.system, p.sni, p.port)
    /\ \/ p.system \in Xray /\ p.sni = user_sni(st, n, p.system)
       \/ p.system = "hysteria" /\ p.port = "direct"
       \/ p.system \in MTPROTO_SYSTEMS /\ p.sni = system_sni(st, p.system)
       \/ p.system \in TUNNELS /\ p.port = "direct"
       \/ p.system = "ocserv" /\ p.sni = st.ocserv_sni /\ p.port = ocserv_public_tcp_port(st)

Written(st, n, p) ==
    \/ \E port \in {"443", "direct"} :
           \/ p \in {vless_tls_link(st, n, port), vless_reality_link(st, n, port), vless_reality_tcp_link(st, n, port)}
           \/ p \in {telemt_link(st, n, port), mtg_link(st, n, port)}
    \/ p = hysteria2_link(st, n)
    \/ p \in {amneziawg_client_conf(st, n), wireguard_client_conf(st, n)}
    \/ p = openconnect_client_text(st, n)

\* What is written for a user, of a system he has, is a profile of his.
LEMMA WrittenProfiles ==
    ASSUME NEW st, NEW n \in enabled_users(st), NEW p, Written(st, n, p), p.system \in user_systems(st, n)
    PROVE  ProfileOf(st, p, n)
  <1>1. ASSUME NEW system, NEW sni, NEW port, p = Profile(st, n, system, sni, port)
        PROVE  p.system = system /\ p.sni = sni /\ p.port = port /\ IsProfile(p, st, n, p.system, p.sni, p.port)
    <2>1. IsProfile(p, st, n, system, sni, port)
      BY <1>1, ProfileFields
    <2>2. p.system = system /\ p.sni = sni /\ p.port = port
      BY <2>1 DEF IsProfile
    <2> QED BY <2>1, <2>2
  <1>2. ASSUME NEW port, p \in {vless_tls_link(st, n, port), vless_reality_link(st, n, port), vless_reality_tcp_link(st, n, port)}
        PROVE  ProfileOf(st, p, n)
    <2>1. PICK s \in Xray : p = Profile(st, n, s, user_sni(st, n, s), port)
      BY <1>2 DEF Xray, REALITY_SYSTEMS, vless_tls_link, vless_reality_link, vless_reality_tcp_link
    <2>2. p.system = s /\ p.sni = user_sni(st, n, s) /\ IsProfile(p, st, n, p.system, p.sni, p.port)
      BY <1>1, <2>1
    <2> QED BY <2>2 DEF ProfileOf
  <1>3. ASSUME NEW port, p \in {telemt_link(st, n, port), mtg_link(st, n, port)}
        PROVE  ProfileOf(st, p, n)
    <2>1. PICK s \in MTPROTO_SYSTEMS : p = Profile(st, n, s, system_sni(st, s), port)
      BY <1>3 DEF MTPROTO_SYSTEMS, telemt_link, mtg_link
    <2>2. p.system = s /\ p.sni = system_sni(st, s) /\ IsProfile(p, st, n, p.system, p.sni, p.port)
      BY <1>1, <2>1
    <2> QED BY <2>2 DEF ProfileOf
  <1>4. CASE p = hysteria2_link(st, n)
    <2>1. p = Profile(st, n, "hysteria", user_sni(st, n, "hysteria"), "direct")
      BY <1>4 DEF hysteria2_link
    <2>2. p.system = "hysteria" /\ p.port = "direct" /\ IsProfile(p, st, n, p.system, p.sni, p.port)
      BY <1>1, <2>1
    <2> QED BY <2>2 DEF ProfileOf
  <1>5. CASE p \in {amneziawg_client_conf(st, n), wireguard_client_conf(st, n)}
    <2>1. PICK s \in TUNNELS : p = Profile(st, n, s, "", "direct")
      BY <1>5 DEF TUNNELS, amneziawg_client_conf, wireguard_client_conf
    <2>2. p.system = s /\ p.port = "direct" /\ IsProfile(p, st, n, p.system, p.sni, p.port)
      BY <1>1, <2>1
    <2> QED BY <2>2 DEF ProfileOf
  <1>6. CASE p = openconnect_client_text(st, n)
    <2>1. p = Profile(st, n, "ocserv", st.ocserv_sni, ocserv_public_tcp_port(st))
      BY <1>6 DEF openconnect_client_text
    <2>2. /\ p.system = "ocserv" /\ p.sni = st.ocserv_sni /\ p.port = ocserv_public_tcp_port(st)
          /\ IsProfile(p, st, n, p.system, p.sni, p.port)
      BY <1>1, <2>1
    <2> QED BY <2>2 DEF ProfileOf
  <1> QED BY <1>2, <1>3, <1>4, <1>5, <1>6 DEF Written

\* The files and the subscriptions hold nothing else.
LEMMA FilesAreWritten ==
    ASSUME NEW st, NEW n
    PROVE  /\ \A p \in uri_list_for_systems(st, n, user_systems(st, n)) :
                  Written(st, n, p) /\ p.system \in user_systems(st, n)
           /\ \A p \in direct_uri_list_for_user(st, n) : Written(st, n, p) /\ p.system \in user_systems(st, n)
           /\ \A p \in singbox_subscription(st, n) : Written(st, n, p) /\ p.system \in user_systems(st, n)
           /\ \A p \in Single(st, n) : Written(st, n, p)
  <1>1. \A p \in uri_list_for_systems(st, n, user_systems(st, n)) :
            Written(st, n, p) /\ p.system \in user_systems(st, n)
    BY DEF uri_list_for_systems, Written
  <1>2. \A p \in direct_uri_list_for_user(st, n) : Written(st, n, p) /\ p.system \in user_systems(st, n)
    BY DEF direct_uri_list_for_user, Written
  <1>3. \A p \in singbox_subscription(st, n) : Written(st, n, p) /\ p.system \in user_systems(st, n)
    BY <1>1, <1>2 DEF singbox_subscription
  <1>4. ASSUME NEW p \in Single(st, n) PROVE Written(st, n, p)
    <2>1. CASE p \in {hysteria_client_yaml(st, n), xray_hysteria2_json(st, n), amneziawg_client_conf(st, n),
                      wireguard_client_conf(st, n), openconnect_client_text(st, n)}
      BY <2>1 DEF Written, hysteria_client_yaml, xray_hysteria2_json, hysteria2_link
    <2>2. CASE p \in UNION {{client_json_tls(st, n, port), client_json_reality(st, n, port),
                             client_json_reality_tcp(st, n, port), telemt_link(st, n, port), mtg_link(st, n, port)} :
                                port \in {"443", "direct"}}
      <3>1. PICK port \in {"443", "direct"} :
                p \in {client_json_tls(st, n, port), client_json_reality(st, n, port),
                       client_json_reality_tcp(st, n, port), telemt_link(st, n, port), mtg_link(st, n, port)}
        BY <2>2
      <3> QED BY <3>1 DEF Written, client_json_tls, client_json_reality, client_json_reality_tcp,
                          vless_tls_link, vless_reality_link, vless_reality_tcp_link
    <2> QED BY <2>1, <2>2 DEF Single
  <1> QED BY <1>1, <1>2, <1>3, <1>4

\* The profiles of a user, in his directory and in the subscriptions of his token, are
\* those that were written for a user who has their system.
LEMMA ProfilesAreOf ==
    ASSUME DInv, whole, NEW n \in enabled_users(state), NEW p \in Profiles(n)
    PROVE  \E m \in enabled_users(state) : ProfileOf(state, p, m)
  <1>1. Rendered(state, files)
    BY DEF DInv
  <1>2. CASE p \in files.clients[n] /\ p.system \in user_systems(state, n)
    <2>1. PICK old : files.clients = write_client_files(state, old)
      BY <1>1, RenderedFiles
    <2> DEFINE kept == IF n \in DOMAIN old
                       THEN {q \in old[n] : q.system \in (Xray \cup {"hysteria"}) \ user_systems(state, n)} ELSE {}
    <2>2. files.clients[n] = {q \in Single(state, n) : q.system \in user_systems(state, n)}
                             \cup singbox_subscription(state, n)
                             \cup uri_list_for_systems(state, n, user_systems(state, n))
                             \cup direct_uri_list_for_user(state, n) \cup kept
      BY <2>1 DEF write_client_files
    <2>3. p \notin kept
      BY <1>2
    <2> HIDE DEF kept
    <2>4. Written(state, n, p)
      BY <1>2, <2>2, <2>3, FilesAreWritten
    <2> QED BY <1>2, <2>4, WrittenProfiles
  <1>3. CASE \E w \in files.web : p \in w.profiles
    <2>1. PICK w \in WebFiles(state) : p \in w.profiles
      BY <1>1, <1>3, RenderedFiles
    <2>2. CASE \E m \in enabled_users(state) :
                   w = [path |-> "uri", token |-> state.users[m].token,
                        profiles |-> uri_list_for_systems(state, m, user_systems(state, m))]
      <3>1. PICK m \in enabled_users(state) :
                w = [path |-> "uri", token |-> state.users[m].token,
                     profiles |-> uri_list_for_systems(state, m, user_systems(state, m))]
        BY <2>2
      <3>2. p \in uri_list_for_systems(state, m, user_systems(state, m))
        BY <2>1, <3>1
      <3>3. Written(state, m, p) /\ p.system \in user_systems(state, m)
        BY <3>2, FilesAreWritten
      <3> QED BY <3>3, WrittenProfiles
    <2>3. CASE \E m \in Having(state, "wireguard") :
                   w = [path |-> "wg", token |-> state.users[m].token, profiles |-> {karing_wireguard_yaml(state, m)}]
      <3>1. PICK m \in Having(state, "wireguard") :
                w = [path |-> "wg", token |-> state.users[m].token, profiles |-> {karing_wireguard_yaml(state, m)}]
        BY <2>3
      <3>2. p = karing_wireguard_yaml(state, m)
        BY <2>1, <3>1
      <3>3. p = wireguard_client_conf(state, m)
        BY <3>2 DEF karing_wireguard_yaml, wireguard_client_conf
      <3>4. Written(state, m, p)
        BY <3>3 DEF Written
      <3>5. p.system = "wireguard"
        <4>1. IsProfile(Profile(state, m, "wireguard", "", "direct"), state, m, "wireguard", "", "direct")
          BY ProfileFields
        <4> QED BY <3>3, <4>1 DEF wireguard_client_conf, IsProfile
      <3>6. m \in enabled_users(state) /\ p.system \in user_systems(state, m)
        BY <3>5 DEF Having
      <3> QED BY <3>4, <3>6, WrittenProfiles
    <2> QED BY <2>1, <2>2, <2>3 DEF WebFiles
  <1> QED BY <1>2, <1>3 DEF Profiles

(***************************************************************************)
(* Every profile is served.                                                *)
(***************************************************************************)

\* The SNI of MTG.
LEMMA mtgFields ==
    ASSUME NEW st
    PROVE  mtg_config_text(st).sni = system_sni(st, "mtg")
  <1>1. PICK alias : alias = IF "mtg" \in st.local_site THEN system_sni(st, "mtg") ELSE ""
    OBVIOUS
  <1>2. mtg_config_text(st) = [sni |-> system_sni(st, "mtg"), alias |-> alias]
    BY <1>1 DEF mtg_config_text
  <1> QED BY <1>2

\* The map and the fallback of nginx.
LEMMA nginxFields ==
    ASSUME NEW st
    PROVE  /\ render_nginx(st).map = all_sni_aliases(st)
           /\ render_nginx(st).fallback = IF st.ocserv_sni = "" THEN "ocserv" ELSE Site
  <1>1. PICK m, f : m = all_sni_aliases(st) /\ f = IF st.ocserv_sni = "" THEN "ocserv" ELSE Site
    OBVIOUS
  <1>2. render_nginx(st) = [map |-> m, fallback |-> f]
    BY <1>1 DEF render_nginx
  <1>3. render_nginx(st).map = m /\ render_nginx(st).fallback = f
    BY <1>2
  <1> QED BY <1>1, <1>3

\* What the services know of a user's profile.
LEMMA ProfilesAreAdmitted ==
    ASSUME DInv, whole, NEW p, NEW n, ProfileOf(state, p, n)
    PROVE  Admits(p) \/ Excepted(p)
  <1>a. /\ p.system \in Xray => p.system \notin TUNNELS \cup MTPROTO_SYSTEMS \cup {"hysteria", "ocserv"}
        /\ p.system \in TUNNELS => p.system \notin Xray \cup MTPROTO_SYSTEMS \cup {"hysteria", "ocserv"}
        /\ p.system \in MTPROTO_SYSTEMS => p.system \notin Xray \cup TUNNELS \cup {"hysteria", "ocserv"}
        /\ p.system \in {"hysteria", "ocserv"} => p.system \notin Xray \cup TUNNELS \cup MTPROTO_SYSTEMS
        /\ {"telemt", "mtg"} = MTPROTO_SYSTEMS
    BY DEF Xray, REALITY_SYSTEMS, TUNNELS, MTPROTO_SYSTEMS
  <1>1. Rendered(state, files) /\ Prepared(state) /\ validate_sni_uniqueness(state)
    BY DEF DInv, Rendered, Valid
  <1>2. /\ n \in enabled_users(state) /\ n \in Present(state) /\ p.system \in user_systems(state, n)
        /\ n \in Having(state, p.system)
    BY DEF ProfileOf, enabled_users, Having
  <1>3. /\ p.credential = Credential(state, n, p.system)
        /\ p.address = IF p.system \in TUNNELS THEN state.users[n].address[p.system] ELSE 0
        /\ p.parameter = CASE p.system = "reality-xhttp" -> state.xhttp_mode
                           [] p.system = "amneziawg" -> state.protocol_version
                           [] OTHER -> ""
    BY DEF ProfileOf, IsProfile
  <1>4. p.credential \in client_entries(state, p.system)
    BY <1>2, <1>3 DEF client_entries
  <1>5. CASE p.system \in Xray
    <2>1. p.credential \in files.xray[p.system].clients
      BY <1>1, <1>4, <1>5, RenderedFiles
    <2>2. p.parameter = files.xray[p.system].parameter
      <3>1. CASE p.system = "tls"
        <4>1. files.xray[p.system].parameter = ""
          BY <1>1, <3>1, RenderedFiles
        <4> QED BY <1>3, <3>1, <4>1
      <3>2. CASE p.system \in REALITY_SYSTEMS
        <4>1. files.xray[p.system].parameter = IF p.system = "reality-xhttp" THEN state.xhttp_mode ELSE ""
          <5>1. RenderedReality(state, files, p.system)
            BY <1>1, <3>2, RenderedFiles
          <5> QED BY <5>1 DEF RenderedReality
        <4>2. p.parameter = IF p.system = "reality-xhttp" THEN state.xhttp_mode ELSE ""
          BY <1>3, <3>2 DEF REALITY_SYSTEMS
        <4> QED BY <4>1, <4>2
      <3> QED BY <1>5, <3>1, <3>2 DEF Xray
    <2>3. ASSUME p.system \in REALITY_SYSTEMS PROVE p.sni \in files.xray[p.system].names \/ Excepted(p)
      <3>1. p.sni = user_sni(state, n, p.system)
        BY <1>5 DEF ProfileOf, MTPROTO_SYSTEMS, TUNNELS, Xray, REALITY_SYSTEMS
      <3>2. p.sni \in route_server_names(state, p.system)
        BY <1>1, <1>2, <2>3, <3>1 DEF validate_sni_uniqueness
      <3>3. files.xray[p.system].names = ServerNames(state, p.system)
        <4>1. RenderedReality(state, files, p.system)
          BY <1>1, <2>3, RenderedFiles
        <4> QED BY <4>1 DEF RenderedReality
      <3>4. CASE p.system # "reality-xhttp"
        BY <3>2, <3>3, <3>4 DEF ServerNames
      <3>5. CASE p.system = "reality-xhttp" /\ reality_mode(state, "reality-xhttp") = "self-steal"
        <4>1. files.xray[p.system].names = route_server_names(state, "reality-xhttp") \cap site_domains(state)
          BY <3>3, <3>5 DEF ServerNames, reality_xhttp_server_names
        <4>2. p.sni \in site_domains(state) \/ Excepted(p)
          BY <3>5 DEF Excepted
        <4> QED BY <3>2, <3>5, <4>1, <4>2
      <3>6. CASE p.system = "reality-xhttp" /\ reality_mode(state, "reality-xhttp") # "self-steal"
        <4>1. files.xray[p.system].names = state.reality_xhttp_server_names
          BY <3>3, <3>6 DEF ServerNames, reality_xhttp_server_names
        <4> QED BY <1>1, <3>2, <3>6, <4>1 DEF Prepared
      <3> QED BY <3>4, <3>5, <3>6
    <2> QED BY <1>5, <1>a, <2>1, <2>2, <2>3 DEF Admits
  <1>6. CASE p.system = "hysteria"
    <2>1. files.hysteria = client_entries(state, "hysteria")
      BY <1>1, RenderedFiles
    <2> QED BY <1>a, <1>4, <1>6, <2>1 DEF Admits
  <1>7. CASE p.system = "telemt"
    <2>1. files.telemt = telemt_config_text(state)
      BY <1>1, RenderedFiles
    <2>2. files.telemt.clients = client_entries(state, "telemt") /\ files.telemt.sni = system_sni(state, "telemt")
      BY <2>1 DEF telemt_config_text
    <2>3. p.sni = system_sni(state, "telemt")
      BY <1>a, <1>7 DEF ProfileOf
    <2> QED BY <1>a, <1>4, <1>7, <2>2, <2>3 DEF Admits
  <1>8. CASE p.system = "mtg"
    <2>1. files.mtg = mtg_config_text(state)
      BY <1>1, RenderedFiles
    <2>2. files.mtg.sni = system_sni(state, "mtg")
      BY <2>1, mtgFields
    <2>3. p.sni = system_sni(state, "mtg")
      BY <1>a, <1>8 DEF ProfileOf
    <2> QED BY <1>a, <1>8, <2>2, <2>3 DEF Admits
  <1>9. CASE p.system \in TUNNELS
    <2>1. files[p.system] = render_tunnel(state, p.system)
      BY <1>1, <1>9, RenderedFiles DEF TUNNELS, render_amneziawg, render_wireguard
    <2> DEFINE peers == {[credential |-> Credential(state, m, p.system), address |-> state.users[m].address[p.system]] :
                            m \in Having(state, p.system)}
               v == IF p.system = "amneziawg" THEN state.protocol_version ELSE ""
    <2>2. files[p.system] = [peers |-> peers, parameter |-> v]
      BY <2>1 DEF render_tunnel
    <2>3. files[p.system].peers = peers /\ files[p.system].parameter = v
      <3> HIDE DEF peers, v
      <3> QED BY <2>2
    <2>4. [credential |-> p.credential, address |-> p.address] \in peers
      BY <1>2, <1>3, <1>9
    <2>5. p.parameter = v
      BY <1>3, <1>9 DEF TUNNELS
    <2> HIDE DEF peers, v
    <2> QED BY <1>a, <1>9, <2>3, <2>4, <2>5 DEF Admits
  <1>10. CASE p.system = "ocserv"
    <2>1. files.ocserv = client_entries(state, "ocserv")
      BY <1>1, RenderedFiles
    <2> QED BY <1>a, <1>4, <1>10, <2>1 DEF Admits
  <1> QED BY <1>5, <1>6, <1>7, <1>8, <1>9, <1>10 DEF ProfileOf, MTPROTO_SYSTEMS

\* Where the router leads a user's profile.
LEMMA ProfilesAreRouted ==
    ASSUME DInv, whole, NEW p, NEW n, ProfileOf(state, p, n), p.port = "443"
    PROVE  Routed(p.sni) = p.system \/ Excepted(p)
  <1>1. /\ Rendered(state, files) /\ Ready(state) /\ ~ collisions(state)
    BY DEF DInv, Rendered, Valid, Good, Ready, validate_sni_uniqueness
  <1>2. /\ files.nginx.map = all_sni_aliases(state)
        /\ files.nginx.fallback = IF state.ocserv_sni = "" THEN "ocserv" ELSE Site
    <2>1. files.nginx = render_nginx(state)
      BY <1>1, RenderedFiles
    <2> QED BY <2>1, nginxFields
  <1>3. ASSUME NEW sni, NEW dest, NEW c \in NginxClaims(state), IsClaim(c, sni, dest)
        PROVE  Routed(sni) = dest
    <2>1. sni \in DOMAIN all_sni_aliases(state) /\ all_sni_aliases(state)[sni] = dest
      BY <1>1, <1>3, MapFollows DEF IsClaim
    <2> QED BY <1>2, <2>1 DEF Routed
  <1>4. n \in Names /\ n \in enabled_users(state) /\ p.system \in user_systems(state, n)
    BY DEF ProfileOf, enabled_users, Present
  <1>5. ASSUME p.system \in NGINX_ROUTED_SYSTEMS, p.sni = system_sni(state, p.system)
        PROVE  Routed(p.sni) = p.system \/ Excepted(p)
    <2>1. CASE state.routes[p.system].set
      <3>1. p.sni \in route_sni_choices(state, p.system)
        BY <1>5, <2>1 DEF route_sni_choices, route_server_names
      <3>2. Claim(p.sni, p.system, 1) \in RouteClaims(state)
        BY <1>5, <3>1, RouteClaimsAre
      <3>3. Claim(p.sni, p.system, 1) \in NginxClaims(state)
        BY <3>2 DEF NginxClaims
      <3>4. IsClaim(Claim(p.sni, p.system, 1), p.sni, p.system)
        BY ClaimFields
      <3> QED BY <1>3, <3>3, <3>4
    <2>2. CASE ~ state.routes[p.system].set
      BY <1>5, <2>2 DEF Excepted
    <2> QED BY <2>1, <2>2
  <1>6. CASE p.system \in Xray /\ p.sni = user_sni(state, n, p.system)
    <2>1. p.system \in NGINX_ROUTED_SYSTEMS
      BY <1>6 DEF NGINX_ROUTED_SYSTEMS, Xray
    <2>2. CASE p.system \in USER_SNI_OVERRIDE_SYSTEMS \cap DOMAIN state.users[n].overrides
      <3> DEFINE systems == [m \in Names |-> user_systems(state, m)]
                 dest == [s \in NGINX_ROUTED_SYSTEMS |-> s]
      <3>1. p.sni = state.users[n].overrides[p.system]
        BY <1>6, <2>2 DEF user_sni
      <3>2. p.system \in NGINX_ROUTED_SYSTEMS \cap DOMAIN state.users[n].overrides \cap systems[n]
        BY <1>4, <2>1, <2>2
      <3>3. dest[p.system] = p.system
        BY <2>1
      <3>4. Claim(p.sni, p.system, 2) \in NginxClaims(state)
        <4> HIDE DEF systems, dest
        <4>1. Claim(p.sni, dest[p.system], 2) \in UserClaims(state, enabled_users(state), systems, dest)
          BY <1>4, <3>1, <3>2, UserClaimsAre
        <4> QED BY <3>3, <4>1 DEF NginxClaims, systems, dest
      <3>5. IsClaim(Claim(p.sni, p.system, 2), p.sni, p.system)
        BY ClaimFields
      <3> QED BY <1>3, <3>4, <3>5
    <2>3. CASE p.system \notin USER_SNI_OVERRIDE_SYSTEMS \cap DOMAIN state.users[n].overrides
      <3>1. p.sni = system_sni(state, p.system)
        BY <1>6, <2>3 DEF user_sni
      <3> QED BY <1>5, <2>1, <3>1
    <2> QED BY <2>2, <2>3
  <1>7. CASE p.system \in MTPROTO_SYSTEMS /\ p.sni = system_sni(state, p.system)
    BY <1>5, <1>7 DEF NGINX_ROUTED_SYSTEMS
  <1>8. CASE p.system = "ocserv" /\ p.sni = state.ocserv_sni /\ p.port = ocserv_public_tcp_port(state)
    <2>1. CASE state.ocserv_sni = ""
      <3>1. "" \notin DOMAIN files.nginx.map
        BY <1>1, <1>2, MapFollows
      <3> QED BY <1>2, <1>8, <2>1, <3>1 DEF Routed
    <2>2. CASE state.ocserv_sni # ""
      <3>1. OcservSni(state) # {}
        BY <1>8, <2>2 DEF ocserv_public_tcp_port
      <3>2. p.sni \in OcservSni(state)
        BY <1>8, <2>2, <3>1 DEF OcservSni
      <3>3. Claim(p.sni, "ocserv", 4) \in NginxClaims(state)
        BY <3>2 DEF NginxClaims, OcservClaims
      <3>4. IsClaim(Claim(p.sni, "ocserv", 4), p.sni, "ocserv")
        BY ClaimFields
      <3> QED BY <1>3, <1>8, <3>3, <3>4
    <2> QED BY <2>1, <2>2
  <1>9. p.port # "direct"
    OBVIOUS
  <1> QED BY <1>6, <1>7, <1>8, <1>9 DEF ProfileOf

\* The domains of the site reach it.
LEMMA SiteIsReached ==
    ASSUME DInv, whole, NEW d \in site_domains(state)
    PROVE  \/ Routed(d) = Site
           \/ Routed(d) \in REALITY_SYSTEMS /\ files.xray[Routed(d)].target = LOCAL_REALITY_TARGET
  <1>1. /\ Rendered(state, files) /\ Ready(state) /\ ~ collisions(state)
    BY DEF DInv, Rendered, Valid, Good, Ready, validate_sni_uniqueness
  <1>2. files.nginx.map = all_sni_aliases(state)
    <2>1. files.nginx = render_nginx(state)
      BY <1>1, RenderedFiles
    <2> QED BY <2>1, nginxFields
  <1>3. PICK dest : dest = site_route_destination(state, d)
    OBVIOUS
  <1>4. Claim(d, dest, 5) \in NginxClaims(state)
    BY <1>3 DEF NginxClaims, SiteClaims
  <1>5. IsClaim(Claim(d, dest, 5), d, dest)
    BY ClaimFields
  <1>6. d \in DOMAIN all_sni_aliases(state) /\ all_sni_aliases(state)[d] = dest
    BY <1>1, <1>4, <1>5, MapFollows DEF IsClaim
  <1>7. Routed(d) = dest
    BY <1>2, <1>6 DEF Routed
  <1>8. CASE dest = Site
    BY <1>7, <1>8
  <1>9. CASE dest \in REALITY_SYSTEMS /\ reality_mode(state, dest) = "self-steal"
    <2>1. files.xray[dest].target = LOCAL_REALITY_TARGET
      <3>1. RenderedReality(state, files, dest)
        BY <1>1, <1>9, RenderedFiles
      <3> QED BY <1>9, <3>1 DEF RenderedReality
    <2> QED BY <1>7, <1>9, <2>1
  <1> QED BY <1>3, <1>8, <1>9, SiteDestination

\* Under the invariant every profile reaches its service.
LEMMA LinksServedWith ==
    ASSUME DInv PROVE LinksAreServed
  <1> SUFFICES ASSUME whole PROVE LinksAreServed
    BY DEF LinksAreServed
  <1>1. ASSUME NEW n \in enabled_users(state), NEW p \in Profiles(n) PROVE Answers(p) \/ Excepted(p)
    <2>1. PICK m \in enabled_users(state) : ProfileOf(state, p, m)
      BY ProfilesAreOf
    <2>2. Admits(p) \/ Excepted(p)
      BY <2>1, ProfilesAreAdmitted
    <2>3. p.port = "443" => Routed(p.sni) = p.system \/ Excepted(p)
      BY <2>1, ProfilesAreRouted
    <2> QED BY <2>2, <2>3 DEF Answers
  <1>2. \A d \in site_domains(state) :
            \/ Routed(d) = Site
            \/ Routed(d) \in REALITY_SYSTEMS /\ files.xray[Routed(d)].target = LOCAL_REALITY_TARGET
    BY SiteIsReached
  <1> QED BY <1>1, <1>2 DEF LinksAreServed

\* When the files are those of the state, every profile of a user reaches, through the SNI
\* router, the service it is for, which knows his key, his address, the SNI and the
\* parameters (or it is one of the exceptions the documentation and the setup name), and
\* every domain of the site reaches the site: for any users, domains, certificates, routes
\* and operations of the command line and the portal, refused or interrupted anywhere.
THEOREM LinksServed == DesiredSpec => []LinksAreServed
  BY DesiredInvariant, LinksServedWith, PTL
\* When the files are those of the state, a user who was removed, renamed, disabled, or lost
\* a system, a key or a token has no access left (render_all, write_client_files,
\* write_sub_web).
THEOREM AccessEnded == DesiredSpec => []AccessEnds
  BY DesiredInvariant, AccessEndsWith, PTL
===============================================================================
