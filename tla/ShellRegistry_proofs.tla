-------------------------- MODULE ShellRegistry_proofs --------------------------
(***************************************************************************)
(* What the registry of root shells guarantees for any number of threads,  *)
(* shells and owners: one shell for each owner, never more than            *)
(* MaxSessions, no shell at its terminal that nobody can find, and one way *)
(* to get stuck.                                                           *)
(***************************************************************************)
EXTENDS ShellRegistry, FiniteSetTheorems, TLAPS

\* What a thread at a step can rely on of its own request.
RequestInv ==
    \A t \in Threads :
        /\ thread[t].op \in OnShell \/ thread[t].pc \in {"lock", "inside", "drop"}
             => thread[t].shell \in Shells
        /\ thread[t].pc = "lookup" => thread[t].op \in OnShell
        /\ thread[t].pc = "pop" => thread[t].op = "close"
        /\ thread[t].pc = "enter" => thread[t].op \in Opens
        /\ thread[t].back \in {"idle", "enter", "lookup", "spawn"}
        /\ thread[t].back \in {"enter", "spawn"} => thread[t].op \in Opens
        /\ thread[t].back = "lookup" => thread[t].op \in OnShell

\* Who pops or adds shells holds root_shell_lock, and so does who closes them,
\* unless it closes the one shell it was asked to close.
HoldInv ==
    \A t \in Threads :
        /\ thread[t].pc \in {"closing", "spawn"} => registry = t
        /\ thread[t].pc \in {"barrier", "ending"} =>
              registry = t \/ (thread[t].op = "close" /\ thread[t].shell = thread[t].target)

\* A shell that is being closed was popped before.
TargetInv ==
    \A t \in Threads :
        /\ thread[t].target \notin registered
        /\ IF thread[t].pc \in {"barrier", "ending"} THEN thread[t].target \in Shells
                                                     ELSE thread[t].target = None
        /\ thread[t].pc = "drop" => process[thread[t].shell] # "attached"

\* While root_shell_lock is held for an open, the shells of the owner that are still
\* registered are those still to be closed; when a shell is spawned there is none.
PlaceInv ==
    \A t \in Threads :
        /\ thread[t].pc \in {"closing", "barrier", "ending"} /\ thread[t].back = "spawn" =>
              \A s \in registered : owner[s] = thread[t].who => s \in thread[t].todo
        /\ thread[t].pc = "spawn" => \A s \in registered : owner[s] # thread[t].who

\* The two parts of OneShellPerOwner.
OnePerOwner == \A r, s \in registered : owner[r] = owner[s] => r = s
AtMostMax == Cardinality(registered) <= MaxSessions

IInv == TypeOK /\ RequestInv /\ HoldInv /\ TargetInv /\ PlaceInv /\ NoShellIsLost /\ OneShellPerOwner

\* The type of a request.
Req == [pc : Steps, op : Operations, who : Owners \cup {None}, shell : Shells \cup {None},
        todo : SUBSET Shells, target : Shells \cup {None}, back : Steps]

\* A step of t changes the request of t and no other.
Moves(t, q) ==
    /\ thread' \in [Threads -> Req] /\ thread'[t] = q
    /\ \A u \in Threads : u # t => thread'[u] = thread[u]

\* An update of the request of one thread.
LEMMA Update ==
  ASSUME thread \in [Threads -> Req], NEW t \in Threads, NEW q \in Req,
         thread' = [thread EXCEPT ![t] = q]
  PROVE  Moves(t, q)
  BY DEF Moves

\* A thread without a request.
LEMMA IdleType == Idle \in Req
  BY DEF Idle, Req, Steps, Operations

\* What each action does to the request of its thread.
LEMMA BeginEffect ==
  ASSUME TypeOK, NEW t \in Threads, NEW op \in Operations, Begin(t, op)
  PROVE  \E q \in Req :
            /\ Moves(t, q)
            /\ q.pc = "cleanup" /\ q.op = op /\ q.target = None /\ q.back = "idle"
            /\ op \in OnShell => q.shell \in Shells
<1>1. CASE op = "reap"
  <2> DEFINE q == [Idle EXCEPT !.pc = "cleanup", !.op = op]
  <2>1. q \in Req
    BY <1>1 DEF Idle, Req, Steps, Operations
  <2>2. thread' = [thread EXCEPT ![t] = q]
    BY <1>1 DEF Begin, Opens, OnShell
  <2>3. q.pc = "cleanup" /\ q.op = op /\ q.target = None /\ q.back = "idle"
    BY DEF Idle
  <2> HIDE DEF q
  <2> QED BY <1>1, <2>1, <2>2, <2>3, Update DEF TypeOK, Req, OnShell
<1>2. CASE op \in Opens
  <2>1. PICK o \in Owners :
          thread' = [thread EXCEPT ![t] = [Idle EXCEPT !.pc = "cleanup", !.op = op, !.who = o]]
    BY <1>2 DEF Begin, Opens, OnShell
  <2> DEFINE q == [Idle EXCEPT !.pc = "cleanup", !.op = op, !.who = o]
  <2>2. q \in Req
    BY DEF Idle, Req, Steps
  <2>3. q.pc = "cleanup" /\ q.op = op /\ q.target = None /\ q.back = "idle"
    BY DEF Idle
  <2>4. thread' = [thread EXCEPT ![t] = q]
    BY <2>1
  <2> HIDE DEF q
  <2> QED BY <1>2, <2>2, <2>3, <2>4, Update DEF TypeOK, Req, OnShell, Opens
<1>3. CASE op \in OnShell
  <2>1. PICK s \in Shells :
          thread' = [thread EXCEPT ![t] = [Idle EXCEPT !.pc = "cleanup", !.op = op,
                                                       !.who = owner[s], !.shell = s]]
    BY <1>3 DEF Begin, Opens, OnShell
  <2> DEFINE q == [Idle EXCEPT !.pc = "cleanup", !.op = op, !.who = owner[s], !.shell = s]
  <2>2. q \in Req
    BY DEF TypeOK, Idle, Req, Steps
  <2>3. q.pc = "cleanup" /\ q.op = op /\ q.target = None /\ q.back = "idle" /\ q.shell = s
    BY DEF Idle
  <2>4. thread' = [thread EXCEPT ![t] = q]
    BY <2>1
  <2> HIDE DEF q
  <2> QED BY <2>2, <2>3, <2>4, Update DEF TypeOK, Req
<1> QED BY <1>1, <1>2, <1>3 DEF Operations

\* The request q is r at another step, with the fields in changed different.
Same(q, r) == q.op = r.op /\ q.who = r.who /\ q.shell = r.shell

LEMMA GotoEffect ==
  ASSUME TypeOK, NEW t \in Threads, NEW pc \in Steps, Goto(t, pc)
  PROVE  \E q \in Req :
            /\ Moves(t, q)
            /\ q.pc = pc /\ Same(q, thread[t]) /\ q.todo = thread[t].todo
            /\ q.target = thread[t].target /\ q.back = thread[t].back
<1> DEFINE q == [thread[t] EXCEPT !.pc = pc]
<1>1. thread[t] \in Req
  BY DEF TypeOK, Req
<1>2. q \in Req /\ q.pc = pc /\ Same(q, thread[t]) /\ q.todo = thread[t].todo
      /\ q.target = thread[t].target /\ q.back = thread[t].back
  BY <1>1 DEF Req, Same
<1>3. thread' = [thread EXCEPT ![t] = q]
  BY DEF Goto
<1> HIDE DEF q
<1> QED BY <1>2, <1>3, Update DEF TypeOK, Req

LEMMA ReturnEffect ==
  ASSUME TypeOK, NEW t \in Threads, Return(t)
  PROVE  Moves(t, Idle)
  BY IdleType, Update DEF Return, TypeOK, Req

LEMMA CleanupEffect ==
  ASSUME TypeOK, NEW t \in Threads, Cleanup(t)
  PROVE  \E q \in Req :
            /\ Moves(t, q)
            /\ q.pc = "closing" /\ Same(q, thread[t]) /\ q.target = thread[t].target
            /\ \/ q.back = "idle"
               \/ q.back = "enter" /\ q.op \in Opens
               \/ q.back = "lookup" /\ q.op \in OnShell
<1>1. PICK expired \in SUBSET registered :
        thread' = [thread EXCEPT ![t] =
                     [thread[t] EXCEPT !.pc = "closing", !.todo = expired, !.back = AfterCleanup(t)]]
  BY DEF Cleanup
<1> DEFINE q == [thread[t] EXCEPT !.pc = "closing", !.todo = expired, !.back = AfterCleanup(t)]
<1>2. thread[t] \in Req
  BY DEF TypeOK, Req
<1>3. /\ AfterCleanup(t) \in Steps
      /\ \/ AfterCleanup(t) = "idle"
         \/ AfterCleanup(t) = "enter" /\ thread[t].op \in Opens
         \/ AfterCleanup(t) = "lookup" /\ thread[t].op \in OnShell
  BY <1>2 DEF AfterCleanup, Steps, Req, Operations, Opens, OnShell
<1>4. expired \in SUBSET Shells
  BY DEF TypeOK
<1>5. q \in Req /\ q.pc = "closing" /\ Same(q, thread[t]) /\ q.target = thread[t].target
      /\ q.back = AfterCleanup(t)
  <2> HIDE DEF AfterCleanup
  <2>1. "closing" \in Steps
    BY DEF Steps
  <2> QED BY <1>2, <1>3, <1>4, <2>1 DEF Req, Same
<1>6. thread' = [thread EXCEPT ![t] = q]
  BY <1>1
<1> HIDE DEF q
<1>7. Moves(t, q)
  BY <1>5, <1>6, Update DEF TypeOK, Req
<1> QED BY <1>3, <1>5, <1>7 DEF Same

LEMMA EnterEffect ==
  ASSUME TypeOK, NEW t \in Threads, Enter(t)
  PROVE  \E q \in Req :
            /\ Moves(t, q)
            /\ q.pc = "closing" /\ Same(q, thread[t]) /\ q.target = thread[t].target
            /\ q.back = "spawn"
            /\ q.todo = {s \in registered : owner[s] = thread[t].who \/ closed[s]}
<1> DEFINE T == {s \in registered : owner[s] = thread[t].who \/ closed[s]}
           q == [thread[t] EXCEPT !.pc = "closing", !.back = "spawn", !.todo = T]
<1>1. thread[t] \in Req /\ T \in SUBSET Shells
  BY DEF TypeOK, Req
<1>2. thread' = [thread EXCEPT ![t] = q]
  BY DEF Enter
<1>3. q \in Req /\ q.pc = "closing" /\ Same(q, thread[t]) /\ q.target = thread[t].target
      /\ q.back = "spawn" /\ q.todo = T
  <2> HIDE DEF T
  <2>1. "closing" \in Steps /\ "spawn" \in Steps
    BY DEF Steps
  <2> QED BY <1>1, <2>1 DEF Req, Same
<1> HIDE DEF q
<1> QED BY <1>2, <1>3, Update DEF TypeOK, Req


LEMMA BarrierMoves ==
  ASSUME TypeOK, NEW t \in Threads, Barrier(t)
  PROVE  /\ thread[t].pc = "barrier"
         /\ \E q \in Req : /\ Moves(t, q)
                           /\ q.pc = "ending" /\ Same(q, thread[t]) /\ q.todo = thread[t].todo
                           /\ q.target = thread[t].target /\ q.back = thread[t].back
<1>1. "ending" \in Steps
  BY DEF Steps
<1> QED BY <1>1, GotoEffect DEF Barrier, At

LEMMA LookupMoves ==
  ASSUME TypeOK, NEW t \in Threads, Lookup(t)
  PROVE  /\ thread[t].pc = "lookup"
         /\ \/ Moves(t, Idle)
            \/ \E q \in Req : /\ Moves(t, q)
                              /\ q.pc \in {"pop", "lock"} /\ (q.pc = "pop" => q.op = "close")
                              /\ Same(q, thread[t]) /\ q.todo = thread[t].todo
                              /\ q.target = thread[t].target /\ q.back = thread[t].back
<1>1. "pop" \in Steps /\ "lock" \in Steps
  BY DEF Steps
<1>2. CASE Return(t)
  BY <1>2, ReturnEffect DEF Lookup, At
<1>3. CASE Goto(t, "pop") /\ thread[t].op = "close"
  BY <1>1, <1>3, GotoEffect DEF Lookup, At, Same
<1>4. CASE Goto(t, "lock")
  BY <1>1, <1>4, GotoEffect DEF Lookup, At
<1> QED BY <1>2, <1>3, <1>4 DEF Lookup

LEMMA LockMoves ==
  ASSUME TypeOK, NEW t \in Threads, Lock(t)
  PROVE  /\ thread[t].pc = "lock"
         /\ \E q \in Req : /\ Moves(t, q)
                           /\ q.pc = "inside" /\ Same(q, thread[t]) /\ q.todo = thread[t].todo
                           /\ q.target = thread[t].target /\ q.back = thread[t].back
<1>1. "inside" \in Steps
  BY DEF Steps
<1> QED BY <1>1, GotoEffect DEF Lock, At

LEMMA FindEndedMoves ==
  ASSUME TypeOK, NEW t \in Threads, FindEnded(t)
  PROVE  /\ thread[t].pc = "inside" /\ process[thread[t].shell] # "attached"
         /\ \E q \in Req : /\ Moves(t, q)
                           /\ q.pc = "drop" /\ Same(q, thread[t]) /\ q.todo = thread[t].todo
                           /\ q.target = thread[t].target /\ q.back = thread[t].back
<1>1. "drop" \in Steps
  BY DEF Steps
<1> QED BY <1>1, GotoEffect DEF FindEnded, At

LEMMA LeaveMoves ==
  ASSUME TypeOK, NEW t \in Threads, Leave(t) \/ Drop(t)
  PROVE  thread[t].pc \in {"inside", "drop"} /\ Moves(t, Idle)
  BY ReturnEffect DEF Leave, Drop, At

LEMMA CloseNextEffect ==
  ASSUME TypeOK, NEW t \in Threads, CloseNext(t)
  PROVE  /\ thread[t].pc = "closing"
         /\ \/ \E q \in Req, s \in thread[t].todo :
                  /\ Moves(t, q) /\ s \in Shells
                  /\ q.pc = "barrier" /\ Same(q, thread[t]) /\ q.target = s
                  /\ q.back = thread[t].back /\ q.todo = thread[t].todo \ {s}
                  /\ registered' = registered \ {s} /\ UNCHANGED <<registry, owner, process>>
            \/ \E q \in Req :
                  /\ Moves(t, q) /\ thread[t].todo = {}
                  /\ q.pc = thread[t].back /\ Same(q, thread[t]) /\ q.todo = thread[t].todo
                  /\ q.target = thread[t].target /\ q.back = thread[t].back
                  /\ registry' = IF thread[t].back = "spawn" THEN registry ELSE None
                  /\ UNCHANGED <<registered, owner, process>>
<1>1. thread[t] \in Req
  BY DEF TypeOK, Req
<1>2. ASSUME NEW s \in thread[t].todo,
             registered' = registered \ {s},
             thread' = [thread EXCEPT ![t] = [thread[t] EXCEPT !.pc = "barrier",
                                                !.todo = thread[t].todo \ {s}, !.target = s]],
             UNCHANGED <<registry, owner, process, streamed>>
      PROVE  \E q \in Req, r \in thread[t].todo :
               /\ Moves(t, q) /\ r \in Shells
               /\ q.pc = "barrier" /\ Same(q, thread[t]) /\ q.target = r
               /\ q.back = thread[t].back /\ q.todo = thread[t].todo \ {r}
               /\ registered' = registered \ {r} /\ UNCHANGED <<registry, owner, process>>
  <2>1. s \in Shells /\ thread[t].todo \ {s} \in SUBSET Shells
    BY <1>1 DEF Req
  <2> DEFINE q == [thread[t] EXCEPT !.pc = "barrier", !.todo = thread[t].todo \ {s}, !.target = s]
  <2>2. q \in Req /\ q.pc = "barrier" /\ Same(q, thread[t]) /\ q.target = s
        /\ q.back = thread[t].back /\ q.todo = thread[t].todo \ {s}
    BY <1>1, <2>1 DEF Req, Same, Steps
  <2>3. thread' = [thread EXCEPT ![t] = q]
    BY <1>2
  <2> HIDE DEF q
  <2>4. Moves(t, q)
    BY <2>2, <2>3, Update DEF TypeOK, Req
  <2> QED BY <1>2, <2>1, <2>2, <2>4
<1>3. ASSUME thread[t].todo = {}, Goto(t, thread[t].back), UNCHANGED shells,
             IF thread[t].back = "spawn" THEN UNCHANGED registry ELSE registry' = None
      PROVE  \E q \in Req :
               /\ Moves(t, q) /\ thread[t].todo = {}
               /\ q.pc = thread[t].back /\ Same(q, thread[t]) /\ q.todo = thread[t].todo
               /\ q.target = thread[t].target /\ q.back = thread[t].back
               /\ registry' = IF thread[t].back = "spawn" THEN registry ELSE None
               /\ UNCHANGED <<registered, owner, process>>
  <2>1. thread[t].back \in Steps
    BY <1>1 DEF Req
  <2>2. PICK q \in Req :
            /\ Moves(t, q)
            /\ q.pc = thread[t].back /\ Same(q, thread[t]) /\ q.todo = thread[t].todo
            /\ q.target = thread[t].target /\ q.back = thread[t].back
    BY <1>3, <2>1, GotoEffect
  <2>3. UNCHANGED <<registered, owner, process>>
    BY <1>3 DEF shells
  <2> QED BY <1>3, <2>2, <2>3
<1> QED BY <1>2, <1>3 DEF CloseNext, At

LEMMA PopEffect ==
  ASSUME TypeOK, NEW t \in Threads, Pop(t), thread[t].shell \in Shells
  PROVE  \E q \in Req :
            /\ Moves(t, q)
            /\ q.pc = "barrier" /\ Same(q, thread[t]) /\ q.target = thread[t].shell
            /\ q.back = thread[t].back /\ q.todo = thread[t].todo
<1> DEFINE q == [thread[t] EXCEPT !.pc = "barrier", !.target = thread[t].shell]
<1>1. thread[t] \in Req
  BY DEF TypeOK, Req
<1>2. q \in Req /\ q.pc = "barrier" /\ Same(q, thread[t]) /\ q.target = thread[t].shell
      /\ q.back = thread[t].back /\ q.todo = thread[t].todo
  BY <1>1 DEF Req, Same, Steps
<1>3. thread' = [thread EXCEPT ![t] = q]
  BY DEF Pop
<1> HIDE DEF q
<1> QED BY <1>2, <1>3, Update DEF TypeOK, Req

LEMMA EndProcessEffect ==
  ASSUME TypeOK, NEW t \in Threads, EndProcess(t)
  PROVE  \/ /\ Moves(t, Idle)
            /\ thread[t].op = "close" /\ thread[t].shell = thread[t].target /\ registry # t
         \/ /\ ~(thread[t].op = "close" /\ thread[t].shell = thread[t].target /\ registry # t)
            /\ \E q \in Req :
                 /\ Moves(t, q)
                 /\ q.pc = "closing" /\ Same(q, thread[t]) /\ q.target = None
                 /\ q.back = thread[t].back /\ q.todo = thread[t].todo
<1>1. CASE thread[t].op = "close" /\ thread[t].shell = thread[t].target /\ registry # t
  <2>1. thread' = [thread EXCEPT ![t] = Idle]
    BY <1>1 DEF EndProcess, ClosesOwn
  <2> QED BY <1>1, <2>1, IdleType, Update DEF TypeOK, Req
<1>2. CASE ~(thread[t].op = "close" /\ thread[t].shell = thread[t].target /\ registry # t)
  <2> DEFINE q == [thread[t] EXCEPT !.pc = "closing", !.target = None]
  <2>1. thread[t] \in Req
    BY DEF TypeOK, Req
  <2>2. q \in Req /\ q.pc = "closing" /\ Same(q, thread[t]) /\ q.target = None
        /\ q.back = thread[t].back /\ q.todo = thread[t].todo
    BY <2>1 DEF Req, Same, Steps
  <2>3. thread' = [thread EXCEPT ![t] = q]
    BY <1>2 DEF EndProcess, ClosesOwn
  <2> HIDE DEF q
  <2> QED BY <1>2, <2>2, <2>3, Update DEF TypeOK, Req
<1> QED BY <1>1, <1>2

LEMMA EndRaisesMoves ==
  ASSUME TypeOK, NEW t \in Threads, EndRaises(t)
  PROVE  Moves(t, Idle)
  BY ReturnEffect DEF EndRaises

LEMMA SpawnEffect ==
  ASSUME TypeOK, NEW t \in Threads, Spawn(t)
  PROVE  /\ thread[t].pc = "spawn" /\ registry' = None
         /\ \/ Moves(t, Idle) /\ UNCHANGED <<registered, owner, process>>
            \/ \E q \in Req, s \in Shells :
                  /\ Moves(t, q)
                  /\ q.pc = "lock" /\ q.shell = s /\ q.op = thread[t].op
                  /\ q.target = thread[t].target /\ q.back = thread[t].back /\ q.todo = thread[t].todo
                  /\ Cardinality(registered) < MaxSessions /\ s \notin registered
                  /\ \A u \in Threads : thread[u].shell # s /\ thread[u].target # s
                  /\ registered' = registered \cup {s}
                  /\ owner' = [owner EXCEPT ![s] = thread[t].who]
                  /\ process' = [process EXCEPT ![s] = "attached"]
<1>0. thread[t].pc = "spawn" /\ registry' = None
  BY DEF Spawn, At
<1>1. CASE Return(t) /\ UNCHANGED shells
  BY <1>0, <1>1, ReturnEffect DEF shells
<1>2. CASE ~(Return(t) /\ UNCHANGED shells)
  <2>1. PICK s \in Shells :
          /\ Cardinality(registered) < MaxSessions /\ IsFree(s)
          /\ registered' = registered \cup {s}
          /\ owner' = [owner EXCEPT ![s] = thread[t].who]
          /\ process' = [process EXCEPT ![s] = "attached"]
          /\ thread' = [thread EXCEPT ![t] = [thread[t] EXCEPT !.pc = "lock", !.shell = s]]
    BY <1>2 DEF Spawn
  <2> DEFINE q == [thread[t] EXCEPT !.pc = "lock", !.shell = s]
  <2>2. thread[t] \in Req
    BY DEF TypeOK, Req
  <2>3. q \in Req /\ q.pc = "lock" /\ q.shell = s /\ q.op = thread[t].op
        /\ q.target = thread[t].target /\ q.back = thread[t].back /\ q.todo = thread[t].todo
    BY <2>2 DEF Req, Steps
  <2>4. thread' = [thread EXCEPT ![t] = q]
    BY <2>1
  <2> HIDE DEF q
  <2>5. Moves(t, q)
    BY <2>3, <2>4, Update DEF TypeOK, Req
  <2>6. s \notin registered /\ \A u \in Threads : thread[u].shell # s /\ thread[u].target # s
    BY <2>1 DEF IsFree, Mentions
  <2> QED BY <1>0, <2>1, <2>3, <2>5, <2>6
<1> QED BY <1>1, <1>2

\* Of TypeOK, what the steps below need.
LEMMA Types ==
  ASSUME TypeOK
  PROVE  /\ registered \subseteq Shells
         /\ owner \in [Shells -> Owners \cup {None}] /\ process \in [Shells -> {"ended", "attached", "astray"}]
  BY DEF TypeOK
\* What each action does besides.
LEMMA BeginFrame ==
  ASSUME NEW t \in Threads, NEW op \in Operations, Begin(t, op)
  PROVE  thread[t].pc = "idle" /\ UNCHANGED <<registry, registered, owner, process>>
  BY DEF Begin, At, locks, shells

LEMMA CleanupFrame ==
  ASSUME NEW t \in Threads, Cleanup(t)
  PROVE  /\ thread[t].pc = "cleanup" /\ registry = None /\ registry' = t
         /\ UNCHANGED <<registered, owner, process>>
  BY DEF Cleanup, At, TakeRegistry, shells

LEMMA EnterFrame ==
  ASSUME NEW t \in Threads, Enter(t)
  PROVE  /\ thread[t].pc = "enter" /\ registry = None /\ registry' = t
         /\ UNCHANGED <<registered, owner, process>>
  BY DEF Enter, At, TakeRegistry, shells

LEMMA EndProcessFrame ==
  ASSUME NEW t \in Threads, EndProcess(t)
  PROVE  /\ thread[t].pc = "ending" /\ UNCHANGED <<registry, registered>>
         /\ owner' = [owner EXCEPT ![thread[t].target] = None]
         /\ \E p \in {"ended", "astray"} : process' = [process EXCEPT ![thread[t].target] = p]
  BY DEF EndProcess, At, Forget, locks

LEMMA EndRaisesFrame ==
  ASSUME NEW t \in Threads, EndRaises(t)
  PROVE  /\ thread[t].pc = "ending" /\ UNCHANGED registered
         /\ registry' = IF registry = t THEN None ELSE registry
         /\ owner' = [owner EXCEPT ![thread[t].target] = None]
         /\ process' = [process EXCEPT ![thread[t].target] = "astray"]
  BY DEF EndRaises, At, Forget

\* The steps that leave the registry alone.
LEMMA PlainFrame ==
  ASSUME NEW t \in Threads, Barrier(t) \/ Lookup(t) \/ Lock(t) \/ Leave(t) \/ FindEnded(t)
  PROVE  UNCHANGED <<registry, registered, owner, process>>
  BY DEF Barrier, Lookup, Lock, Leave, FindEnded, locks, shells

LEMMA DropFrame ==
  ASSUME NEW t \in Threads, Drop(t)
  PROVE  /\ thread[t].pc = "drop" /\ UNCHANGED <<registry, process>>
         /\ registered' = registered \ {thread[t].shell}
         /\ owner' = [owner EXCEPT ![thread[t].shell] = None]
  BY DEF Drop, At, Forget

LEMMA PopFrame ==
  ASSUME NEW t \in Threads, Pop(t)
  PROVE  /\ thread[t].pc = "pop" /\ UNCHANGED <<registry, owner, process>>
         /\ registered' = registered \ {thread[t].shell}
  BY DEF Pop, At, locks

LEMMA ExitFrame ==
  ASSUME NEW s \in Shells, Exit(s) \/ Detach(s) \/ PumpEnds(s)
  PROVE  /\ UNCHANGED <<thread, registry, registered, owner>>
         /\ process' = process \/ \E p \in {"ended", "astray"} : process' = [process EXCEPT ![s] = p]
  BY DEF Exit, Detach, PumpEnds, locks

\* TypeOK in two parts.
ThreadType == thread \in [Threads -> Req]
StateType ==
    /\ registry \in Threads \cup {None}
    /\ shellLock \in [Shells -> Threads \cup {None}]
    /\ registered \subseteq Shells
    /\ owner \in [Shells -> Owners \cup {None}]
    /\ process \in [Shells -> {"ended", "attached", "astray"}]
    /\ closed \in [Shells -> BOOLEAN]
    /\ streamed \in [Shells -> BOOLEAN]

\* They make up TypeOK.
LEMMA TypeParts == TypeOK <=> StateType /\ ThreadType
  BY DEF TypeOK, StateType, ThreadType, Req

\* The two parts of TypeOK, step by step.
LEMMA ThreadTypeStep == TypeOK /\ RequestInv /\ [Next]_vars => ThreadType'
<1> SUFFICES ASSUME TypeOK, RequestInv, [Next]_vars PROVE ThreadType'
  OBVIOUS
<1> USE TypeParts DEF ThreadType, Moves
<1>1. ASSUME NEW t \in Threads, NEW op \in Operations, Begin(t, op) PROVE ThreadType'
  BY <1>1, BeginFrame, BeginEffect
<1>2. ASSUME NEW t \in Threads, Cleanup(t) PROVE ThreadType'
  BY <1>2, CleanupFrame, CleanupEffect
<1>3. ASSUME NEW t \in Threads, Enter(t) PROVE ThreadType'
  BY <1>3, EnterFrame, EnterEffect
<1>4. ASSUME NEW t \in Threads, CloseNext(t) PROVE ThreadType'
  BY <1>4, CloseNextEffect
<1>5. ASSUME NEW t \in Threads, Barrier(t) PROVE ThreadType'
  BY <1>5, PlainFrame, BarrierMoves
<1>6. ASSUME NEW t \in Threads, EndProcess(t) PROVE ThreadType'
  BY <1>6, EndProcessFrame, EndProcessEffect
<1>7. ASSUME NEW t \in Threads, Spawn(t) PROVE ThreadType'
  BY <1>7, SpawnEffect
<1>8. ASSUME NEW t \in Threads, Lookup(t) PROVE ThreadType'
  BY <1>8, PlainFrame, LookupMoves
<1>9. ASSUME NEW t \in Threads, Lock(t) PROVE ThreadType'
  BY <1>9, PlainFrame, LockMoves
<1>10. ASSUME NEW t \in Threads, Leave(t) PROVE ThreadType'
  BY <1>10, PlainFrame, LeaveMoves
<1>11. ASSUME NEW t \in Threads, FindEnded(t) PROVE ThreadType'
  BY <1>11, PlainFrame, FindEndedMoves
<1>12. ASSUME NEW t \in Threads, Drop(t) PROVE ThreadType'
  BY <1>12, DropFrame, LeaveMoves
<1>13. ASSUME NEW t \in Threads, Pop(t) PROVE ThreadType'
  <2>1. thread[t].shell \in Shells
    BY <1>13 DEF Pop, At, RequestInv, OnShell
  <2> QED BY <1>13, <2>1, PopEffect
<1>14. ASSUME NEW s \in Shells, Exit(s) \/ Detach(s) \/ PumpEnds(s) PROVE ThreadType'
  BY <1>14, ExitFrame
<1>15. CASE UNCHANGED vars
  BY <1>15 DEF vars, locks, shells
<1>16. ASSUME NEW t \in Threads, EndRaises(t) PROVE ThreadType'
  BY <1>16, EndRaisesFrame, EndRaisesMoves
<1> QED BY <1>1, <1>2, <1>3, <1>4, <1>5, <1>6, <1>7, <1>8, <1>9, <1>10, <1>11, <1>12,
           <1>13, <1>14, <1>15, <1>16 DEF Next, Proceed

\* The other variables.
LEMMA StateTypeStep == TypeOK /\ [Next]_vars => StateType'
<1> SUFFICES ASSUME TypeOK, [Next]_vars PROVE StateType'
  OBVIOUS
<1> USE TypeParts DEF StateType
<1>1. ASSUME NEW t \in Threads, NEW op \in Operations, Begin(t, op) PROVE StateType'
  BY <1>1 DEF Begin, locks, shells
<1>2. ASSUME NEW t \in Threads, Cleanup(t) PROVE StateType'
  BY <1>2 DEF Cleanup, TakeRegistry, shells
<1>3. ASSUME NEW t \in Threads, Enter(t) PROVE StateType'
  BY <1>3 DEF Enter, TakeRegistry, shells
<1>4. ASSUME NEW t \in Threads, CloseNext(t) PROVE StateType'
  BY <1>4 DEF CloseNext, shells
<1>5. ASSUME NEW t \in Threads, Barrier(t) PROVE StateType'
  BY <1>5 DEF Barrier, locks, shells
<1>6. ASSUME NEW t \in Threads, EndProcess(t) PROVE StateType'
  BY <1>6 DEF EndProcess, Forget, locks
<1>7. ASSUME NEW t \in Threads, Spawn(t) PROVE StateType'
  <2>1. thread[t].who \in Owners \cup {None}
    BY TypeParts DEF ThreadType, Req
  <2> QED BY <1>7, <2>1 DEF Spawn, shells
<1>8. ASSUME NEW t \in Threads, Lookup(t) PROVE StateType'
  BY <1>8 DEF Lookup, locks, shells
<1>9. ASSUME NEW t \in Threads, Lock(t) PROVE StateType'
  BY <1>9 DEF Lock, shells
<1>10. ASSUME NEW t \in Threads, Leave(t) PROVE StateType'
  BY <1>10 DEF Leave, Unlock
<1>11. ASSUME NEW t \in Threads, FindEnded(t) PROVE StateType'
  BY <1>11 DEF FindEnded, locks
<1>12. ASSUME NEW t \in Threads, Drop(t) PROVE StateType'
  BY <1>12 DEF Drop, Forget, Unlock
<1>13. ASSUME NEW t \in Threads, Pop(t) PROVE StateType'
  BY <1>13 DEF Pop, locks
<1>14. ASSUME NEW s \in Shells, Exit(s) \/ Detach(s) \/ PumpEnds(s) PROVE StateType'
  BY <1>14 DEF Exit, Detach, PumpEnds, locks
<1>15. CASE UNCHANGED vars
  BY <1>15 DEF vars, locks, shells
<1>16. ASSUME NEW t \in Threads, EndRaises(t) PROVE StateType'
  BY <1>16 DEF EndRaises, Forget
<1> QED BY <1>1, <1>2, <1>3, <1>4, <1>5, <1>6, <1>7, <1>8, <1>9, <1>10, <1>11, <1>12,
           <1>13, <1>14, <1>15, <1>16 DEF Next, Proceed

\* What a request relies on of itself.
LEMMA RequestStep == TypeOK /\ RequestInv /\ [Next]_vars => RequestInv'
<1> SUFFICES ASSUME TypeOK, RequestInv, [Next]_vars PROVE RequestInv'
  OBVIOUS
<1> USE DEF RequestInv, Moves, Same, Idle, Opens, OnShell, Operations
<1>1. ASSUME NEW t \in Threads, NEW op \in Operations, Begin(t, op) PROVE RequestInv'
  BY <1>1, BeginFrame, BeginEffect
<1>2. ASSUME NEW t \in Threads, Cleanup(t) PROVE RequestInv'
  BY <1>2, CleanupFrame, CleanupEffect
<1>3. ASSUME NEW t \in Threads, Enter(t) PROVE RequestInv'
  BY <1>3, EnterFrame, EnterEffect
<1>4. ASSUME NEW t \in Threads, CloseNext(t) PROVE RequestInv'
  BY <1>4, CloseNextEffect
<1>5. ASSUME NEW t \in Threads, Barrier(t) PROVE RequestInv'
  BY <1>5, PlainFrame, BarrierMoves
<1>6. ASSUME NEW t \in Threads, EndProcess(t) PROVE RequestInv'
  BY <1>6, EndProcessFrame, EndProcessEffect
<1>7. ASSUME NEW t \in Threads, Spawn(t) PROVE RequestInv'
  BY <1>7, SpawnEffect
<1>8. ASSUME NEW t \in Threads, Lookup(t) PROVE RequestInv'
  BY <1>8, PlainFrame, LookupMoves
<1>9. ASSUME NEW t \in Threads, Lock(t) PROVE RequestInv'
  BY <1>9, PlainFrame, LockMoves
<1>10. ASSUME NEW t \in Threads, Leave(t) PROVE RequestInv'
  BY <1>10, PlainFrame, LeaveMoves
<1>11. ASSUME NEW t \in Threads, FindEnded(t) PROVE RequestInv'
  BY <1>11, PlainFrame, FindEndedMoves
<1>12. ASSUME NEW t \in Threads, Drop(t) PROVE RequestInv'
  BY <1>12, DropFrame, LeaveMoves
<1>13. ASSUME NEW t \in Threads, Pop(t) PROVE RequestInv'
  <2>1. thread[t].shell \in Shells
    BY <1>13 DEF Pop, At
  <2> QED BY <1>13, <2>1, PopFrame, PopEffect
<1>14. ASSUME NEW s \in Shells, Exit(s) \/ Detach(s) \/ PumpEnds(s) PROVE RequestInv'
  BY <1>14, ExitFrame
<1>15. CASE UNCHANGED vars
  BY <1>15 DEF vars, locks, shells
<1>16. ASSUME NEW t \in Threads, EndRaises(t) PROVE RequestInv'
  BY <1>16, EndRaisesFrame, EndRaisesMoves
<1> QED BY <1>1, <1>2, <1>3, <1>4, <1>5, <1>6, <1>7, <1>8, <1>9, <1>10, <1>11, <1>12,
           <1>13, <1>14, <1>15, <1>16 DEF Next, Proceed

\* Who holds root_shell_lock.
LEMMA HoldStep == TypeOK /\ RequestInv /\ HoldInv /\ [Next]_vars => HoldInv'
<1> SUFFICES ASSUME TypeOK, RequestInv, HoldInv, [Next]_vars PROVE HoldInv'
  OBVIOUS
<1> USE RegistryAssumption, Types DEF HoldInv, RequestInv, Moves, Same, Idle
<1>1. ASSUME NEW t \in Threads, NEW op \in Operations, Begin(t, op) PROVE HoldInv'
  BY <1>1, BeginFrame, BeginEffect
<1>2. ASSUME NEW t \in Threads, Cleanup(t) PROVE HoldInv'
  BY <1>2, CleanupFrame, CleanupEffect
<1>3. ASSUME NEW t \in Threads, Enter(t) PROVE HoldInv'
  BY <1>3, EnterFrame, EnterEffect
<1>4. ASSUME NEW t \in Threads, CloseNext(t) PROVE HoldInv'
  BY <1>4, CloseNextEffect
<1>5. ASSUME NEW t \in Threads, Barrier(t) PROVE HoldInv'
  BY <1>5, PlainFrame, BarrierMoves
<1>6. ASSUME NEW t \in Threads, EndProcess(t) PROVE HoldInv'
  BY <1>6, EndProcessFrame, EndProcessEffect
<1>7. ASSUME NEW t \in Threads, Spawn(t) PROVE HoldInv'
  BY <1>7, SpawnEffect
<1>8. ASSUME NEW t \in Threads, Lookup(t) PROVE HoldInv'
  BY <1>8, PlainFrame, LookupMoves
<1>9. ASSUME NEW t \in Threads, Lock(t) PROVE HoldInv'
  BY <1>9, PlainFrame, LockMoves
<1>10. ASSUME NEW t \in Threads, Leave(t) PROVE HoldInv'
  BY <1>10, PlainFrame, LeaveMoves
<1>11. ASSUME NEW t \in Threads, FindEnded(t) PROVE HoldInv'
  BY <1>11, PlainFrame, FindEndedMoves
<1>12. ASSUME NEW t \in Threads, Drop(t) PROVE HoldInv'
  BY <1>12, DropFrame, LeaveMoves
<1>13. ASSUME NEW t \in Threads, Pop(t) PROVE HoldInv'
  <2>1. thread[t].shell \in Shells
    BY <1>13 DEF Pop, At, RequestInv, OnShell
  <2> QED BY <1>13, <2>1, PopFrame, PopEffect
<1>14. ASSUME NEW s \in Shells, Exit(s) \/ Detach(s) \/ PumpEnds(s) PROVE HoldInv'
  BY <1>14, ExitFrame
<1>15. CASE UNCHANGED vars
  BY <1>15 DEF vars, locks, shells
<1>16. ASSUME NEW t \in Threads, EndRaises(t) PROVE HoldInv'
  BY <1>16, EndRaisesFrame, EndRaisesMoves
<1> QED BY <1>1, <1>2, <1>3, <1>4, <1>5, <1>6, <1>7, <1>8, <1>9, <1>10, <1>11, <1>12,
           <1>13, <1>14, <1>15, <1>16 DEF Next, Proceed

\* What is being closed is not registered, nor registered again before it is closed.
LEMMA TargetStep == TypeOK /\ RequestInv /\ HoldInv /\ TargetInv /\ [Next]_vars => TargetInv'
<1> SUFFICES ASSUME TypeOK, RequestInv, HoldInv, TargetInv, [Next]_vars PROVE TargetInv'
  OBVIOUS
<1> USE RegistryAssumption, Types DEF TargetInv, RequestInv, Moves, Same, Idle
<1>1. ASSUME NEW t \in Threads, NEW op \in Operations, Begin(t, op) PROVE TargetInv'
  BY <1>1, BeginFrame, BeginEffect
<1>2. ASSUME NEW t \in Threads, Cleanup(t) PROVE TargetInv'
  BY <1>2, CleanupFrame, CleanupEffect
<1>3. ASSUME NEW t \in Threads, Enter(t) PROVE TargetInv'
  BY <1>3, EnterFrame, EnterEffect
<1>4. ASSUME NEW t \in Threads, CloseNext(t) PROVE TargetInv'
  BY <1>4, CloseNextEffect
<1>5. ASSUME NEW t \in Threads, Barrier(t) PROVE TargetInv'
  BY <1>5, PlainFrame, BarrierMoves
<1>6. ASSUME NEW t \in Threads, EndProcess(t) PROVE TargetInv'
  BY <1>6, EndProcessFrame, EndProcessEffect
<1>7. ASSUME NEW t \in Threads, Spawn(t) PROVE TargetInv'
  BY <1>7, SpawnEffect
<1>8. ASSUME NEW t \in Threads, Lookup(t) PROVE TargetInv'
  BY <1>8, PlainFrame, LookupMoves
<1>9. ASSUME NEW t \in Threads, Lock(t) PROVE TargetInv'
  BY <1>9, PlainFrame, LockMoves
<1>10. ASSUME NEW t \in Threads, Leave(t) PROVE TargetInv'
  BY <1>10, PlainFrame, LeaveMoves
<1>11. ASSUME NEW t \in Threads, FindEnded(t) PROVE TargetInv'
  BY <1>11, PlainFrame, FindEndedMoves
<1>12. ASSUME NEW t \in Threads, Drop(t) PROVE TargetInv'
  BY <1>12, DropFrame, LeaveMoves
<1>13. ASSUME NEW t \in Threads, Pop(t) PROVE TargetInv'
  <2>1. thread[t].shell \in Shells
    BY <1>13 DEF Pop, At, RequestInv, OnShell
  <2> QED BY <1>13, <2>1, PopFrame, PopEffect
<1>14. ASSUME NEW s \in Shells, Exit(s) \/ Detach(s) \/ PumpEnds(s) PROVE TargetInv'
  BY <1>14, ExitFrame
<1>15. CASE UNCHANGED vars
  BY <1>15 DEF vars, locks, shells
<1>16. ASSUME NEW t \in Threads, EndRaises(t) PROVE TargetInv'
  BY <1>16, EndRaisesFrame, EndRaisesMoves
<1> QED BY <1>1, <1>2, <1>3, <1>4, <1>5, <1>6, <1>7, <1>8, <1>9, <1>10, <1>11, <1>12,
           <1>13, <1>14, <1>15, <1>16 DEF Next, Proceed

\* A shell leaves root_shells for the thread that closes it, or has left its terminal.
LEMMA LostStep == TypeOK /\ RequestInv /\ HoldInv /\ TargetInv /\ NoShellIsLost /\ [Next]_vars => NoShellIsLost'
<1> SUFFICES ASSUME TypeOK, RequestInv, HoldInv, TargetInv, NoShellIsLost, [Next]_vars PROVE NoShellIsLost'
  OBVIOUS
<1> USE RegistryAssumption, Types DEF NoShellIsLost, TargetInv, Moves, Same, Idle
<1>1. ASSUME NEW t \in Threads, NEW op \in Operations, Begin(t, op) PROVE NoShellIsLost'
  BY <1>1, BeginFrame, BeginEffect
<1>2. ASSUME NEW t \in Threads, Cleanup(t) PROVE NoShellIsLost'
  BY <1>2, CleanupFrame, CleanupEffect
<1>3. ASSUME NEW t \in Threads, Enter(t) PROVE NoShellIsLost'
  BY <1>3, EnterFrame, EnterEffect
<1>4. ASSUME NEW t \in Threads, CloseNext(t) PROVE NoShellIsLost'
  BY <1>4, CloseNextEffect
<1>5. ASSUME NEW t \in Threads, Barrier(t) PROVE NoShellIsLost'
  BY <1>5, PlainFrame, BarrierMoves
<1>6. ASSUME NEW t \in Threads, EndProcess(t) PROVE NoShellIsLost'
  <2>1. \A u \in Threads : u # t => thread'[u] = thread[u]
    BY <1>6, EndProcessEffect
  <2>2. /\ UNCHANGED registered
        /\ \E p \in {"ended", "astray"} : process' = [process EXCEPT ![thread[t].target] = p]
    BY <1>6, EndProcessFrame
  <2>3. \A s \in Shells : process'[s] = "attached" => process[s] = "attached" /\ thread[t].target # s
    BY <2>2
  <2> QED BY <2>1, <2>2, <2>3
<1>7. ASSUME NEW t \in Threads, Spawn(t) PROVE NoShellIsLost'
  BY <1>7, SpawnEffect
<1>8. ASSUME NEW t \in Threads, Lookup(t) PROVE NoShellIsLost'
  BY <1>8, PlainFrame, LookupMoves
<1>9. ASSUME NEW t \in Threads, Lock(t) PROVE NoShellIsLost'
  BY <1>9, PlainFrame, LockMoves
<1>10. ASSUME NEW t \in Threads, Leave(t) PROVE NoShellIsLost'
  BY <1>10, PlainFrame, LeaveMoves
<1>11. ASSUME NEW t \in Threads, FindEnded(t) PROVE NoShellIsLost'
  BY <1>11, PlainFrame, FindEndedMoves
<1>12. ASSUME NEW t \in Threads, Drop(t) PROVE NoShellIsLost'
  BY <1>12, DropFrame, LeaveMoves
<1>13. ASSUME NEW t \in Threads, Pop(t) PROVE NoShellIsLost'
  <2>1. thread[t].shell \in Shells
    BY <1>13 DEF Pop, At, RequestInv, OnShell
  <2> QED BY <1>13, <2>1, PopFrame, PopEffect
<1>14. ASSUME NEW s \in Shells, Exit(s) \/ Detach(s) \/ PumpEnds(s) PROVE NoShellIsLost'
  BY <1>14, ExitFrame
<1>15. CASE UNCHANGED vars
  BY <1>15 DEF vars, locks, shells
<1>16. ASSUME NEW t \in Threads, EndRaises(t) PROVE NoShellIsLost'
  <2>1. \A u \in Threads : u # t => thread'[u] = thread[u]
    BY <1>16, EndRaisesMoves
  <2>2. UNCHANGED registered /\ process' = [process EXCEPT ![thread[t].target] = "astray"]
    BY <1>16, EndRaisesFrame
  <2>3. \A s \in Shells : process'[s] = "attached" => process[s] = "attached" /\ thread[t].target # s
    BY <2>2
  <2> QED BY <2>1, <2>2, <2>3
<1> QED BY <1>1, <1>2, <1>3, <1>4, <1>5, <1>6, <1>7, <1>8, <1>9, <1>10, <1>11, <1>12,
           <1>13, <1>14, <1>15, <1>16 DEF Next, Proceed

\* Nobody registers a shell of an owner while another thread makes room for one.
LEMMA PlaceStep == TypeOK /\ RequestInv /\ HoldInv /\ TargetInv /\ PlaceInv /\ [Next]_vars => PlaceInv'
<1> SUFFICES ASSUME TypeOK, RequestInv, HoldInv, TargetInv, PlaceInv, [Next]_vars PROVE PlaceInv'
  OBVIOUS
<1> USE RegistryAssumption, Types DEF PlaceInv, HoldInv, TargetInv, RequestInv, Opens, Moves, Same, Idle
<1>1. ASSUME NEW t \in Threads, NEW op \in Operations, Begin(t, op) PROVE PlaceInv'
  BY <1>1, BeginFrame, BeginEffect
<1>2. ASSUME NEW t \in Threads, Cleanup(t) PROVE PlaceInv'
  BY <1>2, CleanupFrame, CleanupEffect
<1>3. ASSUME NEW t \in Threads, Enter(t) PROVE PlaceInv'
  BY <1>3, EnterFrame, EnterEffect
<1>4. ASSUME NEW t \in Threads, CloseNext(t) PROVE PlaceInv'
  BY <1>4, CloseNextEffect
<1>5. ASSUME NEW t \in Threads, Barrier(t) PROVE PlaceInv'
  BY <1>5, PlainFrame, BarrierMoves
<1>6. ASSUME NEW t \in Threads, EndProcess(t) PROVE PlaceInv'
  BY <1>6, EndProcessFrame, EndProcessEffect
<1>7. ASSUME NEW t \in Threads, Spawn(t) PROVE PlaceInv'
  BY <1>7, SpawnEffect
<1>8. ASSUME NEW t \in Threads, Lookup(t) PROVE PlaceInv'
  BY <1>8, PlainFrame, LookupMoves
<1>9. ASSUME NEW t \in Threads, Lock(t) PROVE PlaceInv'
  BY <1>9, PlainFrame, LockMoves
<1>10. ASSUME NEW t \in Threads, Leave(t) PROVE PlaceInv'
  BY <1>10, PlainFrame, LeaveMoves
<1>11. ASSUME NEW t \in Threads, FindEnded(t) PROVE PlaceInv'
  BY <1>11, PlainFrame, FindEndedMoves
<1>12. ASSUME NEW t \in Threads, Drop(t) PROVE PlaceInv'
  BY <1>12, DropFrame, LeaveMoves
<1>13. ASSUME NEW t \in Threads, Pop(t) PROVE PlaceInv'
  <2>1. thread[t].shell \in Shells
    BY <1>13 DEF Pop, At, RequestInv, OnShell
  <2> QED BY <1>13, <2>1, PopFrame, PopEffect
<1>14. ASSUME NEW s \in Shells, Exit(s) \/ Detach(s) \/ PumpEnds(s) PROVE PlaceInv'
  BY <1>14, ExitFrame
<1>15. CASE UNCHANGED vars
  BY <1>15 DEF vars, locks, shells
<1>16. ASSUME NEW t \in Threads, EndRaises(t) PROVE PlaceInv'
  BY <1>16, EndRaisesFrame, EndRaisesMoves
<1> QED BY <1>1, <1>2, <1>3, <1>4, <1>5, <1>6, <1>7, <1>8, <1>9, <1>10, <1>11, <1>12,
           <1>13, <1>14, <1>15, <1>16 DEF Next, Proceed

\* A shell is spawned where its owner has none.
LEMMA OwnerStep == TypeOK /\ RequestInv /\ HoldInv /\ TargetInv /\ PlaceInv /\ OnePerOwner /\ [Next]_vars => OnePerOwner'
<1> SUFFICES ASSUME TypeOK, RequestInv, HoldInv, TargetInv, PlaceInv, OnePerOwner, [Next]_vars PROVE OnePerOwner'
  OBVIOUS
<1> USE RegistryAssumption, Types DEF OnePerOwner, PlaceInv, TargetInv
<1>1. ASSUME NEW t \in Threads, NEW op \in Operations, Begin(t, op) PROVE OnePerOwner'
  BY <1>1, BeginFrame, BeginEffect
<1>2. ASSUME NEW t \in Threads, Cleanup(t) PROVE OnePerOwner'
  BY <1>2, CleanupFrame, CleanupEffect
<1>3. ASSUME NEW t \in Threads, Enter(t) PROVE OnePerOwner'
  BY <1>3, EnterFrame, EnterEffect
<1>4. ASSUME NEW t \in Threads, CloseNext(t) PROVE OnePerOwner'
  BY <1>4, CloseNextEffect
<1>5. ASSUME NEW t \in Threads, Barrier(t) PROVE OnePerOwner'
  BY <1>5, PlainFrame, BarrierMoves
<1>6. ASSUME NEW t \in Threads, EndProcess(t) PROVE OnePerOwner'
  BY <1>6, EndProcessFrame, EndProcessEffect
<1>7. ASSUME NEW t \in Threads, Spawn(t) PROVE OnePerOwner'
  BY <1>7, SpawnEffect
<1>8. ASSUME NEW t \in Threads, Lookup(t) PROVE OnePerOwner'
  BY <1>8, PlainFrame, LookupMoves
<1>9. ASSUME NEW t \in Threads, Lock(t) PROVE OnePerOwner'
  BY <1>9, PlainFrame, LockMoves
<1>10. ASSUME NEW t \in Threads, Leave(t) PROVE OnePerOwner'
  BY <1>10, PlainFrame, LeaveMoves
<1>11. ASSUME NEW t \in Threads, FindEnded(t) PROVE OnePerOwner'
  BY <1>11, PlainFrame, FindEndedMoves
<1>12. ASSUME NEW t \in Threads, Drop(t) PROVE OnePerOwner'
  BY <1>12, DropFrame, LeaveMoves
<1>13. ASSUME NEW t \in Threads, Pop(t) PROVE OnePerOwner'
  <2>1. thread[t].shell \in Shells
    BY <1>13 DEF Pop, At, RequestInv, OnShell
  <2> QED BY <1>13, <2>1, PopFrame, PopEffect
<1>14. ASSUME NEW s \in Shells, Exit(s) \/ Detach(s) \/ PumpEnds(s) PROVE OnePerOwner'
  BY <1>14, ExitFrame
<1>15. CASE UNCHANGED vars
  BY <1>15 DEF vars, locks, shells
<1>16. ASSUME NEW t \in Threads, EndRaises(t) PROVE OnePerOwner'
  BY <1>16, EndRaisesFrame, EndRaisesMoves
<1> QED BY <1>1, <1>2, <1>3, <1>4, <1>5, <1>6, <1>7, <1>8, <1>9, <1>10, <1>11, <1>12,
           <1>13, <1>14, <1>15, <1>16 DEF Next, Proceed

\* Shells that are removed do not exceed the limit.
LEMMA Fewer ==
  ASSUME TypeOK, AtMostMax, registered' \subseteq registered
  PROVE  AtMostMax'
<1>1. IsFiniteSet(registered)
  BY RegistryAssumption, FS_Subset DEF TypeOK
<1>2. IsFiniteSet(registered') /\ Cardinality(registered') <= Cardinality(registered)
  BY <1>1, FS_Subset
<1>3. Cardinality(registered) \in Nat /\ Cardinality(registered') \in Nat
  BY <1>1, <1>2, FS_CardinalityType
<1> QED BY <1>2, <1>3, RegistryAssumption DEF AtMostMax

\* A shell is spawned only below the limit.
LEMMA MaxStep == TypeOK /\ AtMostMax /\ [Next]_vars => AtMostMax'
<1> SUFFICES ASSUME TypeOK, AtMostMax, [Next]_vars PROVE AtMostMax'
  OBVIOUS
<1> USE RegistryAssumption DEF AtMostMax
<1>0. IsFiniteSet(registered) /\ Cardinality(registered) \in Nat
  BY FS_Subset, FS_CardinalityType, Types
<1>1. ASSUME NEW t \in Threads, NEW op \in Operations, Begin(t, op) PROVE AtMostMax'
  <2>1. registered' \subseteq registered
    BY <1>1, BeginFrame
  <2> QED BY <2>1, Fewer
<1>2. ASSUME NEW t \in Threads, Cleanup(t) PROVE AtMostMax'
  <2>1. registered' \subseteq registered
    BY <1>2, CleanupFrame
  <2> QED BY <2>1, Fewer
<1>3. ASSUME NEW t \in Threads, Enter(t) PROVE AtMostMax'
  <2>1. registered' \subseteq registered
    BY <1>3, EnterFrame
  <2> QED BY <2>1, Fewer
<1>4. ASSUME NEW t \in Threads, CloseNext(t) PROVE AtMostMax'
  <2>1. registered' \subseteq registered
    BY <1>4, CloseNextEffect
  <2> QED BY <2>1, Fewer
<1>5. ASSUME NEW t \in Threads, Barrier(t) PROVE AtMostMax'
  <2>1. registered' \subseteq registered
    BY <1>5, PlainFrame
  <2> QED BY <2>1, Fewer
<1>6. ASSUME NEW t \in Threads, EndProcess(t) PROVE AtMostMax'
  <2>1. registered' \subseteq registered
    BY <1>6, EndProcessFrame
  <2> QED BY <2>1, Fewer
<1>7. ASSUME NEW t \in Threads, Spawn(t) PROVE AtMostMax'
  <2>1. CASE UNCHANGED registered
    BY <2>1
  <2>2. CASE \E s \in Shells : s \notin registered /\ registered' = registered \cup {s}
    <3>1. PICK s \in Shells : s \notin registered /\ registered' = registered \cup {s}
      BY <2>2
    <3>2. Cardinality(registered') = Cardinality(registered) + 1
      BY <1>0, <3>1, FS_AddElement
    <3>3. Cardinality(registered) < MaxSessions \/ UNCHANGED registered
      BY <1>7, SpawnEffect
    <3> QED BY <1>0, <3>1, <3>2, <3>3
  <2> QED BY <1>7, <2>1, <2>2, SpawnEffect
<1>8. ASSUME NEW t \in Threads, Lookup(t) PROVE AtMostMax'
  <2>1. registered' \subseteq registered
    BY <1>8, PlainFrame
  <2> QED BY <2>1, Fewer
<1>9. ASSUME NEW t \in Threads, Lock(t) PROVE AtMostMax'
  <2>1. registered' \subseteq registered
    BY <1>9, PlainFrame
  <2> QED BY <2>1, Fewer
<1>10. ASSUME NEW t \in Threads, Leave(t) PROVE AtMostMax'
  <2>1. registered' \subseteq registered
    BY <1>10, PlainFrame
  <2> QED BY <2>1, Fewer
<1>11. ASSUME NEW t \in Threads, FindEnded(t) PROVE AtMostMax'
  <2>1. registered' \subseteq registered
    BY <1>11, PlainFrame
  <2> QED BY <2>1, Fewer
<1>12. ASSUME NEW t \in Threads, Drop(t) PROVE AtMostMax'
  <2>1. registered' \subseteq registered
    BY <1>12, DropFrame
  <2> QED BY <2>1, Fewer
<1>13. ASSUME NEW t \in Threads, Pop(t) PROVE AtMostMax'
  <2>1. registered' \subseteq registered
    BY <1>13, PopFrame
  <2> QED BY <2>1, Fewer
<1>14. ASSUME NEW s \in Shells, Exit(s) \/ Detach(s) \/ PumpEnds(s) PROVE AtMostMax'
  BY <1>14, ExitFrame
<1>15. CASE UNCHANGED vars
  BY <1>15 DEF vars, locks, shells
<1>16. ASSUME NEW t \in Threads, EndRaises(t) PROVE AtMostMax'
  <2>1. registered' \subseteq registered
    BY <1>16, EndRaisesFrame
  <2> QED BY <2>1, Fewer
<1> QED BY <1>1, <1>2, <1>3, <1>4, <1>5, <1>6, <1>7, <1>8, <1>9, <1>10, <1>11, <1>12,
           <1>13, <1>14, <1>15, <1>16 DEF Next, Proceed

\* Who holds root_shell_lock is closing shells or about to open one.
HolderInv ==
    registry # None => thread[registry].pc \in {"closing", "barrier", "ending", "spawn"}

\* Who holds the lock of a shell reads or writes it, or is about to drop it.
ShellHoldInv ==
    \A s \in Shells : shellLock[s] # None =>
        thread[shellLock[s]].pc \in {"inside", "drop"} /\ thread[shellLock[s]].shell = s

LockInv == HolderInv /\ ShellHoldInv

\* The steps that neither take nor give back the lock of a shell.
LEMMA PassFrame ==
  ASSUME NEW t \in Threads,
         \/ \E op \in Operations : Begin(t, op)
         \/ Cleanup(t) \/ Enter(t) \/ CloseNext(t) \/ Barrier(t) \/ EndProcess(t) \/ EndRaises(t)
         \/ Spawn(t) \/ Lookup(t) \/ FindEnded(t) \/ Pop(t)
  PROVE  UNCHANGED shellLock
  BY DEF Begin, Cleanup, Enter, CloseNext, Barrier, EndProcess, EndRaises, Spawn,
         Lookup, FindEnded, Pop, locks

\* The step that takes the lock of a shell.
LEMMA LockFrame ==
  ASSUME NEW t \in Threads, Lock(t)
  PROVE  /\ shellLock[thread[t].shell] = None
         /\ shellLock' = [shellLock EXCEPT ![thread[t].shell] = t]
  BY DEF Lock

\* The steps that give it back.
LEMMA UnlockFrame ==
  ASSUME NEW t \in Threads, Leave(t) \/ Drop(t)
  PROVE  shellLock' = [shellLock EXCEPT ![thread[t].shell] = None]
  BY DEF Leave, Drop, Unlock

\* What a shell does by itself takes no lock that outlives the step.
LEMMA ShellFrame ==
  ASSUME NEW s \in Shells, Exit(s) \/ Detach(s) \/ PumpEnds(s)
  PROVE  UNCHANGED shellLock
  BY DEF Exit, Detach, PumpEnds, locks

\* Who may hold a lock.
LEMMA Holders ==
  ASSUME TypeOK
  PROVE  registry \in Threads \cup {None} /\ shellLock \in [Shells -> Threads \cup {None}]
  BY DEF TypeOK

\* A thread gives root_shell_lock back before it does anything that needs no lock or
\* another one.
LEMMA HolderStep ==
  TypeOK /\ RequestInv /\ HoldInv /\ HolderInv /\ [Next]_vars => HolderInv'
<1> SUFFICES ASSUME TypeOK, RequestInv, HoldInv, HolderInv, [Next]_vars PROVE HolderInv'
  OBVIOUS
<1> USE RegistryAssumption, Holders DEF HolderInv, HoldInv, RequestInv, Moves, Same, Idle
<1>1. ASSUME NEW t \in Threads, NEW op \in Operations, Begin(t, op) PROVE HolderInv'
  BY <1>1, BeginFrame, BeginEffect
<1>2. ASSUME NEW t \in Threads, Cleanup(t) PROVE HolderInv'
  BY <1>2, CleanupFrame, CleanupEffect
<1>3. ASSUME NEW t \in Threads, Enter(t) PROVE HolderInv'
  BY <1>3, EnterFrame, EnterEffect
<1>4. ASSUME NEW t \in Threads, CloseNext(t) PROVE HolderInv'
  BY <1>4, CloseNextEffect
<1>5. ASSUME NEW t \in Threads, Barrier(t) PROVE HolderInv'
  BY <1>5, PlainFrame, BarrierMoves
<1>6. ASSUME NEW t \in Threads, EndProcess(t) PROVE HolderInv'
  BY <1>6, EndProcessFrame, EndProcessEffect
<1>7. ASSUME NEW t \in Threads, Spawn(t) PROVE HolderInv'
  BY <1>7, SpawnEffect
<1>8. ASSUME NEW t \in Threads, Lookup(t) PROVE HolderInv'
  BY <1>8, PlainFrame, LookupMoves
<1>9. ASSUME NEW t \in Threads, Lock(t) PROVE HolderInv'
  BY <1>9, PlainFrame, LockMoves
<1>10. ASSUME NEW t \in Threads, Leave(t) PROVE HolderInv'
  BY <1>10, PlainFrame, LeaveMoves
<1>11. ASSUME NEW t \in Threads, FindEnded(t) PROVE HolderInv'
  BY <1>11, PlainFrame, FindEndedMoves
<1>12. ASSUME NEW t \in Threads, Drop(t) PROVE HolderInv'
  BY <1>12, DropFrame, LeaveMoves
<1>13. ASSUME NEW t \in Threads, Pop(t) PROVE HolderInv'
  <2>1. thread[t].shell \in Shells
    BY <1>13 DEF Pop, At, RequestInv, OnShell
  <2> QED BY <1>13, <2>1, PopFrame, PopEffect
<1>14. ASSUME NEW s \in Shells, Exit(s) \/ Detach(s) \/ PumpEnds(s) PROVE HolderInv'
  BY <1>14, ExitFrame
<1>15. CASE UNCHANGED vars
  BY <1>15 DEF vars, locks, shells
<1>16. ASSUME NEW t \in Threads, EndRaises(t) PROVE HolderInv'
  BY <1>16, EndRaisesFrame, EndRaisesMoves
<1> QED BY <1>1, <1>2, <1>3, <1>4, <1>5, <1>6, <1>7, <1>8, <1>9, <1>10, <1>11, <1>12,
           <1>13, <1>14, <1>15, <1>16 DEF Next, Proceed

\* A thread gives the lock of a shell back when its request ends.
LEMMA ShellHoldStep ==
  TypeOK /\ RequestInv /\ ShellHoldInv /\ [Next]_vars => ShellHoldInv'
<1> SUFFICES ASSUME TypeOK, RequestInv, ShellHoldInv, [Next]_vars PROVE ShellHoldInv'
  OBVIOUS
<1> USE RegistryAssumption, Holders DEF ShellHoldInv, RequestInv, Moves, Same, Idle
<1>1. ASSUME NEW t \in Threads, NEW op \in Operations, Begin(t, op) PROVE ShellHoldInv'
  BY <1>1, BeginFrame, BeginEffect, PassFrame
<1>2. ASSUME NEW t \in Threads, Cleanup(t) PROVE ShellHoldInv'
  BY <1>2, CleanupFrame, CleanupEffect, PassFrame
<1>3. ASSUME NEW t \in Threads, Enter(t) PROVE ShellHoldInv'
  BY <1>3, EnterFrame, EnterEffect, PassFrame
<1>4. ASSUME NEW t \in Threads, CloseNext(t) PROVE ShellHoldInv'
  BY <1>4, CloseNextEffect, PassFrame
<1>5. ASSUME NEW t \in Threads, Barrier(t) PROVE ShellHoldInv'
  BY <1>5, PlainFrame, BarrierMoves, PassFrame
<1>6. ASSUME NEW t \in Threads, EndProcess(t) PROVE ShellHoldInv'
  BY <1>6, EndProcessFrame, EndProcessEffect, PassFrame
<1>7. ASSUME NEW t \in Threads, Spawn(t) PROVE ShellHoldInv'
  BY <1>7, SpawnEffect, PassFrame
<1>8. ASSUME NEW t \in Threads, Lookup(t) PROVE ShellHoldInv'
  BY <1>8, PlainFrame, LookupMoves, PassFrame
<1>9. ASSUME NEW t \in Threads, Lock(t) PROVE ShellHoldInv'
  BY <1>9, PlainFrame, LockMoves, LockFrame
<1>10. ASSUME NEW t \in Threads, Leave(t) PROVE ShellHoldInv'
  BY <1>10, PlainFrame, LeaveMoves, UnlockFrame
<1>11. ASSUME NEW t \in Threads, FindEnded(t) PROVE ShellHoldInv'
  BY <1>11, PlainFrame, FindEndedMoves, PassFrame
<1>12. ASSUME NEW t \in Threads, Drop(t) PROVE ShellHoldInv'
  BY <1>12, DropFrame, LeaveMoves, UnlockFrame
<1>13. ASSUME NEW t \in Threads, Pop(t) PROVE ShellHoldInv'
  <2>1. thread[t].shell \in Shells
    BY <1>13 DEF Pop, At, RequestInv, OnShell
  <2> QED BY <1>13, <2>1, PopFrame, PopEffect, PassFrame
<1>14. ASSUME NEW s \in Shells, Exit(s) \/ Detach(s) \/ PumpEnds(s) PROVE ShellHoldInv'
  BY <1>14, ExitFrame, ShellFrame
<1>15. CASE UNCHANGED vars
  BY <1>15 DEF vars, locks, shells
<1>16. ASSUME NEW t \in Threads, EndRaises(t) PROVE ShellHoldInv'
  BY <1>16, EndRaisesFrame, EndRaisesMoves, PassFrame
<1> QED BY <1>1, <1>2, <1>3, <1>4, <1>5, <1>6, <1>7, <1>8, <1>9, <1>10, <1>11, <1>12,
           <1>13, <1>14, <1>15, <1>16 DEF Next, Proceed

\* Where nobody can go on, root_shell_lock is held by a thread that waits for the lock
\* of the shell it closes, and that is held by a thread that waits for root_shell_lock.
LEMMA StuckOnlySo == TypeOK /\ RequestInv /\ TargetInv /\ HoldInv /\ LockInv => NeverStuck
<1> SUFFICES ASSUME TypeOK, RequestInv, TargetInv, HoldInv, LockInv,
                    NEW w \in Threads, ~At(w, "idle"), \A t \in Threads : ~CanGoOn(t)
             PROVE  ~NoCircularWait
  BY DEF NeverStuck
<1> USE RegistryAssumption, Holders DEF CanGoOn, At
<1>1. \A t \in Threads : thread[t].pc \in Steps
  BY DEF TypeOK
<1>2. ASSUME NEW t \in Threads, thread[t].pc \in {"barrier", "lock"}
      PROVE  \E u \in Threads, s \in Shells :
                /\ shellLock[s] = u /\ thread[u].pc = "drop"
                /\ thread[t].pc = "barrier" => s = thread[t].target
  <2> DEFINE s == IF thread[t].pc = "barrier" THEN thread[t].target ELSE thread[t].shell
  <2>1. s \in Shells /\ shellLock[s] # None
    BY <1>2 DEF TargetInv, RequestInv
  <2>2. shellLock[s] \in Threads /\ thread[shellLock[s]].pc \in {"inside", "drop"}
    BY <2>1 DEF LockInv, ShellHoldInv
  <2>3. thread[shellLock[s]].pc = "drop"
    BY <2>2
  <2> QED BY <2>1, <2>2, <2>3
<1>3. registry # None
  <2> SUFFICES ASSUME registry = None PROVE FALSE
    OBVIOUS
  <2>1. thread[w].pc \in {"barrier", "lock"}
    BY <1>1 DEF Steps
  <2>2. PICK u \in Threads : thread[u].pc = "drop"
    BY <1>2, <2>1
  <2> QED BY <2>2
<1>4. registry \in Threads /\ thread[registry].pc = "barrier"
  BY <1>3 DEF LockInv, HolderInv
<1> QED BY <1>2, <1>4 DEF NoCircularWait

\* No shell, and no request.
LEMMA InitHolds == Init => IInv
<1> SUFFICES ASSUME Init PROVE IInv
  OBVIOUS
<1> USE RegistryAssumption DEF Init, Idle
<1>1. TypeOK
  BY DEF TypeOK, Steps, Operations
<1>2. RequestInv /\ HoldInv /\ TargetInv /\ PlaceInv /\ NoShellIsLost
  BY DEF RequestInv, HoldInv, TargetInv, PlaceInv, NoShellIsLost, OnShell, Opens
<1>3. OneShellPerOwner
  BY FS_EmptySet DEF OneShellPerOwner
<1> QED BY <1>1, <1>2, <1>3 DEF IInv

\* The inductive invariant holds in every reachable state.
THEOREM Invariance == Spec => []IInv
<1>1. IInv /\ [Next]_vars => IInv'
  <2> SUFFICES ASSUME IInv, [Next]_vars PROVE IInv'
    OBVIOUS
  <2>1. TypeOK /\ RequestInv /\ HoldInv /\ TargetInv /\ PlaceInv /\ NoShellIsLost /\ OnePerOwner /\ AtMostMax
    BY DEF IInv, OneShellPerOwner, OnePerOwner, AtMostMax
  <2>2. StateType' /\ ThreadType'
    BY <2>1, StateTypeStep, ThreadTypeStep
  <2>3. TypeOK'
    BY <2>2 DEF TypeOK, StateType, ThreadType, Req
  <2>4. RequestInv' /\ HoldInv' /\ TargetInv'
    BY <2>1, RequestStep, HoldStep, TargetStep
  <2>5. PlaceInv' /\ NoShellIsLost'
    BY <2>1, PlaceStep, LostStep
  <2>6. OneShellPerOwner'
    BY <2>1, OwnerStep, MaxStep DEF OneShellPerOwner, OnePerOwner, AtMostMax
  <2> QED BY <2>3, <2>4, <2>5, <2>6 DEF IInv
<1> QED BY <1>1, InitHolds, PTL DEF Spec

\* Type correctness.
THEOREM TypeCorrect == Spec => []TypeOK
<1>1. IInv => TypeOK
  BY DEF IInv
<1> QED BY <1>1, Invariance, PTL

\* Every shell at its terminal is in root_shells or is being closed, for any number of
\* requests at once and though a close may fail to end its shell, or raise
\* (_shell_open, _cleanup_root_shells, close, _read_shell_locked).
THEOREM NoneIsLost == Spec => []NoShellIsLost
<1>1. IInv => NoShellIsLost
  BY DEF IInv
<1> QED BY <1>1, Invariance, PTL

\* Two opens of one portal session leave one shell, and there are never more than
\* ROOT_SHELL_MAX_SESSIONS (_shell_open).
THEOREM OneForEachOwner == Spec => []OneShellPerOwner
<1>1. IInv => OneShellPerOwner
  BY DEF IInv
<1> QED BY <1>1, Invariance, PTL
\* However many requests there are, they do not get stuck but in the circular wait of a
\* poll that drops its shell and a thread that closes this shell: root_shell_lock and
\* the locks of the sessions are taken in no other circle (_shell_open, _shell_by_id,
\* _read_shell_locked, _cleanup_root_shells, close).
THEOREM OnlyOneCircle == Spec => []NeverStuck
<1>1. Init => LockInv
  BY RegistryAssumption DEF Init, LockInv, HolderInv, ShellHoldInv
<1>2. IInv /\ LockInv /\ [Next]_vars => LockInv'
  BY HolderStep, ShellHoldStep DEF IInv, LockInv
<1>3. IInv /\ LockInv => NeverStuck
  BY StuckOnlySo DEF IInv
<1> QED BY <1>1, <1>2, <1>3, Invariance, PTL DEF Spec
=============================================================================
