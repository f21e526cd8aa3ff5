----------------------------- MODULE ShellRegistry -----------------------------
(***************************************************************************)
(* The root shells of the host-agent: which threads open, use and close    *)
(* them, and the locks they take (dispatcher.py _shell_*, shell.py close). *)
(*                                                                         *)
(* root_shell_lock protects root_shells and is held while expired or       *)
(* replaced sessions are closed; every session has a lock of its own.      *)
(* A shell is streamed, by a reader thread of its own, or polled, through  *)
(* the older interface; the first attach makes a polled shell streamed.    *)
(***************************************************************************)
EXTENDS FiniteSets, Naturals

CONSTANTS
    Threads,        \* threads that serve requests, and the reaper
    Shells,         \* identities of sessions, used again when they are free
    Owners,         \* portal sessions
    MaxSessions,    \* ROOT_SHELL_MAX_SESSIONS
    None

ASSUME RegistryAssumption ==
    /\ IsFiniteSet(Shells) /\ IsFiniteSet(Threads) /\ MaxSessions \in Nat
    /\ Cardinality(Shells) >= MaxSessions + Cardinality(Threads) - 1   \* one is free, unless one outlived its session
    /\ None \notin Threads \cup Shells \cup Owners

VARIABLES
    registry,       \* who holds root_shell_lock
    shellLock,      \* who holds session.lock
    registered,     \* root_shells
    owner,          \* session.owner
    process,        \* the shell: it has "ended", or runs "attached" to the PTY, or runs "astray": it
                    \* has left the PTY, or a close should have ended it
    closed,         \* session.closed
    streamed,       \* session.reader is not None
    thread          \* what each thread does

locks == <<registry, shellLock>>
shells == <<registered, owner, process, closed, streamed>>
vars == <<locks, shells, thread>>

\* The requests that name a shell ("use" is a write or a resize), and those that
\* open one, to be streamed or to be polled.
OnShell == {"use", "attach", "poll", "close"}
Opens == {"open", "openPolled"}
Operations == Opens \cup OnShell \cup {"reap"}
Steps == {"idle", "cleanup", "enter", "closing", "barrier", "ending", "spawn", "lookup", "lock",
          "inside", "drop", "pop"}

Idle == [pc |-> "idle", op |-> "reap", who |-> None, shell |-> None, todo |-> {},
         target |-> None, back |-> "idle"]

TypeOK ==
    /\ registry \in Threads \cup {None}
    /\ shellLock \in [Shells -> Threads \cup {None}]
    /\ registered \subseteq Shells
    /\ owner \in [Shells -> Owners \cup {None}]
    /\ process \in [Shells -> {"ended", "attached", "astray"}]
    /\ {closed, streamed} \subseteq [Shells -> BOOLEAN]
    /\ thread \in [Threads -> [pc : Steps, op : Operations, who : Owners \cup {None},
                               shell : Shells \cup {None}, todo : SUBSET Shells,
                               target : Shells \cup {None}, back : Steps]]

Init ==
    /\ registry = None /\ shellLock = [s \in Shells |-> None]
    /\ registered = {} /\ owner = [s \in Shells |-> None]
    /\ process = [s \in Shells |-> "ended"] /\ streamed = [s \in Shells |-> FALSE]
    /\ closed = [s \in Shells |-> TRUE]
    /\ thread = [t \in Threads |-> Idle]

At(t, pc) == thread[t].pc = pc
Goto(t, pc) == thread' = [thread EXCEPT ![t] = [@ EXCEPT !.pc = pc]]
Return(t) == thread' = [thread EXCEPT ![t] = Idle]
TakeRegistry(t) == registry = None /\ registry' = t

(***************************************************************************)
(* Requests, and _cleanup_root_shells with which each of them begins.      *)
(***************************************************************************)

Begin(t, op) ==
    /\ At(t, "idle")
    /\ \/ op = "reap" /\ thread' = [thread EXCEPT ![t] = [Idle EXCEPT !.pc = "cleanup", !.op = op]]
       \/ /\ op \in Opens
          /\ \E o \in Owners :
               thread' = [thread EXCEPT ![t] = [Idle EXCEPT !.pc = "cleanup", !.op = op, !.who = o]]
       \/ /\ op \in OnShell
          /\ \E s \in Shells :
               /\ s \in registered
               /\ thread' = [thread EXCEPT ![t] = [Idle EXCEPT !.pc = "cleanup", !.op = op,
                                                     !.who = owner[s], !.shell = s]]
    /\ UNCHANGED <<locks, shells>>

\* back is where the thread goes on after a loop that closes shells.
AfterCleanup(t) ==
    CASE thread[t].op = "reap" -> "idle"
      [] thread[t].op \in Opens -> "enter"
      [] thread[t].op \in OnShell -> "lookup"

\* Any sessions may have expired.
Cleanup(t) ==
    /\ At(t, "cleanup") /\ TakeRegistry(t)
    /\ \E expired \in SUBSET registered :
         thread' = [thread EXCEPT ![t] =
                      [@ EXCEPT !.pc = "closing", !.todo = expired, !.back = AfterCleanup(t)]]
    /\ UNCHANGED <<shellLock, shells>>

\* The other shells of the owner, and those that have ended, are replaced.
Enter(t) ==
    /\ At(t, "enter") /\ TakeRegistry(t)
    /\ thread' = [thread EXCEPT ![t] =
                    [@ EXCEPT !.pc = "closing", !.back = "spawn",
                              !.todo = {s \in registered : owner[s] = thread[t].who \/ closed[s]}]]
    /\ UNCHANGED <<shellLock, shells>>

(***************************************************************************)
(* RootShellSession.close, of the shells in todo or of one shell.          *)
(***************************************************************************)

\* Mutant: root_shell_lock is released before the new shell has its place.
CloseNextReleases(t) ==
    /\ At(t, "closing")
    /\ \/ \E s \in thread[t].todo :
            /\ registered' = registered \ {s}
            /\ closed' = [closed EXCEPT ![s] = TRUE]
            /\ thread' = [thread EXCEPT ![t] =
                            [@ EXCEPT !.pc = "barrier", !.todo = thread[t].todo \ {s}, !.target = s]]
            /\ UNCHANGED <<registry, owner, process, streamed>>
       \/ /\ thread[t].todo = {}
          /\ registry' = None
          /\ Goto(t, thread[t].back)
          /\ UNCHANGED shells
    /\ UNCHANGED shellLock

\* The next shell is popped; after the last one root_shell_lock is released, but not
\* before a shell that is being opened has its place.
CloseNext(t) ==
    /\ At(t, "closing")
    /\ \/ \E s \in thread[t].todo :
            /\ registered' = registered \ {s}
            /\ closed' = [closed EXCEPT ![s] = TRUE]
            /\ thread' = [thread EXCEPT ![t] =
                            [@ EXCEPT !.pc = "barrier", !.todo = thread[t].todo \ {s}, !.target = s]]
            /\ UNCHANGED <<registry, owner, process, streamed>>
       \/ /\ thread[t].todo = {}
          /\ IF thread[t].back = "spawn" THEN UNCHANGED registry ELSE registry' = None
          /\ Goto(t, thread[t].back)
          /\ UNCHANGED shells
    /\ UNCHANGED shellLock

\* notify_all under the lock of the session: nobody uses the shell any more.
Barrier(t) ==
    /\ At(t, "barrier") /\ shellLock[thread[t].target] = None
    /\ Goto(t, "ending")
    /\ UNCHANGED <<locks, shells>>

\* Nothing is kept of a shell that is not registered, but that it is closed.
Forget(s) ==
    /\ owner' = [owner EXCEPT ![s] = None]
    /\ streamed' = [streamed EXCEPT ![s] = FALSE]

\* shell.close has popped the one shell that it closes.
ClosesOwn(t) == thread[t].op = "close" /\ thread[t].shell = thread[t].target /\ registry # t

\* The reader has ended or 0.5 s are over; systemctl and the process get their time, and the
\* PTY is closed.  What systemctl answers is passed over: the shell may not have stopped.
EndProcess(t) ==
    LET s == thread[t].target IN
    /\ At(t, "ending")
    /\ \E p \in {"ended", "astray"} :
         (process[s] = "ended" => p = "ended") /\ process' = [process EXCEPT ![s] = p]
    /\ thread' = [thread EXCEPT ![t] = IF ClosesOwn(t) THEN Idle
                                       ELSE [@ EXCEPT !.pc = "closing", !.target = None]]
    /\ Forget(s)
    /\ UNCHANGED <<locks, registered, closed>>

\* The process has not ended a second after SIGKILL: the exception ends the request, or the
\* reaper, and what is left of todo stays registered.
EndRaises(t) ==
    LET s == thread[t].target IN
    /\ At(t, "ending") /\ process[s] # "ended"
    /\ process' = [process EXCEPT ![s] = "astray"]
    /\ registry' = IF registry = t THEN None ELSE registry
    /\ Return(t) /\ Forget(s)
    /\ UNCHANGED <<shellLock, registered, closed>>

(***************************************************************************)
(* shell.open, after the root password was verified.                       *)
(***************************************************************************)

Mentions(t, s) == s \in {thread[t].shell, thread[t].target} \cup thread[t].todo

IsFree(s) ==
    /\ s \notin registered /\ process[s] = "ended" /\ shellLock[s] = None
    /\ \A t \in Threads : ~Mentions(t, s)

\* Mutant: the shell belongs to the thread, not to the portal session.
SpawnForThread(t) ==
    /\ At(t, "spawn")
    /\ registry' = None
    /\ \/ /\ Cardinality(registered) < MaxSessions
          /\ \E s \in Shells :
               /\ IsFree(s)
               /\ registered' = registered \cup {s}
               /\ owner' = [owner EXCEPT ![s] = t]
               /\ process' = [process EXCEPT ![s] = "attached"]
               /\ closed' = [closed EXCEPT ![s] = FALSE]
               /\ streamed' = [streamed EXCEPT ![s] = FALSE]
               /\ thread' = [thread EXCEPT ![t] = [@ EXCEPT !.pc = "lock", !.shell = s]]
       \/ Return(t) /\ UNCHANGED shells
    /\ UNCHANGED shellLock

\* _spawn_root_shell, unless there are too many or it cannot start the process.
Spawn(t) ==
    /\ At(t, "spawn")
    /\ registry' = None
    /\ \/ /\ Cardinality(registered) < MaxSessions
          /\ \E s \in Shells :
               /\ IsFree(s)
               /\ registered' = registered \cup {s}
               /\ owner' = [owner EXCEPT ![s] = thread[t].who]
               /\ process' = [process EXCEPT ![s] = "attached"]
               /\ closed' = [closed EXCEPT ![s] = FALSE]
               /\ streamed' = [streamed EXCEPT ![s] = FALSE]
               /\ thread' = [thread EXCEPT ![t] = [@ EXCEPT !.pc = "lock", !.shell = s]]
       \/ Return(t) /\ UNCHANGED shells
    /\ UNCHANGED shellLock

(***************************************************************************)
(* Requests that name a shell.                                             *)
(***************************************************************************)

\* Mutant: a shell that is not found leaves root_shell_lock taken.
LookupKeeps(t) ==
    /\ At(t, "lookup") /\ registry = None
    /\ IF thread[t].shell \in registered /\ owner[thread[t].shell] = thread[t].who
       THEN Goto(t, IF thread[t].op = "close" THEN "pop" ELSE "lock") /\ UNCHANGED registry
       ELSE Return(t) /\ registry' = t
    /\ UNCHANGED <<shellLock, shells>>

\* _shell_by_id: root_shell_lock is taken and released.
Lookup(t) ==
    /\ At(t, "lookup") /\ registry = None
    /\ IF thread[t].shell \in registered /\ owner[thread[t].shell] = thread[t].who
       THEN Goto(t, IF thread[t].op = "close" THEN "pop" ELSE "lock")
       ELSE Return(t)
    /\ UNCHANGED <<locks, shells>>

Lock(t) ==
    /\ At(t, "lock") /\ shellLock[thread[t].shell] = None
    /\ shellLock' = [shellLock EXCEPT ![thread[t].shell] = t]
    /\ Goto(t, "inside")
    /\ UNCHANGED <<registry, shells>>

Unlock(t) == shellLock' = [shellLock EXCEPT ![thread[t].shell] = None]

\* A poll, with which an open to be polled ends too; it is refused when the shell
\* is streamed.
Reads(t) == thread[t].op \in {"poll", "openPolled"} /\ ~streamed[thread[t].shell]

\* A write, a resize, start_stream or a poll is over: at most a second.  A write
\* may find the PTY closed.
Leave(t) ==
    LET s == thread[t].shell IN
    /\ At(t, "inside")
    /\ Reads(t) => process[s] # "ended" \/ closed[s]
    /\ streamed' = [streamed EXCEPT ![s] = @ \/ (s \in registered /\ thread[t].op \in {"open", "attach"})]
    /\ \/ UNCHANGED closed
       \/ thread[t].op = "use" /\ process[s] # "attached" /\ closed' = [closed EXCEPT ![s] = TRUE]
    /\ Unlock(t) /\ Return(t)
    /\ UNCHANGED <<registry, registered, owner, process>>

\* Mutant: a shell without output is taken for one that has ended.
FindQuiet(t) ==
    /\ At(t, "inside") /\ Reads(t) /\ ~closed[thread[t].shell]
    /\ closed' = [closed EXCEPT ![thread[t].shell] = TRUE]
    /\ Goto(t, "drop")
    /\ UNCHANGED <<locks, registered, owner, process, streamed>>

\* _read_shell_locked finds that the process has ended, or that nobody has the other end of
\* the PTY (EIO), though the process may go on.
FindEnded(t) ==
    /\ At(t, "inside") /\ Reads(t)
    /\ process[thread[t].shell] # "attached" /\ ~closed[thread[t].shell]
    /\ closed' = [closed EXCEPT ![thread[t].shell] = TRUE]
    /\ Goto(t, "drop")
    /\ UNCHANGED <<locks, registered, owner, process, streamed>>

\* It takes root_shell_lock to drop it, and still holds the lock of the session.  It
\* does not end the process.
Drop(t) ==
    /\ At(t, "drop") /\ registry = None
    /\ registered' = registered \ {thread[t].shell}
    /\ Forget(thread[t].shell)
    /\ Unlock(t) /\ Return(t)
    /\ UNCHANGED <<registry, process, closed>>

\* shell.close: popped, then closed without root_shell_lock.
Pop(t) ==
    /\ At(t, "pop") /\ registry = None
    /\ registered' = registered \ {thread[t].shell}
    /\ closed' = [closed EXCEPT ![thread[t].shell] = TRUE]
    /\ thread' = [thread EXCEPT ![t] = [@ EXCEPT !.pc = "barrier", !.target = thread[t].shell]]
    /\ UNCHANGED <<locks, owner, process, streamed>>

(***************************************************************************)
(* The shells.                                                             *)
(***************************************************************************)

Exit(s) ==
    /\ process[s] # "ended" /\ process' = [process EXCEPT ![s] = "ended"]
    /\ UNCHANGED <<locks, registered, owner, closed, streamed, thread>>

\* It closes its end of the PTY, and goes on.
Detach(s) ==
    /\ process[s] = "attached" /\ process' = [process EXCEPT ![s] = "astray"]
    /\ UNCHANGED <<locks, registered, owner, closed, streamed, thread>>

\* The reader of a stream comes to the end; it takes the lock of the session.
PumpEnds(s) ==
    /\ streamed[s] /\ process[s] # "attached" /\ ~closed[s] /\ shellLock[s] = None
    /\ closed' = [closed EXCEPT ![s] = TRUE]
    /\ UNCHANGED <<locks, registered, owner, process, streamed, thread>>

Proceed(t) ==
    \/ Cleanup(t) \/ Enter(t) \/ CloseNext(t) \/ Barrier(t) \/ EndProcess(t) \/ EndRaises(t) \/ Spawn(t)
    \/ Lookup(t) \/ Lock(t) \/ Leave(t) \/ FindEnded(t) \/ Drop(t) \/ Pop(t)

Next ==
    \/ \E t \in Threads : Proceed(t) \/ \E op \in Operations : Begin(t, op)
    \/ \E s \in Shells : Exit(s) \/ Detach(s) \/ PumpEnds(s)

Spec == Init /\ [][Next]_vars

(***************************************************************************)
(* Properties.                                                             *)
(***************************************************************************)

\* A root shell that runs at its terminal is in root_shells, where its owner and the reaper
\* find it, or somebody is closing it; no close has tried to end it yet.  (What a close could
\* not stop, and a polled shell that has left its terminal, may run on unregistered:
\* README.md, known divergences.)
NoShellIsLost ==
    \A s \in Shells :
        process[s] = "attached" => s \in registered \/ \E t \in Threads : thread[t].target = s

\* A portal session has one root shell, and there are at most MaxSessions.
OneShellPerOwner ==
    /\ \A r, s \in registered : owner[r] = owner[s] => r = s
    /\ Cardinality(registered) <= MaxSessions

\* No two threads hold what the other waits for ("the shell has its own session-bound
\* lock inside the handler", the comment of handle_line).  No run checks it: it does
\* not hold (README.md, known divergences).
NoCircularWait ==
    \A t, u \in Threads :
        ~(At(t, "barrier") /\ registry = t /\ At(u, "drop") /\ shellLock[thread[t].target] = u)

\* What a thread waits for, and has: root_shell_lock, the lock of a shell, or nothing.
CanGoOn(t) ==
    \/ registry = None /\ thread[t].pc \in {"cleanup", "enter", "lookup", "pop", "drop"}
    \/ thread[t].pc \in {"closing", "ending", "spawn", "inside"}
    \/ At(t, "barrier") /\ shellLock[thread[t].target] = None
    \/ At(t, "lock") /\ shellLock[thread[t].shell] = None

\* While requests are in progress, one of them can go on, except in the circular wait
\* of a poll that drops its shell and a thread that closes this shell: there is no
\* other way to get stuck.
NeverStuck ==
    (\E t \in Threads : ~At(t, "idle")) => (\E t \in Threads : CanGoOn(t)) \/ ~NoCircularWait

\* The same of the steps themselves: a thread has a step where it waits for no lock
\* that is taken, and only there.
SomebodyProceeds ==
    NeverStuck /\ \A t \in Threads : ENABLED Proceed(t) <=> CanGoOn(t)
=============================================================================
