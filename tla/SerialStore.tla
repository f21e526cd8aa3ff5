----------------------------- MODULE SerialStore -----------------------------
(***************************************************************************)
(* What JsonStateStore promises its callers: users.json is one register,   *)
(* and a call that succeeds replaces the content in one step, provided it  *)
(* has the revision the caller named: update() by what its mutator makes   *)
(* of it, save() by what was made of a copy.  Locks, temporary files and   *)
(* the order of the writes do not show.                                    *)
(***************************************************************************)
CONSTANTS Tasks, Contents, InitialContent, Mutators, Mutate,
          NoRequest, NoRevision, NoContent, Rejected

VARIABLES
    content,    \* what a reader sees
    stable,     \* what a power loss cannot take back
    call,       \* the request each task has open, or NoRequest
    installed,  \* the tasks whose change is visible and not acknowledged
    outcome     \* how the last call of each task ended

vars == <<content, stable, call, installed, outcome>>

Init ==
    /\ content = InitialContent /\ stable = InitialContent
    /\ call = [t \in Tasks |-> NoRequest]
    /\ installed = {}
    /\ outcome = [t \in Tasks |-> "none"]

Request == [kind : {"update", "save"}, mutator : Mutators,
            basis : Contents \cup {NoContent},
            expected : Contents \cup {NoRevision}]

Undecided(t) == call[t] # NoRequest /\ outcome[t] = "none" /\ t \notin installed

\* What the request of t asks for now.
Wanted(t) == Mutate[call[t].mutator][IF call[t].kind = "update" THEN content ELSE call[t].basis]
RevisionHolds(t) == call[t].expected \in {NoRevision, content}

End(t, o) ==
    /\ outcome' = [outcome EXCEPT ![t] = o]
    /\ installed' = installed \ {t}

Open(t) ==
    /\ call[t] = NoRequest
    /\ \E r \in Request : call' = [call EXCEPT ![t] = r]
    /\ outcome' = [outcome EXCEPT ![t] = "none"]
    /\ UNCHANGED <<content, stable, installed>>

\* The linearisation point: test of the revision and change in one step.
Install(t) ==
    /\ Undecided(t) /\ RevisionHolds(t) /\ Wanted(t) # Rejected
    /\ installed = {}
    /\ content' = Wanted(t)
    /\ installed' = {t}
    /\ UNCHANGED <<stable, call, outcome>>

Acknowledge(t) ==
    /\ t \in installed
    /\ stable' = content
    /\ End(t, "applied")
    /\ UNCHANGED <<content, call>>

\* A refusal is true at the moment it is made.
Refuse(t) ==
    /\ Undecided(t)
    /\ \/ ~RevisionHolds(t) /\ End(t, "conflict")
       \/ RevisionHolds(t) /\ Wanted(t) = Rejected /\ End(t, "rejected")
       \/ RevisionHolds(t) /\ Wanted(t) = content /\ End(t, "unchanged")
    /\ UNCHANGED <<content, stable, call>>

\* An error, before the change or after it.
Fail(t) ==
    /\ Undecided(t) \/ t \in installed
    /\ End(t, "failed")
    /\ UNCHANGED <<content, stable, call>>

Close(t) ==
    /\ call[t] # NoRequest
    /\ call' = [call EXCEPT ![t] = NoRequest]
    /\ \/ outcome[t] # "none" /\ UNCHANGED outcome
       \/ Undecided(t) /\ outcome' = [outcome EXCEPT ![t] = "timeout"]
    /\ t \notin installed
    /\ UNCHANGED <<content, stable, installed>>

Abandon(D) ==
    /\ call' = [t \in Tasks |-> IF t \in D THEN NoRequest ELSE call[t]]
    /\ outcome' = [t \in Tasks |->
                     IF t \in D /\ call[t] # NoRequest THEN "lost" ELSE outcome[t]]
    /\ installed' = installed \ D

Crash(D) == Abandon(D) /\ UNCHANGED <<content, stable>>

PowerLoss ==
    /\ Abandon(Tasks)
    /\ content' \in {content, stable}
    /\ stable' = content'

Next ==
    \/ \E t \in Tasks : \/ Open(t) \/ Install(t) \/ Acknowledge(t)
                        \/ Refuse(t) \/ Fail(t) \/ Close(t)
    \/ \E D \in SUBSET Tasks : Crash(D)
    \/ PowerLoss

Spec == Init /\ [][Next]_vars
=============================================================================
