---------------------------- MODULE MCStateStore ----------------------------
(***************************************************************************)
(* Instances of StateStore: users.json has no user, or one with the        *)
(* settings a or b; threads of the host-agent and kvnctl use it.           *)
(***************************************************************************)
EXTENDS StateStore, TLC

CONSTANTS t1, t2, k, agent, cli

\* One agent thread and one kvnctl process, over all contents.
TwoTasks == {t1, k}
TwoProcessOf == (t1 :> agent) @@ (k :> cli)

\* Two threads of the agent share its thread lock; kvnctl competes by the file lock.
ThreeTasks == {t1, t2, k}
ThreeProcessOf == (t1 :> agent) @@ (t2 :> agent) @@ (k :> cli)

MCProcesses == {agent, cli}
KvnctlOnly == {k}
Empty == ""

FullContents == {"", "a", "b"}
FullMutators == {"create", "edit", "remove"}
FullMutate ==
    "create" :> (("" :> "a") @@ ("a" :> Rejected) @@ ("b" :> Rejected))
    @@ "edit" :> (("" :> Rejected) @@ ("a" :> "b") @@ ("b" :> "b"))
    @@ "remove" :> (("" :> Rejected) @@ ("a" :> "") @@ ("b" :> ""))

\* The lock protocol does not look at contents: one user, switched on and off.
SmallContents == {"", "a"}
SmallMutators == {"toggle"}
SmallMutate == "toggle" :> (("" :> "a") @@ ("a" :> ""))
=============================================================================
