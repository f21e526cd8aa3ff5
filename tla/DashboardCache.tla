---------------------------- MODULE DashboardCache ----------------------------
(***************************************************************************)
(* DashboardSnapshotCache of the host-agent (dispatcher.py): a background  *)
(* single-flight cache of the sources of the dashboard.                    *)
(*                                                                         *)
(* A source shows the state of the host, here a version that every service *)
(* action increases before it invalidates the sources it touched.  get()   *)
(* returns what is cached and, if a source is due and no refresh runs,     *)
(* starts a thread that collects the due sources one after another.  Time  *)
(* is abstracted to its effect: an item may become due at any moment.      *)
(***************************************************************************)
EXTENDS Integers, Sequences, SequencesExt, FiniteSets

CONSTANTS
    Order,          \* the sources, in the order of DASHBOARD_SOURCE_TTLS
    Base,           \* derived sources, each with the source it is computed from
    Invalidated,    \* the sources a service action invalidates
    Refreshers,     \* the identities of refresh threads
    MaxVersion      \* bound on the service actions

Sources == ToSet(Order)
Derived == DOMAIN Base
Before(s, x) == \E i, j \in DOMAIN Order : i < j /\ Order[i] = s /\ Order[j] = x

ASSUME DashboardAssumption ==
    /\ Order \in Seq(Sources) /\ IsInjective(Order) /\ Order # <<>>
    /\ Derived \subseteq Sources
    /\ \A d \in Derived : Base[d] \in Sources \ Derived
    /\ Invalidated \subseteq Sources
    /\ MaxVersion \in Nat

VARIABLES
    world,          \* the version of the host
    acting,         \* a service action has changed it and not yet invalidated
    items,          \* _items
    generations,    \* _generations
    refreshing,     \* _refreshing
    refresher,      \* what each refresh thread is at
    required,       \* history: the version of the host at the last invalidation
    collected       \* history: the generation at which the last call of the
                    \* loader of a source that has ended had begun

cache == <<items, generations, refreshing>>
vars == <<world, acting, cache, refresher, required, collected>>

NoData == -1
Version == 0..MaxVersion
Data == Version \cup {NoData}

NoItem == [data |-> NoData, error |-> FALSE, due |-> TRUE]
Sleeping == [pc |-> "idle", names |-> {}, source |-> Order[1],
             context |-> [s \in Sources |-> NoData], generation |-> 0, result |-> NoData]

Item == [data : Data, error : BOOLEAN, due : BOOLEAN]
Refresher ==
    [pc : {"idle", "start", "next", "load", "store", "fail"}, names : SUBSET Sources, source : Sources,
     context : [Sources -> Data], generation : Version, result : Data]

\* Every variable has its type.
TypeOK ==
    /\ world \in Version /\ acting \in BOOLEAN /\ refreshing \in BOOLEAN
    /\ items \in [Sources -> Item]
    /\ generations \in [Sources -> Version]
    /\ refresher \in [Refreshers -> Refresher]
    /\ required \in [Sources -> Version]
    /\ collected \in [Sources -> Version]

Init ==
    /\ world = 0 /\ acting = FALSE
    /\ items = [s \in Sources |-> NoItem]
    /\ generations = [s \in Sources |-> 0]
    /\ refreshing = FALSE
    /\ refresher = [r \in Refreshers |-> Sleeping]
    /\ required = [s \in Sources |-> 0]
    /\ collected = [s \in Sources |-> 0]

(***************************************************************************)
(* Service actions.                                                        *)
(***************************************************************************)

Act ==
    /\ ~acting /\ world < MaxVersion
    /\ world' = world + 1 /\ acting' = TRUE
    /\ UNCHANGED <<cache, refresher, required, collected>>

\* Mutant: what is cached keeps its next_refresh.
InvalidateKeepsItems ==
    /\ acting /\ acting' = FALSE
    /\ generations' = [s \in Sources |->
                         IF s \in Invalidated THEN generations[s] + 1 ELSE generations[s]]
    /\ required' = [s \in Sources |-> IF s \in Invalidated THEN world ELSE required[s]]
    /\ UNCHANGED <<world, items, refreshing, refresher, collected>>

Invalidate ==
    /\ acting /\ acting' = FALSE
    /\ generations' = [s \in Sources |->
                         IF s \in Invalidated THEN generations[s] + 1 ELSE generations[s]]
    /\ items' = [s \in Sources |->
                   IF s \in Invalidated THEN [items[s] EXCEPT !.due = TRUE] ELSE items[s]]
    /\ required' = [s \in Sources |-> IF s \in Invalidated THEN world ELSE required[s]]
    /\ UNCHANGED <<world, refreshing, refresher, collected>>

\* next_refresh comes.
Expire(s) ==
    /\ ~items[s].due
    /\ items' = [items EXCEPT ![s] = [items[s] EXCEPT !.due = TRUE]]
    /\ UNCHANGED <<world, acting, generations, refreshing, refresher, required, collected>>

(***************************************************************************)
(* get() and the refresh thread.                                           *)
(***************************************************************************)

Due == {s \in Sources : items[s].due}

Becomes(r, next) == refresher' = [refresher EXCEPT ![r] = next]

Start(r) ==
    /\ refresher[r].pc = "idle" /\ Due # {}
    /\ refreshing' = TRUE
    /\ Becomes(r, [Sleeping EXCEPT !.pc = "start", !.names = Due])
    /\ UNCHANGED <<world, acting, items, generations, required, collected>>

\* Mutant: every get() that finds a source due starts a thread.
GetAlways(r) == Start(r)

\* A get() that starts nothing changes nothing.
Get(r) == ~refreshing /\ Start(r)

TakeContext(r) ==
    /\ refresher[r].pc = "start"
    /\ Becomes(r, [refresher[r] EXCEPT !.pc = "next", !.context = [s \in Sources |-> items[s].data]])
    /\ UNCHANGED <<world, acting, cache, required, collected>>

\* The first of the sources left, and its generation.
TakeNext(r) ==
    /\ refresher[r].pc = "next"
    /\ \E s \in refresher[r].names :
        /\ \A x \in refresher[r].names \ {s} : Before(s, x)
        /\ Becomes(r, [refresher[r] EXCEPT !.pc = "load", !.names = refresher[r].names \ {s},
                                           !.source = s, !.generation = generations[s]])
    /\ UNCHANGED <<world, acting, cache, required, collected>>

\* After the last source the thread ends.
End(r) ==
    /\ refresher[r].pc = "next" /\ refresher[r].names = {}
    /\ refreshing' = FALSE
    /\ Becomes(r, Sleeping)
    /\ UNCHANGED <<world, acting, items, generations, required, collected>>

\* What the loader sees: a derived source takes its base from the context.
Loaded(r) ==
    LET s == refresher[r].source IN
    IF s \in Derived /\ refresher[r].context[Base[s]] # NoData
    THEN refresher[r].context[Base[s]] ELSE world

Load(r) ==
    /\ refresher[r].pc = "load"
    /\ Becomes(r, [refresher[r] EXCEPT !.pc = "store", !.result = Loaded(r)])
    /\ UNCHANGED <<world, acting, cache, required, collected>>

LoadFails(r) ==
    /\ refresher[r].pc = "load"
    /\ Becomes(r, [refresher[r] EXCEPT !.pc = "fail"])
    /\ UNCHANGED <<world, acting, cache, required, collected>>

\* Mutant: an invalidation during the call is not noticed.
OutdatedNever(r) == FALSE

\* Was the source invalidated while it was being collected?
Outdated(r) == generations[refresher[r].source] # refresher[r].generation

Stored(r, item, context) ==
    LET s == refresher[r].source IN
    /\ items' = [items EXCEPT ![s] = item]
    /\ Becomes(r, [refresher[r] EXCEPT !.pc = "next", !.context = context, !.result = NoData])
    /\ collected' = [collected EXCEPT ![s] = refresher[r].generation]
    /\ UNCHANGED <<world, acting, generations, refreshing, required>>

Store(r) ==
    /\ refresher[r].pc = "store"
    /\ Stored(r, [data |-> refresher[r].result, error |-> FALSE, due |-> Outdated(r)],
              [refresher[r].context EXCEPT ![refresher[r].source] = refresher[r].result])

\* The error is shown beside the last data.
StoreError(r) ==
    /\ refresher[r].pc = "fail"
    /\ Stored(r, [data |-> items[refresher[r].source].data, error |-> TRUE, due |-> Outdated(r)],
              refresher[r].context)

Refresh(r) ==
    TakeContext(r) \/ TakeNext(r) \/ End(r) \/ Load(r) \/ LoadFails(r) \/ Store(r) \/ StoreError(r)

Next ==
    \/ Act \/ Invalidate
    \/ \E s \in Sources : Expire(s)
    \/ \E r \in Refreshers : Get(r) \/ Refresh(r)

Spec == Init /\ [][Next]_vars

\* The thread goes on, and an open dashboard keeps asking.
FairSpec == /\ Spec
            /\ \A r \in Refreshers : WF_vars(Refresh(r))
            /\ WF_vars(\E r \in Refreshers : Get(r))

(***************************************************************************)
(* Properties.                                                             *)
(***************************************************************************)

FreshAfterInvalidation(S) ==
    \A s \in S : ~items[s].due /\ ~items[s].error => items[s].data >= required[s]

\* A source that was invalidated is not shown as it was before for another TTL,
\* also when a refresh was collecting it at that moment.
CollectedAfterInvalidation == FreshAfterInvalidation(Sources \ Derived)

\* The same of derived sources ("schedule a refresh without losing the request
\* during a background collection", the docstring of invalidate()).  No run checks
\* it: it does not hold (README.md, known divergences).
DerivedAfterInvalidation == FreshAfterInvalidation(Sources)

\* The dashboard never goes back: neither a failure nor another thread replaces
\* what is shown of a source by something older.
SnapshotNeverGoesBack == [][\A s \in Sources : items'[s].data >= items[s].data]_vars

\* While clients ask, every invalidated source is collected again, by a call that
\* began after the invalidation.
InvalidationIsServed ==
    \A s \in Sources : collected[s] # generations[s] ~> collected[s] = generations[s]
=============================================================================
