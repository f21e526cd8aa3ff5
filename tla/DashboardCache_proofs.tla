------------------------ MODULE DashboardCache_proofs ------------------------
(***************************************************************************)
(* What the dashboard cache guarantees for any sources, any dependencies   *)
(* between them and any number of refresh threads: one refresh at a time,  *)
(* no snapshot replaced by an older one, and no source shown as fresh from *)
(* before its invalidation.                                                *)
(***************************************************************************)
EXTENDS DashboardCache, TLAPS

Collecting == {"load", "store", "fail"}
Active(r) == refresher[r].pc # "idle"

\* A refresh runs alone (single flight).
SingleInv == \A r \in Refreshers : Active(r) => refreshing /\ \A u \in Refreshers : Active(u) => u = r

\* Nothing is newer than the host, and an action is invalidated once.
WorldInv == \A s \in Sources :
    /\ items[s].data <= world /\ required[s] <= world /\ generations[s] <= world
    /\ acting => generations[s] < world

\* What a thread knows of the source it collects.
Current(r) == refresher[r].generation = generations[refresher[r].source]

Collected(r) ==
    /\ refresher[r].pc \in Collecting => refresher[r].generation <= generations[refresher[r].source]
    /\ refresher[r].pc = "store" /\ refresher[r].source \notin Derived /\ Current(r) =>
          refresher[r].result >= required[refresher[r].source]

CollectInv == CollectedAfterInvalidation /\ \A r \in Refreshers : Collected(r)

\* The context of a refresh is what is shown, because nobody else writes it ...
Seen(r) == refresher[r].pc \in Collecting \cup {"next"}
  => \A s \in Sources : refresher[r].context[s] = items[s].data

\* ... so a source computed from another is never newer than that one ...
DerivedInv == \A d \in Derived : items[Base[d]].data # NoData => items[d].data <= items[Base[d]].data

\* ... and what has been collected is not older than what it replaces.
FromBase(s) == s \in Derived /\ items[Base[s]].data # NoData

Newer(r) ==
    LET s == refresher[r].source
        v == refresher[r].result
    IN  refresher[r].pc = "store" =>
          /\ v <= world
          /\ FromBase(s) => v = items[Base[s]].data
          /\ ~ FromBase(s) => \A x \in Sources : items[x].data <= v

FlightInv == DerivedInv /\ \A r \in Refreshers : Seen(r) /\ Newer(r)

\* The steps of a refresh thread, on its record.
Wakes(r, names) == [r EXCEPT !.pc = "start", !.names = names]
Looks(r, context) == [r EXCEPT !.pc = "next", !.context = context]
Takes(r, names, s, g) == [r EXCEPT !.pc = "load", !.names = names, !.source = s, !.generation = g]
Loads(r, v) == [r EXCEPT !.pc = "store", !.result = v]
Fails(r) == [r EXCEPT !.pc = "fail"]
Stores(r, context) == [r EXCEPT !.pc = "next", !.context = context, !.result = NoData]

\* Only the record of r may change.
Moves(r) == refresher' \in [Refreshers -> Refresher] /\ \A u \in Refreshers \ {r} : refresher'[u] = refresher[u]

\* What the model is built from has its type.
LEMMA Constants ==
    /\ Derived \subseteq Sources /\ Invalidated \subseteq Sources /\ MaxVersion \in Nat
    /\ \A d \in Derived : Base[d] \in Sources /\ Base[d] \notin Derived
    /\ Sleeping \in Refresher /\ NoItem \in Item /\ Sleeping.pc = "idle"
    /\ 0 \in Version /\ NoData \in Data /\ Version \subseteq Int /\ Data \subseteq Int
<1> USE DashboardAssumption DEF DashboardAssumption
<1>1. 0 \in Version /\ NoData \in Data /\ Version \subseteq Int /\ Data \subseteq Int /\ Version \subseteq Data
  BY DEF Version, NoData, Data
<1>2. Order[1] \in Sources
  BY DEF Sources
<1>3. Sleeping \in Refresher
  BY <1>1, <1>2 DEF Sleeping, Refresher
<1>4. NoItem \in Item
  BY <1>1 DEF NoItem, Item
<1> QED BY <1>1, <1>3, <1>4 DEF Sleeping

\* The fields of a refresh thread and of an item.
LEMMA Fields ==
    ASSUME NEW r \in Refresher
    PROVE  /\ r.names \subseteq Sources /\ r.source \in Sources /\ r.context \in [Sources -> Data]
           /\ r.generation \in Version /\ r.result \in Data
BY DEF Refresher

LEMMA ItemFields == ASSUME NEW i \in Item PROVE i.data \in Data /\ i.error \in BOOLEAN /\ i.due \in BOOLEAN
BY DEF Item

\* What each step assigns and what it keeps.
LEMMA WakesFields ==
    ASSUME NEW r \in Refresher, NEW names \in SUBSET Sources,
           NEW q, q = Wakes(r, names)
    PROVE  q \in Refresher /\ q.pc = "start"
BY Constants DEF Refresher, Wakes

LEMMA LooksFields ==
    ASSUME NEW r \in Refresher, NEW context \in [Sources -> Data],
           NEW q, q = Looks(r, context)
    PROVE  q \in Refresher /\ q.pc = "next" /\ q.context = context
BY Constants DEF Refresher, Looks

LEMMA TakesFields ==
    ASSUME NEW r \in Refresher, NEW names \in SUBSET Sources, NEW s \in Sources, NEW g \in Version,
           NEW q, q = Takes(r, names, s, g)
    PROVE  q \in Refresher /\ q.pc = "load" /\ q.source = s /\ q.generation = g /\ q.context = r.context
BY Constants DEF Refresher, Takes

LEMMA LoadsFields ==
    ASSUME NEW r \in Refresher, NEW v \in Data,
           NEW q, q = Loads(r, v)
    PROVE  q \in Refresher /\ q.pc = "store" /\ q.result = v /\ q.source = r.source
           /\ q.generation = r.generation /\ q.context = r.context
BY Constants DEF Refresher, Loads

LEMMA FailsFields ==
    ASSUME NEW r \in Refresher,
           NEW q, q = Fails(r)
    PROVE  q \in Refresher /\ q.pc = "fail" /\ q.source = r.source /\ q.generation = r.generation
           /\ q.context = r.context
BY Constants DEF Refresher, Fails

LEMMA StoresFields ==
    ASSUME NEW r \in Refresher, NEW context \in [Sources -> Data],
           NEW q, q = Stores(r, context)
    PROVE  q \in Refresher /\ q.pc = "next" /\ q.context = context
BY Constants DEF Refresher, Stores

\* A thread changes its own record.
LEMMA Others ==
    ASSUME TypeOK, NEW r \in Refreshers, NEW q \in Refresher, Becomes(r, q)
    PROVE  Moves(r) /\ refresher'[r] = q
BY DEF TypeOK, Becomes, Moves

LEMMA Now == ASSUME TypeOK, NEW r \in Refreshers PROVE refresher[r] \in Refresher
BY DEF TypeOK

LEMMA Shown == ASSUME TypeOK, NEW s \in Sources PROVE items[s] \in Item /\ items[s].data \in Data
BY ItemFields DEF TypeOK

\* What the actions do to the record of their thread.
LEMMA StartEffect ==
    ASSUME TypeOK, NEW r \in Refreshers, Start(r)
    PROVE  Moves(r) /\ refresher'[r].pc = "start"
<1>1. Becomes(r, Wakes(Sleeping, Due))
  BY DEF Start, Wakes
<1>2. Due \in SUBSET Sources
  BY DEF Due
<1> QED BY <1>1, <1>2, Constants, WakesFields, Others

LEMMA TakeContextEffect ==
    ASSUME TypeOK, NEW r \in Refreshers, TakeContext(r)
    PROVE  Moves(r) /\ refresher'[r].pc = "next" /\ refresher'[r].context = [s \in Sources |-> items[s].data]
<1> DEFINE context == [s \in Sources |-> items[s].data]
<1>1. Becomes(r, Looks(refresher[r], context))
  BY DEF TakeContext, Looks
<1>2. context \in [Sources -> Data] /\ refresher[r] \in Refresher
  BY Now, Shown
<1> HIDE DEF context
<1>3. Moves(r) /\ refresher'[r].pc = "next" /\ refresher'[r].context = context
  BY <1>1, <1>2, LooksFields, Others
<1> QED BY <1>3 DEF context

LEMMA TakeNextEffect ==
    ASSUME TypeOK, NEW r \in Refreshers, TakeNext(r)
    PROVE  \E s \in Sources :
             /\ Moves(r) /\ refresher'[r].pc = "load" /\ refresher'[r].source = s
             /\ refresher'[r].generation = generations[s] /\ refresher'[r].context = refresher[r].context
<1>1. PICK s \in refresher[r].names : Becomes(r, Takes(refresher[r], refresher[r].names \ {s}, s, generations[s]))
  BY DEF TakeNext, Takes
<1>2. refresher[r] \in Refresher /\ refresher[r].names \subseteq Sources
  BY Now, Fields
<1> DEFINE names == refresher[r].names \ {s}
           g == generations[s]
<1>3. s \in Sources /\ names \in SUBSET Sources /\ g \in Version
  BY <1>2 DEF TypeOK
<1>4. Becomes(r, Takes(refresher[r], names, s, g))
  BY <1>1
<1> HIDE DEF names, g
<1>5. Moves(r) /\ refresher'[r].pc = "load" /\ refresher'[r].source = s
      /\ refresher'[r].generation = g /\ refresher'[r].context = refresher[r].context
  BY <1>2, <1>3, <1>4, TakesFields, Others
<1> QED BY <1>3, <1>5 DEF g

LEMMA EndEffect ==
    ASSUME TypeOK, NEW r \in Refreshers, End(r)
    PROVE  Moves(r) /\ refresher'[r].pc = "idle"
BY Constants, Others DEF End

\* What is loaded is a version; the host itself, or the base from the context.
LEMMA LoadedType == ASSUME TypeOK, NEW r \in Refreshers PROVE Loaded(r) \in Version
<1>1. refresher[r].context \in [Sources -> Data] /\ world \in Version
  BY Now, Fields DEF TypeOK
<1>2. ASSUME NEW s \in Derived PROVE refresher[r].context[Base[s]] \in Data
  BY <1>1, Constants
<1> QED BY <1>1, <1>2 DEF Loaded, Data

LEMMA LoadEffect ==
    ASSUME TypeOK, NEW r \in Refreshers, Load(r)
    PROVE  Moves(r) /\ refresher'[r].pc = "store" /\ refresher'[r].result = Loaded(r)
           /\ refresher'[r].source = refresher[r].source /\ refresher'[r].generation = refresher[r].generation
           /\ refresher'[r].context = refresher[r].context
<1>1. Becomes(r, Loads(refresher[r], Loaded(r)))
  BY DEF Load, Loads
<1>2. refresher[r] \in Refresher /\ Loaded(r) \in Data
  BY Now, LoadedType DEF Data
<1> QED BY <1>1, <1>2, LoadsFields, Others

LEMMA LoadFailsEffect ==
    ASSUME TypeOK, NEW r \in Refreshers, LoadFails(r)
    PROVE  Moves(r) /\ refresher'[r].pc = "fail" /\ refresher'[r].source = refresher[r].source
           /\ refresher'[r].generation = refresher[r].generation /\ refresher'[r].context = refresher[r].context
<1>1. Becomes(r, Fails(refresher[r]))
  BY DEF LoadFails, Fails
<1> QED BY <1>1, Now, FailsFields, Others

LEMMA StoredEffect ==
    ASSUME TypeOK, NEW r \in Refreshers, NEW item \in Item, NEW context \in [Sources -> Data],
           Stored(r, item, context)
    PROVE  /\ Moves(r) /\ refresher'[r].pc = "next" /\ refresher'[r].context = context
           /\ items' = [items EXCEPT ![refresher[r].source] = item]
           /\ items' \in [Sources -> Item] /\ collected' \in [Sources -> Version]
<1>1. Becomes(r, Stores(refresher[r], context))
  BY DEF Stored, Stores
<1>2. Moves(r) /\ refresher'[r].pc = "next" /\ refresher'[r].context = context
  BY <1>1, Now, StoresFields, Others
<1>3. items' = [items EXCEPT ![refresher[r].source] = item]
      /\ collected' = [collected EXCEPT ![refresher[r].source] = refresher[r].generation]
  BY DEF Stored
<1>4. refresher[r].source \in Sources /\ refresher[r].generation \in Version
  BY Now, Fields
<1> QED BY <1>2, <1>3, <1>4 DEF TypeOK

\* What the two ways to end a call store.
StoredItem(r) == [data |-> refresher[r].result, error |-> FALSE, due |-> Outdated(r)]
ErrorItem(r) == [data |-> items[refresher[r].source].data, error |-> TRUE, due |-> Outdated(r)]
StoredContext(r) == [refresher[r].context EXCEPT ![refresher[r].source] = refresher[r].result]

LEMMA StoreEffect ==
    ASSUME TypeOK, NEW r \in Refreshers, Store(r)
    PROVE  /\ Moves(r) /\ refresher'[r].pc = "next" /\ refresher'[r].context = StoredContext(r)
           /\ items' = [items EXCEPT ![refresher[r].source] = StoredItem(r)]
           /\ items' \in [Sources -> Item] /\ collected' \in [Sources -> Version]
<1>1. StoredItem(r) \in Item
  BY Now, Fields DEF StoredItem, Item, Outdated
<1>2. StoredContext(r) \in [Sources -> Data]
  BY Now, Fields DEF StoredContext
<1>3. Stored(r, StoredItem(r), StoredContext(r))
  BY DEF Store, StoredItem, StoredContext
<1> QED BY <1>1, <1>2, <1>3, StoredEffect

LEMMA StoreErrorEffect ==
    ASSUME TypeOK, NEW r \in Refreshers, StoreError(r)
    PROVE  /\ Moves(r) /\ refresher'[r].pc = "next" /\ refresher'[r].context = refresher[r].context
           /\ items' = [items EXCEPT ![refresher[r].source] = ErrorItem(r)]
           /\ items' \in [Sources -> Item] /\ collected' \in [Sources -> Version]
<1>1. ErrorItem(r) \in Item
  BY Now, Fields, Shown DEF ErrorItem, Item, Outdated
<1>2. refresher[r].context \in [Sources -> Data]
  BY Now, Fields
<1>3. Stored(r, ErrorItem(r), refresher[r].context)
  BY DEF StoreError, ErrorItem
<1> QED BY <1>1, <1>2, <1>3, StoredEffect

\* The types hold at the start.
LEMMA TypeInit == Init => TypeOK
BY Constants DEF Init, TypeOK


\* Every step keeps the types.
LEMMA TypeStep == TypeOK /\ WorldInv /\ [Next]_vars => TypeOK'
<1> SUFFICES ASSUME TypeOK, WorldInv, [Next]_vars PROVE TypeOK'
  OBVIOUS
<1> USE Constants DEF TypeOK, Moves
<1>1. CASE Act
  <2>1. world + 1 \in Version
    BY <1>1 DEF Act, Version
  <2> QED BY <1>1, <2>1 DEF Act, cache
<1>2. CASE Invalidate
  <2>1. ASSUME NEW s \in Sources PROVE generations[s] + 1 \in Version
    <3> DEFINE g == generations[s]
    <3>1. g \in Version /\ world \in Version /\ g < world
      BY <1>2 DEF Invalidate, WorldInv
    <3> HIDE DEF g
    <3>2. g + 1 \in Version
      BY <3>1 DEF Version
    <3> QED BY <3>2 DEF g
  <2>2. generations' \in [Sources -> Version] /\ required' \in [Sources -> Version]
    BY <1>2, <2>1 DEF Invalidate
  <2>3. items' \in [Sources -> Item]
    <3>1. \A s \in Sources : [items[s] EXCEPT !.due = TRUE] \in Item
      BY DEF Item
    <3> QED BY <1>2, <3>1 DEF Invalidate
  <2> QED BY <1>2, <2>2, <2>3 DEF Invalidate
<1>3. ASSUME NEW s \in Sources, Expire(s) PROVE TypeOK'
  <2>1. [items[s] EXCEPT !.due = TRUE] \in Item
    BY DEF Item
  <2> QED BY <1>3, <2>1 DEF Expire
<1>4. ASSUME NEW r \in Refreshers, Get(r) PROVE TypeOK'
  BY <1>4, StartEffect DEF Get, Start
<1>5. ASSUME NEW r \in Refreshers, TakeContext(r) PROVE TypeOK'
  BY <1>5, TakeContextEffect DEF TakeContext, cache
<1>6. ASSUME NEW r \in Refreshers, TakeNext(r) PROVE TypeOK'
  BY <1>6, TakeNextEffect DEF TakeNext, cache
<1>7. ASSUME NEW r \in Refreshers, End(r) PROVE TypeOK'
  BY <1>7, EndEffect DEF End
<1>8. ASSUME NEW r \in Refreshers, Load(r) PROVE TypeOK'
  BY <1>8, LoadEffect DEF Load, cache
<1>9. ASSUME NEW r \in Refreshers, LoadFails(r) PROVE TypeOK'
  BY <1>9, LoadFailsEffect DEF LoadFails, cache
<1>10. ASSUME NEW r \in Refreshers, Store(r) PROVE TypeOK'
  BY <1>10, StoreEffect DEF Store, Stored
<1>11. ASSUME NEW r \in Refreshers, StoreError(r) PROVE TypeOK'
  BY <1>11, StoreErrorEffect DEF StoreError, Stored
<1>12. CASE UNCHANGED vars
  BY <1>12 DEF vars, cache
<1> QED
  BY <1>1, <1>2, <1>3, <1>4, <1>5, <1>6, <1>7, <1>8, <1>9, <1>10, <1>11, <1>12
  DEF Next, Refresh

\* Nothing runs at the start, and nothing is newer than the host.
LEMMA WorldInit == Init => WorldInv
BY Constants DEF Init, WorldInv, NoItem, NoData

LEMMA SingleInit == Init => SingleInv
BY Constants DEF Init, SingleInv, Active

\* A thread that goes on stays the only one.
LEMMA SingleMove ==
    ASSUME SingleInv, NEW r \in Refreshers, Active(r), Moves(r), refreshing' = refreshing
    PROVE  SingleInv'
BY DEF SingleInv, Active, Moves

\* Every step keeps a single refresh.
LEMMA SingleStep == TypeOK /\ SingleInv /\ [Next]_vars => SingleInv'
<1> SUFFICES ASSUME TypeOK, SingleInv, [Next]_vars PROVE SingleInv'
  OBVIOUS
<1> USE Constants
<1>1. CASE Act
  BY <1>1 DEF Act, cache, SingleInv, Active
<1>2. CASE Invalidate
  BY <1>2 DEF Invalidate, SingleInv, Active
<1>3. ASSUME NEW s \in Sources, Expire(s) PROVE SingleInv'
  BY <1>3 DEF Expire, SingleInv, Active
<1>4. ASSUME NEW r \in Refreshers, Get(r) PROVE SingleInv'
  <2>1. Moves(r) /\ refresher'[r].pc = "start" /\ refreshing' = TRUE /\ ~ refreshing
    BY <1>4, StartEffect DEF Get, Start
  <2> QED BY <2>1 DEF SingleInv, Active, Moves
<1>5. ASSUME NEW r \in Refreshers, TakeContext(r) PROVE SingleInv'
  <2>1. Active(r) /\ Moves(r) /\ refreshing' = refreshing
    BY <1>5, TakeContextEffect DEF TakeContext, Active, cache
  <2> QED BY <2>1, SingleMove
<1>6. ASSUME NEW r \in Refreshers, TakeNext(r) PROVE SingleInv'
  <2>1. Active(r) /\ Moves(r) /\ refreshing' = refreshing
    BY <1>6, TakeNextEffect DEF TakeNext, Active, cache
  <2> QED BY <2>1, SingleMove
<1>7. ASSUME NEW r \in Refreshers, End(r) PROVE SingleInv'
  <2>1. Moves(r) /\ refresher'[r].pc = "idle" /\ Active(r)
    BY <1>7, EndEffect DEF End, Active
  <2> QED BY <2>1 DEF SingleInv, Active, Moves
<1>8. ASSUME NEW r \in Refreshers, Load(r) PROVE SingleInv'
  <2>1. Active(r) /\ Moves(r) /\ refreshing' = refreshing
    BY <1>8, LoadEffect DEF Load, Active, cache
  <2> QED BY <2>1, SingleMove
<1>9. ASSUME NEW r \in Refreshers, LoadFails(r) PROVE SingleInv'
  <2>1. Active(r) /\ Moves(r) /\ refreshing' = refreshing
    BY <1>9, LoadFailsEffect DEF LoadFails, Active, cache
  <2> QED BY <2>1, SingleMove
<1>10. ASSUME NEW r \in Refreshers, Store(r) PROVE SingleInv'
  <2>1. Active(r) /\ Moves(r) /\ refreshing' = refreshing
    BY <1>10, StoreEffect DEF Store, Active, Stored
  <2> QED BY <2>1, SingleMove
<1>11. ASSUME NEW r \in Refreshers, StoreError(r) PROVE SingleInv'
  <2>1. Active(r) /\ Moves(r) /\ refreshing' = refreshing
    BY <1>11, StoreErrorEffect DEF StoreError, Active, Stored
  <2> QED BY <2>1, SingleMove
<1>12. CASE UNCHANGED vars
  BY <1>12 DEF vars, cache, SingleInv, Active
<1> QED
  BY <1>1, <1>2, <1>3, <1>4, <1>5, <1>6, <1>7, <1>8, <1>9, <1>10, <1>11, <1>12
  DEF Next, Refresh

\* What is shown of every source stays.
DataKept == \A s \in Sources : items'[s].data = items[s].data

LEMMA InvalidateKeeps ==
    ASSUME TypeOK, Invalidate
    PROVE  DataKept /\ \A s \in Sources : items'[s].error = items[s].error
<1>1. \A s \in Sources : [items[s] EXCEPT !.due = TRUE].data = items[s].data
                         /\ [items[s] EXCEPT !.due = TRUE].error = items[s].error
  BY DEF TypeOK, Item
<1> QED BY <1>1 DEF Invalidate, DataKept

LEMMA ExpireKeeps ==
    ASSUME TypeOK, NEW s \in Sources, Expire(s)
    PROVE  DataKept /\ \A x \in Sources : items'[x] = items[x] \/ items'[x].due
<1> DEFINE item == [items[s] EXCEPT !.due = TRUE]
<1>1. item.data = items[s].data /\ item.due
  BY DEF TypeOK, Item
<1>2. items' = [items EXCEPT ![s] = item]
  BY DEF Expire
<1> HIDE DEF item
<1> QED BY <1>1, <1>2 DEF TypeOK, DataKept

LEMMA StoreErrorKeeps ==
    ASSUME TypeOK, NEW r \in Refreshers, StoreError(r)
    PROVE  DataKept
<1> DEFINE source == refresher[r].source
           item == ErrorItem(r)
<1>1. item.data = items[source].data
  BY DEF ErrorItem
<1>2. items' = [items EXCEPT ![source] = item]
  BY StoreErrorEffect
<1> HIDE DEF source, item
<1> QED BY <1>1, <1>2 DEF DataKept, TypeOK

\* A call that succeeded replaces the data of its source only.
LEMMA StoreData ==
    ASSUME TypeOK, NEW r \in Refreshers, Store(r)
    PROVE  /\ items'[refresher[r].source].data = refresher[r].result
           /\ \A s \in Sources \ {refresher[r].source} : items'[s] = items[s]
<1> DEFINE source == refresher[r].source
           item == StoredItem(r)
<1>1. item.data = refresher[r].result /\ source \in Sources
  BY Now, Fields DEF StoredItem
<1>2. items' = [items EXCEPT ![source] = item]
  BY StoreEffect
<1> HIDE DEF item
<1>3. items'[source] = item /\ \A s \in Sources \ {source} : items'[s] = items[s]
  <2> HIDE DEF source
  <2> QED BY <1>1, <1>2 DEF TypeOK
<1> QED BY <1>1, <1>3

\* What is compared are integers.
LEMMA Numbers ==
    ASSUME TypeOK
    PROVE  /\ world \in Int
           /\ \A s \in Sources : items[s].data \in Int /\ required[s] \in Int /\ generations[s] \in Int
           /\ \A r \in Refreshers : refresher[r].result \in Int /\ refresher[r].generation \in Int
<1>1. \A r \in Refreshers : refresher[r].result \in Data /\ refresher[r].generation \in Version
  BY Now, Fields
<1>2. \A s \in Sources : items[s].data \in Data
  BY Shown
<1> QED BY <1>1, <1>2, Constants DEF TypeOK

\* No step shows anything newer than the host.
LEMMA WorldStep == TypeOK /\ WorldInv /\ FlightInv /\ [Next]_vars => WorldInv'
<1> SUFFICES ASSUME TypeOK, WorldInv, FlightInv, [Next]_vars PROVE WorldInv'
  OBVIOUS
<1> USE Constants, Numbers
<1>1. CASE Act
  BY <1>1 DEF Act, cache, WorldInv
<1>2. CASE Invalidate
  BY <1>2, InvalidateKeeps DEF Invalidate, WorldInv, DataKept
<1>3. ASSUME NEW s \in Sources, Expire(s) PROVE WorldInv'
  BY <1>3, ExpireKeeps DEF Expire, WorldInv, DataKept
<1>4. ASSUME NEW r \in Refreshers, Get(r) PROVE WorldInv'
  BY <1>4 DEF Get, Start, WorldInv
<1>5. ASSUME NEW r \in Refreshers, TakeContext(r) PROVE WorldInv'
  BY <1>5 DEF TakeContext, WorldInv, cache
<1>6. ASSUME NEW r \in Refreshers, TakeNext(r) PROVE WorldInv'
  BY <1>6 DEF TakeNext, WorldInv, cache
<1>7. ASSUME NEW r \in Refreshers, End(r) PROVE WorldInv'
  BY <1>7 DEF End, WorldInv
<1>8. ASSUME NEW r \in Refreshers, Load(r) PROVE WorldInv'
  BY <1>8 DEF Load, WorldInv, cache
<1>9. ASSUME NEW r \in Refreshers, LoadFails(r) PROVE WorldInv'
  BY <1>9 DEF LoadFails, WorldInv, cache
<1>10. ASSUME NEW r \in Refreshers, Store(r) PROVE WorldInv'
  <2>1. refresher[r].result <= world
    BY <1>10 DEF Store, FlightInv, Newer
  <2>2. world' = world /\ acting' = acting /\ generations' = generations /\ required' = required
    BY <1>10 DEF Store, Stored
  <2>3. \A s \in Sources : items'[s].data <= world
    BY <1>10, <2>1, StoreData DEF WorldInv
  <2> QED BY <2>2, <2>3 DEF WorldInv
<1>11. ASSUME NEW r \in Refreshers, StoreError(r) PROVE WorldInv'
  <2>1. world' = world /\ acting' = acting /\ generations' = generations /\ required' = required
    BY <1>11 DEF StoreError, Stored
  <2> QED BY <1>11, <2>1, StoreErrorKeeps DEF WorldInv, DataKept
<1>12. CASE UNCHANGED vars
  BY <1>12 DEF vars, cache, WorldInv
<1> QED
  BY <1>1, <1>2, <1>3, <1>4, <1>5, <1>6, <1>7, <1>8, <1>9, <1>10, <1>11, <1>12
  DEF Next, Refresh

\* While a thread refreshes, no other one is at work.
LEMMA Alone ==
    ASSUME SingleInv, NEW r \in Refreshers, Active(r) \/ ~ refreshing, Moves(r)
    PROVE  \A u \in Refreshers \ {r} : refresher'[u].pc = "idle"
BY DEF SingleInv, Active, Moves

\* So only what it knows itself has to be shown again.
LEMMA FlightMove ==
    ASSUME SingleInv, NEW r \in Refreshers, Active(r) \/ ~ refreshing, Moves(r),
           DerivedInv', Seen(r)', Newer(r)'
    PROVE  FlightInv'
<1>1. \A u \in Refreshers \ {r} : Seen(u)' /\ Newer(u)'
  BY Alone DEF Seen, Newer, Collecting
<1> QED BY <1>1 DEF FlightInv

\* A step of nobody that keeps what is shown keeps it as well.
LEMMA FlightRest ==
    ASSUME TypeOK, FlightInv, DataKept, refresher' = refresher, world' \in Int, world <= world'
    PROVE  FlightInv'
<1> USE Constants, Numbers
<1>1. DerivedInv'
  BY DEF FlightInv, DerivedInv, DataKept
<1>2. ASSUME NEW r \in Refreshers PROVE Seen(r)' /\ Newer(r)'
  <2>1. refresher[r].source \in Sources /\ Seen(r) /\ Newer(r)
    BY Now, Fields DEF FlightInv
  <2>2. Seen(r)'
    BY <2>1 DEF Seen, DataKept
  <2>3. Newer(r)'
    BY <2>1 DEF Newer, FromBase, DataKept
  <2> QED BY <2>2, <2>3
<1> QED BY <1>1, <1>2 DEF FlightInv

LEMMA FlightInit == Init => FlightInv
BY Constants DEF Init, FlightInv, DerivedInv, Seen, Newer, Collecting, NoItem, NoData

\* A refresh goes on with what is shown.
LEMMA FlightStep == TypeOK /\ SingleInv /\ WorldInv /\ FlightInv /\ [Next]_vars => FlightInv'
<1> SUFFICES ASSUME TypeOK, SingleInv, WorldInv, FlightInv, [Next]_vars PROVE FlightInv'
  OBVIOUS
<1> USE Constants, Numbers
<1>1. CASE Act
  <2>1. DataKept /\ refresher' = refresher /\ world' \in Int /\ world <= world'
    BY <1>1 DEF Act, cache, DataKept
  <2> QED BY <2>1, FlightRest
<1>2. CASE Invalidate
  <2>1. refresher' = refresher /\ world' = world
    BY <1>2 DEF Invalidate
  <2>2. DataKept
    BY <1>2, InvalidateKeeps
  <2>3. world' \in Int /\ world <= world'
    BY <2>1
  <2> QED BY <2>1, <2>2, <2>3, FlightRest
<1>3. ASSUME NEW s \in Sources, Expire(s) PROVE FlightInv'
  <2>1. refresher' = refresher /\ world' = world
    BY <1>3 DEF Expire
  <2>2. DataKept
    BY <1>3, ExpireKeeps
  <2>3. world' \in Int /\ world <= world'
    BY <2>1
  <2> QED BY <2>1, <2>2, <2>3, FlightRest
<1>4. ASSUME NEW r \in Refreshers, Get(r) PROVE FlightInv'
  <2>1. ~ refreshing /\ Moves(r) /\ items' = items /\ refresher'[r].pc = "start"
    BY <1>4, StartEffect DEF Get, Start
  <2>2. DerivedInv'
    BY <2>1 DEF FlightInv, DerivedInv
  <2>3. Seen(r)' /\ Newer(r)'
    BY <2>1 DEF Seen, Newer, Collecting
  <2> QED BY <2>1, <2>2, <2>3, FlightMove
<1>5. ASSUME NEW r \in Refreshers, TakeContext(r) PROVE FlightInv'
  <2>1. Active(r) /\ Moves(r) /\ items' = items
    BY <1>5, TakeContextEffect DEF TakeContext, Active, cache
  <2>2. DerivedInv'
    BY <2>1 DEF FlightInv, DerivedInv
  <2>3. Seen(r)' /\ Newer(r)'
    BY <1>5, TakeContextEffect, <2>1 DEF TakeContext, FlightInv, Seen, Newer, Collecting
  <2> QED BY <2>1, <2>2, <2>3, FlightMove
<1>6. ASSUME NEW r \in Refreshers, TakeNext(r) PROVE FlightInv'
  <2>1. /\ Active(r) /\ Moves(r) /\ items' = items
        /\ refresher'[r].pc = "load" /\ refresher'[r].context = refresher[r].context
    BY <1>6, TakeNextEffect DEF TakeNext, Active, cache
  <2>2. DerivedInv'
    BY <2>1 DEF FlightInv, DerivedInv
  <2>3. Seen(r)' /\ Newer(r)'
    BY <1>6, <2>1 DEF TakeNext, FlightInv, Seen, Newer, Collecting
  <2> QED BY <2>1, <2>2, <2>3, FlightMove
<1>7. ASSUME NEW r \in Refreshers, End(r) PROVE FlightInv'
  <2>1. Active(r) /\ Moves(r) /\ items' = items
    BY <1>7, EndEffect DEF End, Active
  <2>2. DerivedInv'
    BY <2>1 DEF FlightInv, DerivedInv
  <2>3. Seen(r)' /\ Newer(r)'
    BY <1>7, EndEffect, <2>1 DEF End, FlightInv, Seen, Newer, Collecting
  <2> QED BY <2>1, <2>2, <2>3, FlightMove
<1>8. ASSUME NEW r \in Refreshers, Load(r) PROVE FlightInv'
  <2>1. Active(r) /\ Moves(r) /\ items' = items /\ world' = world
    BY <1>8, LoadEffect DEF Load, Active, cache
  <2>2. DerivedInv'
    BY <2>1 DEF FlightInv, DerivedInv
  <2>3. Seen(r) /\ Seen(r)'
    BY <1>8, LoadEffect, <2>1 DEF Load, FlightInv, Seen, Collecting
  <2> DEFINE s == refresher[r].source
             v == Loaded(r)
  <2>4. s \in Sources /\ refresher'[r].source = s /\ refresher'[r].result = v
    BY <1>8, LoadEffect, Now, Fields
  <2>5. v = IF FromBase(s) THEN items[Base[s]].data ELSE world
    <3>1. s \in Derived => Base[s] \in Sources /\ refresher[r].context[Base[s]] = items[Base[s]].data
      BY <1>8, <2>3 DEF Load, Seen, Collecting
    <3> QED BY <3>1 DEF Loaded, FromBase
  <2>6. FromBase(s) => Base[s] \in Sources
    BY DEF FromBase
  <2> HIDE DEF s, v
  <2>7. v <= world /\ (FromBase(s) => v = items[Base[s]].data)
        /\ (~ FromBase(s) => \A x \in Sources : items[x].data <= v)
    BY <2>4, <2>5, <2>6 DEF WorldInv
  <2>8. Newer(r)'
    BY <2>1, <2>4, <2>7 DEF Newer, FromBase
  <2> QED BY <2>1, <2>2, <2>3, <2>8, FlightMove
<1>9. ASSUME NEW r \in Refreshers, LoadFails(r) PROVE FlightInv'
  <2>1. Active(r) /\ Moves(r) /\ items' = items
    BY <1>9, LoadFailsEffect DEF LoadFails, Active, cache
  <2>2. DerivedInv'
    BY <2>1 DEF FlightInv, DerivedInv
  <2>3. Seen(r)' /\ Newer(r)'
    BY <1>9, LoadFailsEffect, <2>1 DEF LoadFails, FlightInv, Seen, Newer, Collecting
  <2> QED BY <2>1, <2>2, <2>3, FlightMove
<1>10. ASSUME NEW r \in Refreshers, Store(r) PROVE FlightInv'
  <2> DEFINE s == refresher[r].source
             v == refresher[r].result
  <2>1. Active(r) /\ Moves(r) /\ refresher'[r].pc = "next" /\ Seen(r) /\ s \in Sources
    BY <1>10, StoreEffect, Now, Fields DEF Store, Active, FlightInv
  <2>2. items'[s].data = v /\ \A x \in Sources \ {s} : items'[x] = items[x]
    BY <1>10, StoreData
  <2>3. (FromBase(s) => v = items[Base[s]].data) /\ (~ FromBase(s) => \A x \in Sources : items[x].data <= v)
    BY <1>10 DEF Store, FlightInv, Newer
  <2>4. DerivedInv'
    <3> SUFFICES ASSUME NEW d \in Derived, items'[Base[d]].data # NoData
                 PROVE  items'[d].data <= items'[Base[d]].data
      BY DEF DerivedInv
    <3> HIDE DEF s, v
    <3>1. d \in Sources /\ Base[d] \in Sources \ Derived
      OBVIOUS
    <3>2. CASE d = s
      BY <2>2, <2>3, <3>1, <3>2 DEF FromBase
    <3>3. CASE Base[d] = s
      <4>1. ~ FromBase(s) /\ d # s
        BY <3>1, <3>3 DEF FromBase
      <4> QED BY <2>2, <2>3, <3>1, <3>3, <4>1
    <3>4. CASE d # s /\ Base[d] # s
      BY <2>2, <3>1, <3>4 DEF FlightInv, DerivedInv
    <3> QED BY <3>2, <3>3, <3>4
  <2>5. Seen(r)'
    <3>1. refresher'[r].context = [refresher[r].context EXCEPT ![s] = v]
      BY <1>10, StoreEffect DEF StoredContext
    <3>2. refresher[r].context \in [Sources -> Data]
          /\ \A x \in Sources : refresher[r].context[x] = items[x].data
      BY <1>10, <2>1, Now, Fields DEF Store, Seen, Collecting
    <3> DEFINE context == refresher[r].context
    <3>3. \A x \in Sources : refresher'[r].context[x] = IF x = s THEN v ELSE items[x].data
      <4> HIDE DEF s, v
      <4> QED BY <3>1, <3>2, <2>1
    <3> HIDE DEF s, v
    <3> QED BY <3>3, <2>2, <2>1 DEF Seen
  <2>6. Newer(r)'
    BY <2>1 DEF Newer
  <2> QED BY <2>1, <2>4, <2>5, <2>6, FlightMove
<1>11. ASSUME NEW r \in Refreshers, StoreError(r) PROVE FlightInv'
  <2>1. Active(r) /\ Moves(r) /\ DataKept /\ refresher'[r].pc = "next"
        /\ refresher'[r].context = refresher[r].context
    BY <1>11, StoreErrorEffect, StoreErrorKeeps DEF StoreError, Active
  <2>2. DerivedInv'
    BY <2>1 DEF FlightInv, DerivedInv, DataKept
  <2>3. Seen(r)' /\ Newer(r)'
    BY <1>11, <2>1 DEF StoreError, FlightInv, Seen, Newer, Collecting, DataKept
  <2> QED BY <2>1, <2>2, <2>3, FlightMove
<1>12. CASE UNCHANGED vars
  <2>1. DataKept /\ refresher' = refresher /\ world' \in Int /\ world <= world'
    BY <1>12 DEF vars, cache, DataKept
  <2> QED BY <2>1, FlightRest
<1> QED
  BY <1>1, <1>2, <1>3, <1>4, <1>5, <1>6, <1>7, <1>8, <1>9, <1>10, <1>11, <1>12
  DEF Next, Refresh

\* A thread that goes on knows as much as before of the others' sources.
LEMMA CollectMove ==
    ASSUME CollectInv, NEW r \in Refreshers, Moves(r), generations' = generations, required' = required,
           CollectedAfterInvalidation', Collected(r)'
    PROVE  CollectInv'
<1>1. ASSUME NEW u \in Refreshers \ {r} PROVE Collected(u)'
  <2>1. Collected(u) /\ refresher'[u] = refresher[u]
    BY DEF CollectInv, Moves
  <2> QED BY <2>1 DEF Collected, Current
<1> QED BY <1>1 DEF CollectInv

LEMMA CollectInit == Init => CollectInv
BY Constants DEF Init, CollectInv, CollectedAfterInvalidation, FreshAfterInvalidation, Collected, Collecting,
   NoItem

\* Every step keeps what an invalidation asked for.
LEMMA CollectStep == TypeOK /\ WorldInv /\ CollectInv /\ [Next]_vars => CollectInv'
<1> SUFFICES ASSUME TypeOK, WorldInv, CollectInv, [Next]_vars PROVE CollectInv'
  OBVIOUS
<1> USE Constants, Numbers
<1>1. CASE Act
  <2>1. items' = items /\ generations' = generations /\ required' = required /\ refresher' = refresher
    BY <1>1 DEF Act, cache
  <2> QED BY <2>1 DEF CollectInv, CollectedAfterInvalidation, FreshAfterInvalidation, Collected, Current
<1>2. CASE Invalidate
  <2>1. refresher' = refresher
    BY <1>2 DEF Invalidate
  <2>2. ASSUME NEW s \in Invalidated PROVE generations'[s] = generations[s] + 1 /\ items'[s].due
    <3>1. [items[s] EXCEPT !.due = TRUE].due
      BY DEF TypeOK, Item
    <3> QED BY <1>2, <3>1 DEF Invalidate
  <2>3. ASSUME NEW s \in Sources \ Invalidated
        PROVE  items'[s] = items[s] /\ required'[s] = required[s] /\ generations'[s] = generations[s]
    BY <1>2 DEF Invalidate
  <2>4. CollectedAfterInvalidation'
    BY <2>2, <2>3 DEF CollectInv, CollectedAfterInvalidation, FreshAfterInvalidation
  <2>5. ASSUME NEW r \in Refreshers PROVE Collected(r)'
    <3> DEFINE s == refresher[r].source
    <3>1. Collected(r) /\ s \in Sources
      BY Now, Fields DEF CollectInv
    <3>2. CASE s \in Invalidated
      <4>1. generations'[s] = generations[s] + 1
        BY <2>2, <3>2
      <4>2. refresher[r].pc \in Collecting => refresher[r].generation < generations'[s]
        BY <3>1, <4>1 DEF Collected
      <4>3. refresher'[r].source = s /\ refresher'[r].generation = refresher[r].generation
            /\ refresher'[r].pc = refresher[r].pc
        BY <2>1
      <4>4. generations'[s] \in Int
        BY <3>1, <4>1
      <4> HIDE DEF s
      <4> QED BY <4>2, <4>3, <4>4 DEF Collected, Current, Collecting
    <3>3. CASE s \notin Invalidated
      BY <2>1, <2>3, <3>1, <3>3 DEF Collected, Current
    <3> QED BY <3>2, <3>3
  <2> QED BY <2>4, <2>5 DEF CollectInv
<1>3. ASSUME NEW s \in Sources, Expire(s) PROVE CollectInv'
  <2>1. refresher' = refresher /\ generations' = generations /\ required' = required
    BY <1>3 DEF Expire
  <2>2. CollectedAfterInvalidation'
    BY <1>3, <2>1, ExpireKeeps DEF CollectInv, CollectedAfterInvalidation, FreshAfterInvalidation
  <2> QED BY <2>1, <2>2 DEF CollectInv, Collected, Current
<1>4. ASSUME NEW r \in Refreshers, Get(r) PROVE CollectInv'
  <2>1. Moves(r) /\ items' = items /\ generations' = generations /\ required' = required
    BY <1>4, StartEffect DEF Get, Start
  <2>2. CollectedAfterInvalidation'
    BY <2>1 DEF CollectInv, CollectedAfterInvalidation, FreshAfterInvalidation
  <2>3. Collected(r)'
    BY <1>4, StartEffect, <2>1 DEF Get, CollectInv, Collected, Collecting, Current
  <2> QED BY <2>1, <2>2, <2>3, CollectMove
<1>5. ASSUME NEW r \in Refreshers, TakeContext(r) PROVE CollectInv'
  <2>1. Moves(r) /\ items' = items /\ generations' = generations /\ required' = required
    BY <1>5, TakeContextEffect DEF TakeContext, cache
  <2>2. CollectedAfterInvalidation'
    BY <2>1 DEF CollectInv, CollectedAfterInvalidation, FreshAfterInvalidation
  <2>3. Collected(r)'
    BY <1>5, TakeContextEffect, <2>1 DEF TakeContext, CollectInv, Collected, Collecting, Current
  <2> QED BY <2>1, <2>2, <2>3, CollectMove
<1>6. ASSUME NEW r \in Refreshers, TakeNext(r) PROVE CollectInv'
  <2>1. Moves(r) /\ items' = items /\ generations' = generations /\ required' = required
    BY <1>6, TakeNextEffect DEF TakeNext, cache
  <2>2. CollectedAfterInvalidation'
    BY <2>1 DEF CollectInv, CollectedAfterInvalidation, FreshAfterInvalidation
  <2>3. PICK s \in Sources : /\ refresher'[r].pc = "load" /\ refresher'[r].source = s
                             /\ refresher'[r].generation = generations[s]
    BY <1>6, TakeNextEffect
  <2>4. Collected(r)'
    BY <2>1, <2>3 DEF Collected
  <2> QED BY <2>1, <2>2, <2>4, CollectMove
<1>7. ASSUME NEW r \in Refreshers, End(r) PROVE CollectInv'
  <2>1. Moves(r) /\ items' = items /\ generations' = generations /\ required' = required
    BY <1>7, EndEffect DEF End
  <2>2. CollectedAfterInvalidation'
    BY <2>1 DEF CollectInv, CollectedAfterInvalidation, FreshAfterInvalidation
  <2>3. Collected(r)'
    BY <1>7, EndEffect, <2>1 DEF End, CollectInv, Collected, Collecting, Current
  <2> QED BY <2>1, <2>2, <2>3, CollectMove
<1>8. ASSUME NEW r \in Refreshers, Load(r) PROVE CollectInv'
  <2>1. Moves(r) /\ items' = items /\ generations' = generations /\ required' = required
    BY <1>8, LoadEffect DEF Load, cache
  <2>2. CollectedAfterInvalidation'
    BY <2>1 DEF CollectInv, CollectedAfterInvalidation, FreshAfterInvalidation
  <2> DEFINE s == refresher[r].source
  <2>3. /\ refresher'[r].source = s /\ refresher'[r].generation = refresher[r].generation
        /\ refresher'[r].result = Loaded(r) /\ s \in Sources
    BY <1>8, LoadEffect, Now, Fields
  <2>4. refresher[r].generation <= generations[s]
    BY <1>8 DEF Load, CollectInv, Collected, Collecting
  <2>5. s \notin Derived => Loaded(r) >= required[s]
    BY <2>3 DEF Loaded, WorldInv
  <2> HIDE DEF s
  <2>6. Collected(r)'
    BY <2>1, <2>3, <2>4, <2>5 DEF Collected
  <2> QED BY <2>1, <2>2, <2>6, CollectMove
<1>9. ASSUME NEW r \in Refreshers, LoadFails(r) PROVE CollectInv'
  <2>1. Moves(r) /\ items' = items /\ generations' = generations /\ required' = required
    BY <1>9, LoadFailsEffect DEF LoadFails, cache
  <2>2. CollectedAfterInvalidation'
    BY <2>1 DEF CollectInv, CollectedAfterInvalidation, FreshAfterInvalidation
  <2>3. Collected(r)'
    BY <1>9, LoadFailsEffect, <2>1 DEF LoadFails, CollectInv, Collected, Collecting, Current
  <2> QED BY <2>1, <2>2, <2>3, CollectMove
<1>10. ASSUME NEW r \in Refreshers, Store(r) PROVE CollectInv'
  <2> DEFINE s == refresher[r].source
  <2>1. /\ Moves(r) /\ generations' = generations /\ required' = required
        /\ refresher'[r].pc = "next" /\ s \in Sources
    BY <1>10, StoreEffect, Now, Fields DEF Store, Stored
  <2>2. items'[s] = StoredItem(r) /\ \A x \in Sources \ {s} : items'[x] = items[x]
    BY <1>10, StoreEffect, StoreData, <2>1 DEF TypeOK
  <2>3. s \notin Derived /\ ~ items'[s].due => items'[s].data >= required[s]
    <3>1. items'[s].data = refresher[r].result /\ items'[s].due = Outdated(r)
      BY <2>2 DEF StoredItem
    <3>2. ~ Outdated(r) => Current(r)
      BY DEF Outdated, Current
    <3>3. s \notin Derived /\ Current(r) => refresher[r].result >= required[s]
      BY <1>10 DEF Store, CollectInv, Collected
    <3> QED BY <3>1, <3>2, <3>3
  <2>4. CollectedAfterInvalidation'
    BY <2>1, <2>2, <2>3 DEF CollectInv, CollectedAfterInvalidation, FreshAfterInvalidation
  <2>5. Collected(r)'
    BY <2>1 DEF Collected, Collecting
  <2> QED BY <2>1, <2>4, <2>5, CollectMove
<1>11. ASSUME NEW r \in Refreshers, StoreError(r) PROVE CollectInv'
  <2> DEFINE s == refresher[r].source
  <2>1. /\ Moves(r) /\ generations' = generations /\ required' = required
        /\ refresher'[r].pc = "next" /\ s \in Sources
    BY <1>11, StoreErrorEffect, Now, Fields DEF StoreError, Stored
  <2>2. items'[s].error /\ \A x \in Sources \ {s} : items'[x] = items[x]
    <3> DEFINE item == ErrorItem(r)
    <3>1. item.error
      BY DEF ErrorItem
    <3>2. items' = [items EXCEPT ![s] = item]
      BY <1>11, StoreErrorEffect
    <3> HIDE DEF s, item
    <3> QED BY <2>1, <3>1, <3>2 DEF TypeOK
  <2>3. CollectedAfterInvalidation'
    BY <2>1, <2>2 DEF CollectInv, CollectedAfterInvalidation, FreshAfterInvalidation
  <2>4. Collected(r)'
    BY <2>1 DEF Collected, Collecting
  <2> QED BY <2>1, <2>3, <2>4, CollectMove
<1>12. CASE UNCHANGED vars
  <2>1. items' = items /\ generations' = generations /\ required' = required /\ refresher' = refresher
    BY <1>12 DEF vars, cache
  <2> QED BY <2>1 DEF CollectInv, CollectedAfterInvalidation, FreshAfterInvalidation, Collected, Current
<1> QED
  BY <1>1, <1>2, <1>3, <1>4, <1>5, <1>6, <1>7, <1>8, <1>9, <1>10, <1>11, <1>12
  DEF Next, Refresh

\* The invariants hold together.
LEMMA Invariants == Spec => [](TypeOK /\ SingleInv /\ WorldInv /\ FlightInv /\ CollectInv)
<1>1. Init => TypeOK /\ SingleInv /\ WorldInv /\ FlightInv /\ CollectInv
  BY TypeInit, SingleInit, WorldInit, FlightInit, CollectInit
<1>2. TypeOK /\ SingleInv /\ WorldInv /\ FlightInv /\ CollectInv /\ [Next]_vars
      => (TypeOK /\ SingleInv /\ WorldInv /\ FlightInv /\ CollectInv)'
  BY TypeStep, SingleStep, WorldStep, FlightStep, CollectStep
<1> QED BY <1>1, <1>2, PTL DEF Spec

\* Every variable of the cache always has its type (dispatcher.py, DashboardSnapshotCache).
THEOREM TypeCorrect == Spec => []TypeOK
BY Invariants, PTL

\* A source that was invalidated is never shown as fresh with what it was before
\* (invalidate() and _refresh() of dispatcher.py), for any order of the sources and
\* any number of refresh threads.
THEOREM CollectedCorrect == Spec => []CollectedAfterInvalidation
<1>1. CollectInv => CollectedAfterInvalidation
  BY DEF CollectInv
<1> QED BY <1>1, Invariants, PTL

\* No step replaces what is shown by something older.
LEMMA NeverBack ==
    ASSUME TypeOK, FlightInv, Next
    PROVE  \A s \in Sources : items'[s].data >= items[s].data
<1> USE Constants, Numbers
<1>1. CASE DataKept
  BY <1>1 DEF DataKept
<1>2. ASSUME NEW r \in Refreshers, Store(r) PROVE \A s \in Sources : items'[s].data >= items[s].data
  <2> DEFINE s == refresher[r].source
             v == refresher[r].result
  <2>1. s \in Sources /\ items'[s].data = v /\ \A x \in Sources \ {s} : items'[x] = items[x]
    BY <1>2, StoreData, Now, Fields
  <2>2. DerivedInv /\ (FromBase(s) => v = items[Base[s]].data)
        /\ (~ FromBase(s) => \A x \in Sources : items[x].data <= v)
    BY <1>2 DEF Store, FlightInv, Newer
  <2> HIDE DEF s, v
  <2>3. v \in Int /\ items[s].data <= v
    <3>1. v \in Int
      BY DEF v
    <3>2. CASE FromBase(s)
      BY <2>2, <3>1, <3>2 DEF FromBase, DerivedInv
    <3>3. CASE ~ FromBase(s)
      BY <2>1, <2>2, <3>1, <3>3
    <3> QED BY <3>1, <3>2, <3>3
  <2> QED BY <2>1, <2>3
<1>3. ASSUME NEW s \in Sources, Expire(s) PROVE DataKept
  BY <1>3, ExpireKeeps
<1>4. ASSUME NEW r \in Refreshers, Get(r) \/ TakeContext(r) \/ TakeNext(r) \/ End(r) \/ Load(r) \/ LoadFails(r)
      PROVE  DataKept
  BY <1>4 DEF Get, Start, TakeContext, TakeNext, End, Load, LoadFails, cache, DataKept
<1>5. CASE Act
  BY <1>5 DEF Act, cache, DataKept
<1> QED BY <1>1, <1>2, <1>3, <1>4, <1>5, InvalidateKeeps, StoreErrorKeeps DEF Next, Refresh

\* The dashboard never goes back (_refresh() of dispatcher.py): neither a failure nor
\* another thread replaces the data of a source by older data.
THEOREM SnapshotCorrect == Spec => SnapshotNeverGoesBack
<1>1. TypeOK /\ FlightInv /\ [Next]_vars => [\A s \in Sources : items'[s].data >= items[s].data]_vars
  BY NeverBack
<1>2. Spec => [](TypeOK /\ FlightInv)
  BY Invariants, PTL
<1> QED BY <1>1, <1>2, PTL DEF Spec, SnapshotNeverGoesBack
==============================================================================
