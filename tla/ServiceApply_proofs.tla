------------------------- MODULE ServiceApply_proofs -------------------------
(***************************************************************************)
(* What the apply pipeline guarantees for all services, versions, numbers  *)
(* of threads and all operations at once: the types; that a service no     *)
(* answer left in doubt runs users.json or what the operator made of it,   *)
(* that a disabled one stays down, and that a reconcile and a forced apply *)
(* converge.  The invariant follows one service through the request that   *)
(* works on it: the locks keep a second one away, or the service is among  *)
(* the contested.                                                          *)
(***************************************************************************)
EXTENDS ServiceApply, TLAPS

Rendering == {"fingerprint", "render", "plan", "apply", "verify", "answer"}
Applying == {"apply", "verify", "answer"}

\* The parts of its record a step keeps: the request, what the commit and the render
\* found, and what has been applied.
SameAsk(q, r) == q.op = r.op /\ q.service = r.service /\ q.affected = r.affected /\ q.seen = r.seen
SamePlan(q, r) == q.after = r.after /\ q.fingerprint = r.fingerprint /\ q.written = r.written
SameWork(q, r) == q.todo = r.todo /\ q.queue = r.queue /\ q.failed = r.failed

\* Only the record of t may change.
Moves(t) == thread' \in [Threads -> Request] /\ \A u \in Threads \ {t} : thread'[u] = thread[u]

\* What a request is, wherever it stands: render_all has files left to write, a change is one
\* the versions have room for, an apply names a host VPN, an action goes through the runtime,
\* and what is left to apply comes from the plan, which touches no disabled service.
Record(r) ==
    /\ r.pc # "idle" => r.op \in AllOperations
    /\ r.pc \in {"commit", "fingerprint"} => r.written = 0
    /\ r.pc = "render" => r.written < Len(RenderOrder)
    /\ r.op # "change" => r.affected = {}
    /\ \A s \in r.affected : r.seen.config[s] < MaxVersion
    /\ r.op = "apply" => r.service \in Host
    /\ r.pc \in {"runtime", "persist"} => r.op \in Actions
    /\ r.pc \in Rendering \cup {"commit"} => r.op \notin Actions
    /\ r.queue \subseteq Docker
    /\ r.pc \notin Applying => r.todo = {} /\ r.queue = {} /\ r.failed = {}
    /\ r.pc = "answer" => r.todo = {}
    /\ r.pc = "verify" => r.syncing \subseteq r.todo
    /\ \A s \in r.todo \cup r.queue \cup r.failed : r.after.enabled[s]

RecordInv == \A t \in Threads : Record(thread[t])

\* A request in progress holds its lock.
Held(t) ==
    InProgress(t) =>
        IF IsServiceScope(thread[t].op) THEN serviceLock[thread[t].service] = t ELSE globalLock = t

HeldInv == \A t \in Threads : Held(t)

\* Two requests that work on one service have contested it; a contest ends with the last.
Works(t, s) == InProgress(t) /\ s \in Scope(thread[t].op, thread[t].service)

ApartInv ==
    /\ \A t \in Threads : \A u \in Threads \ {t} : \A s \in Services :
           Works(t, s) /\ Works(u, s) => s \in contested
    /\ Quiet => contested = {}

\* The service runs what users.json asks for, or is as the operator left it.
Good(s) == running[s] \in {Asked(s)} \cup byHand[s]

Rests(s) == generated[s] = users.config[s] /\ Good(s)

\* What a request in the pipeline has found, rendered and brought up of a service, whether
\* the service is in doubt or not.
Found(t, s) ==
    thread[t].pc \in Rendering =>
        /\ thread[t].after.config[s] = users.config[s]
        /\ thread[t].after.enabled[s] = users.enabled[s]
        /\ thread[t].pc = "render" =>
              \A i \in 1..thread[t].written : RenderOrder[i] = s => generated[s] = users.config[s]
        /\ thread[t].pc \in Applying \cup {"plan"} => generated[s] = users.config[s]
        /\ thread[t].pc \in Applying /\ s \in Forced(t) /\ users.enabled[s] =>
              s \in thread[t].todo \cup thread[t].failed \/ running[s] = generated[s]

\* How a request keeps a service that is not in doubt from being forgotten: what does not run
\* as it should is about to be found different, is on the list, or will be reported.
Kept(t, s) ==
    /\ thread[t].pc = "fingerprint" => Good(s) \/ (users.enabled[s] /\ generated[s] # users.config[s])
    /\ thread[t].pc \in {"render", "plan"} =>
          Good(s) \/ (users.enabled[s] /\ thread[t].fingerprint[s] # users.config[s])
    /\ thread[t].pc \in {"apply", "verify"} =>
          Good(s) \/ s \in thread[t].todo \cup thread[t].queue \cup thread[t].failed
    /\ thread[t].pc = "answer" => Good(s) \/ s \in thread[t].failed
    /\ thread[t].pc = "persist" =>
          generated[s] = users.config[s] /\ running[s] \in {Meant(t)} \cup byHand[s]

Engaged(t) == thread[t].pc \in Rendering \cup {"persist"}

\* A service that is not contested, through the request that works on it and between requests.
Followed(s) ==
    /\ \A t \in Threads : Works(t, s) => Found(t, s) /\ (s \notin reported => Kept(t, s))
    /\ s \notin reported /\ (\A t \in Threads : Works(t, s) => ~Engaged(t)) => Rests(s)

FollowInv == \A s \in Services \ contested : Followed(s)

\* The steps of a request, on its record.
Goes(r, pc) == [r EXCEPT !.pc = pc]
Asks(r, pc, op, s, A, seen) == [r EXCEPT !.pc = pc, !.op = op, !.service = s, !.affected = A, !.seen = seen]
Commits(r, d, e) == [r EXCEPT !.pc = "fingerprint", !.before = d, !.after = e, !.affected = {}, !.seen = Fresh]
Fingerprints(r, f) == [r EXCEPT !.pc = "render", !.fingerprint = f]
Renders(r, n, pc) == [r EXCEPT !.written = n, !.pc = pc]
Plans(r, S) == [[r EXCEPT !.pc = "apply", !.before = Fresh, !.fingerprint = Fresh.config, !.written = 0] EXCEPT !.todo = S]
Queues(r, S, Q) == [r EXCEPT !.todo = S, !.queue = Q]
Does(r, S) == [r EXCEPT !.todo = S]
Syncs(r, H) == [r EXCEPT !.pc = "verify", !.syncing = H]
Fails(r, S, F) == [r EXCEPT !.todo = S, !.failed = F]
Verifies(r, S, F) == [r EXCEPT !.pc = "apply", !.syncing = {}, !.todo = S, !.failed = F]
Ends(r, F) == [r EXCEPT !.pc = "answer", !.failed = F]

\* What the model is built from has its type.
LEMMA Constants ==
    /\ Fresh \in Desired /\ Idle \in Request /\ Docker \subseteq Services /\ Host \subseteq Services
    /\ RenderOrder \in Seq(Services) /\ Len(RenderOrder) \in Nat \ {0}
    /\ \A i \in 1..Len(RenderOrder) : RenderOrder[i] \in Services
    /\ \A s \in Services : \E i \in 1..Len(RenderOrder) : RenderOrder[i] = s
    /\ NoThread \notin Threads
<1> USE ServiceAssumption DEF ServiceAssumption
<1>1. 1 \in Version
  BY DEF Version
<1>2. Fresh \in Desired
  BY <1>1 DEF Fresh, Desired
<1>3. RenderOrder \in Seq(Services) /\ Len(RenderOrder) \in Nat /\ DOMAIN RenderOrder = 1..Len(RenderOrder)
  OBVIOUS
<1>4. \A s \in Services : \E i \in 1..Len(RenderOrder) : RenderOrder[i] = s
  BY <1>3 DEF ToSet
<1>5. Len(RenderOrder) # 0
  BY <1>3, <1>4
<1>6. (CHOOSE s \in Services : TRUE) \in Services /\ 0 \in 0..Len(RenderOrder)
  BY <1>3
<1>7. Idle \in Request
  <2>1. Fresh.config \in [Services -> Version]
    BY <1>2 DEF Desired
  <2> QED BY <1>2, <1>6, <2>1 DEF Idle, Request, Steps
<1> QED BY <1>2, <1>3, <1>4, <1>5, <1>7 DEF Services

\* The fields of a request.
LEMMA Fields ==
    ASSUME NEW r \in Request
    PROVE  /\ r.pc \in Steps /\ r.op \in AllOperations \cup {"none"} /\ r.service \in Services
           /\ r.affected \subseteq Services /\ r.seen \in Desired /\ r.before \in Desired /\ r.after \in Desired
           /\ r.fingerprint \in [Services -> Version] /\ r.written \in 0..Len(RenderOrder)
           /\ r.todo \subseteq Services /\ r.syncing \subseteq Host /\ r.queue \subseteq Services
           /\ r.failed \subseteq Services
BY DEF Request

\* The parts of users.json.
LEMMA Parts == ASSUME NEW d \in Desired PROVE d.config \in [Services -> Version]
/\ d.enabled \in [Services -> BOOLEAN]
BY DEF Desired

\* What each step keeps and what it assigns.
LEMMA GoesFields ==
    ASSUME NEW r \in Request, NEW pc \in Steps,
           NEW q, q = Goes(r, pc)
    PROVE  q \in Request /\ q.pc = pc /\ SameAsk(q, r) /\ SamePlan(q, r) /\ SameWork(q, r)
<1>1. q \in Request
  BY Constants DEF Request, Steps, Goes
<1>2. q.pc = pc /\ SameAsk(q, r) /\ SamePlan(q, r) /\ SameWork(q, r)
  BY DEF Request, Goes, SameAsk, SamePlan, SameWork
<1> QED BY <1>1, <1>2

LEMMA AsksFields ==
    ASSUME NEW r \in Request, NEW pc \in Steps, NEW op \in AllOperations, NEW s \in Services,
           NEW A \in SUBSET Services, NEW seen \in Desired,
           NEW q, q = Asks(r, pc, op, s, A, seen)
    PROVE  q \in Request /\ q.pc = pc /\ q.op = op /\ q.service = s /\ q.affected = A /\ q.seen = seen
           /\ SamePlan(q, r) /\ SameWork(q, r)
<1>1. q \in Request
  BY Constants DEF Request, Steps, Asks
<1>2. q.pc = pc /\ q.op = op /\ q.service = s /\ q.affected = A /\ q.seen = seen
       /\ SamePlan(q, r) /\ SameWork(q, r)
  BY DEF Request, Asks, SameAsk, SamePlan, SameWork
<1> QED BY <1>1, <1>2

LEMMA CommitsFields ==
    ASSUME NEW r \in Request, NEW d \in Desired, NEW e \in Desired,
           NEW q, q = Commits(r, d, e)
    PROVE  q \in Request /\ q.pc = "fingerprint" /\ q.after = e /\ q.before = d
           /\ q.op = r.op /\ q.service = r.service /\ q.affected = {}
           /\ q.fingerprint = r.fingerprint /\ q.written = r.written /\ SameWork(q, r)
<1>1. q \in Request
  BY Constants DEF Request, Steps, Commits
<1>2. q.pc = "fingerprint" /\ q.after = e /\ q.before = d
      /\ q.op = r.op /\ q.service = r.service /\ q.affected = {}
      /\ q.fingerprint = r.fingerprint /\ q.written = r.written /\ SameWork(q, r)
  BY DEF Request, Commits, SameWork
<1> QED BY <1>1, <1>2

LEMMA FingerprintsFields ==
    ASSUME NEW r \in Request, NEW f \in [Services -> Version],
           NEW q, q = Fingerprints(r, f)
    PROVE  q \in Request /\ q.pc = "render" /\ q.fingerprint = f
           /\ SameAsk(q, r) /\ q.after = r.after /\ q.written = r.written /\ SameWork(q, r)
<1>1. q \in Request
  BY Constants DEF Request, Steps, Fingerprints
<1>2. q.pc = "render" /\ q.fingerprint = f
       /\ SameAsk(q, r) /\ q.after = r.after /\ q.written = r.written /\ SameWork(q, r)
  BY DEF Request, Fingerprints, SameAsk, SamePlan, SameWork
<1> QED BY <1>1, <1>2

LEMMA RendersFields ==
    ASSUME NEW r \in Request, NEW n \in 0..Len(RenderOrder), NEW pc \in Steps,
           NEW q, q = Renders(r, n, pc)
    PROVE  q \in Request /\ q.written = n /\ q.pc = pc
           /\ SameAsk(q, r) /\ q.after = r.after /\ q.fingerprint = r.fingerprint /\ SameWork(q, r)
<1>1. q \in Request
  BY Constants DEF Request, Steps, Renders
<1>2. q.written = n /\ q.pc = pc
       /\ SameAsk(q, r) /\ q.after = r.after /\ q.fingerprint = r.fingerprint /\ SameWork(q, r)
  BY DEF Request, Renders, SameAsk, SamePlan, SameWork
<1> QED BY <1>1, <1>2

LEMMA PlansFields ==
    ASSUME NEW r \in Request, NEW S \in SUBSET Services,
           NEW q, q = Plans(r, S)
    PROVE  q \in Request /\ q.pc = "apply" /\ q.todo = S
           /\ SameAsk(q, r) /\ q.after = r.after /\ q.queue = r.queue /\ q.failed = r.failed
<1>1. Fresh.config \in [Services -> Version] /\ 0 \in 0..Len(RenderOrder)
  BY Constants, Parts
<1>2. q \in Request
  BY <1>1, Constants DEF Request, Steps, Plans
<1>3. q.pc = "apply" /\ q.todo = S
      /\ SameAsk(q, r) /\ q.after = r.after /\ q.queue = r.queue /\ q.failed = r.failed
  BY DEF Request, Plans, SameAsk
<1> QED BY <1>2, <1>3

LEMMA QueuesFields ==
    ASSUME NEW r \in Request, NEW S \in SUBSET Services, NEW Q \in SUBSET Services,
           NEW q, q = Queues(r, S, Q)
    PROVE  q \in Request /\ q.pc = r.pc /\ q.todo = S /\ q.queue = Q
           /\ SameAsk(q, r) /\ SamePlan(q, r) /\ q.failed = r.failed
<1>1. q \in Request
  BY Constants DEF Request, Steps, Queues
<1>2. q.pc = r.pc /\ q.todo = S /\ q.queue = Q
       /\ SameAsk(q, r) /\ SamePlan(q, r) /\ q.failed = r.failed
  BY DEF Request, Queues, SameAsk, SamePlan, SameWork
<1> QED BY <1>1, <1>2

LEMMA DoesFields ==
    ASSUME NEW r \in Request, NEW S \in SUBSET Services,
           NEW q, q = Does(r, S)
    PROVE  q \in Request /\ q.pc = r.pc /\ q.todo = S
           /\ SameAsk(q, r) /\ SamePlan(q, r) /\ q.queue = r.queue /\ q.failed = r.failed
<1>1. q \in Request
  BY Constants DEF Request, Steps, Does
<1>2. q.pc = r.pc /\ q.todo = S
       /\ SameAsk(q, r) /\ SamePlan(q, r) /\ q.queue = r.queue /\ q.failed = r.failed
  BY DEF Request, Does, SameAsk, SamePlan, SameWork
<1> QED BY <1>1, <1>2

LEMMA SyncsFields ==
    ASSUME NEW r \in Request, NEW H \in SUBSET Host,
           NEW q, q = Syncs(r, H)
    PROVE  q \in Request /\ q.pc = "verify" /\ q.syncing = H
           /\ SameAsk(q, r) /\ SamePlan(q, r) /\ SameWork(q, r)
<1>1. q \in Request
  BY Constants DEF Request, Steps, Syncs
<1>2. q.pc = "verify" /\ q.syncing = H
       /\ SameAsk(q, r) /\ SamePlan(q, r) /\ SameWork(q, r)
  BY DEF Request, Syncs, SameAsk, SamePlan, SameWork
<1> QED BY <1>1, <1>2

LEMMA FailsFields ==
    ASSUME NEW r \in Request, NEW S \in SUBSET Services, NEW F \in SUBSET Services,
           NEW q, q = Fails(r, S, F)
    PROVE  q \in Request /\ q.pc = r.pc /\ q.todo = S /\ q.failed = F
           /\ SameAsk(q, r) /\ SamePlan(q, r) /\ q.queue = r.queue
<1>1. q \in Request
  BY Constants DEF Request, Steps, Fails
<1>2. q.pc = r.pc /\ q.todo = S /\ q.failed = F
       /\ SameAsk(q, r) /\ SamePlan(q, r) /\ q.queue = r.queue
  BY DEF Request, Fails, SameAsk, SamePlan, SameWork
<1> QED BY <1>1, <1>2

LEMMA VerifiesFields ==
    ASSUME NEW r \in Request, NEW S \in SUBSET Services, NEW F \in SUBSET Services,
           NEW q, q = Verifies(r, S, F)
    PROVE  q \in Request /\ q.pc = "apply" /\ q.todo = S /\ q.failed = F
           /\ SameAsk(q, r) /\ SamePlan(q, r) /\ q.queue = r.queue
<1>1. q \in Request
  BY Constants DEF Request, Steps, Verifies
<1>2. q.pc = "apply" /\ q.todo = S /\ q.failed = F
       /\ SameAsk(q, r) /\ SamePlan(q, r) /\ q.queue = r.queue
  BY DEF Request, Verifies, SameAsk, SamePlan, SameWork
<1> QED BY <1>1, <1>2

LEMMA EndsFields ==
    ASSUME NEW r \in Request, NEW F \in SUBSET Services,
           NEW q, q = Ends(r, F)
    PROVE  q \in Request /\ q.pc = "answer" /\ q.failed = F
           /\ SameAsk(q, r) /\ SamePlan(q, r) /\ q.todo = r.todo /\ q.queue = r.queue
<1>1. q \in Request
  BY Constants DEF Request, Steps, Ends
<1>2. q.pc = "answer" /\ q.failed = F
       /\ SameAsk(q, r) /\ SamePlan(q, r) /\ q.todo = r.todo /\ q.queue = r.queue
  BY DEF Request, Ends, SameAsk, SamePlan, SameWork
<1> QED BY <1>1, <1>2

\* A request changes its own record.
LEMMA Others ==
    ASSUME TypeOK, NEW t \in Threads, NEW r \in Request, Becomes(t, r)
    PROVE  Moves(t) /\ thread'[t] = r
BY DEF TypeOK, Becomes, Moves

\* The request t is at.
LEMMA Current == ASSUME TypeOK, NEW t \in Threads PROVE thread[t] \in Request
BY DEF TypeOK

\* What the actions do to the record of their thread.
LEMMA FingerprintEffect ==
    ASSUME TypeOK, NEW t \in Threads, Fingerprint(t)
    PROVE  Moves(t) /\ thread'[t].pc = "render" /\ thread'[t].fingerprint = generated
           /\ SameAsk(thread'[t], thread[t]) /\ thread'[t].after = thread[t].after
           /\ thread'[t].written = thread[t].written /\ SameWork(thread'[t], thread[t])
<1>1. thread[t] \in Request
  BY Current
<1>2. generated \in [Services -> Version]
  BY <1>1, Fields DEF TypeOK, Steps
<1> DEFINE q == Fingerprints(thread[t], generated)
<1>3. Becomes(t, q)
  BY DEF Fingerprint, Fingerprints
<1>4. q \in Request /\ q.pc = "render" /\ q.fingerprint = generated
        /\ SameAsk(q, thread[t]) /\ q.after = thread[t].after /\ q.written = thread[t].written
        /\ SameWork(q, thread[t])
  BY <1>1, <1>2, Constants, FingerprintsFields
<1> QED BY <1>3, <1>4, Others

LEMMA PlanEffect ==
    ASSUME TypeOK, NEW t \in Threads, Plan(t)
    PROVE  Moves(t) /\ thread'[t].pc = "apply"
           /\ thread'[t].todo = {s \in Touched(t) : thread[t].after.enabled[s]}
           /\ SameAsk(thread'[t], thread[t]) /\ thread'[t].after = thread[t].after
           /\ thread'[t].queue = thread[t].queue /\ thread'[t].failed = thread[t].failed
<1> DEFINE S == {s \in Touched(t) : thread[t].after.enabled[s]}
           q == Plans(thread[t], S)
<1>1. thread[t] \in Request
  BY Current
<1>2. S \in SUBSET Services
  BY <1>1, Fields DEF TypeOK, Steps, Touched, Changed, Services
<1>3. Becomes(t, q)
  BY DEF Plan, Planned, Plans
<1> HIDE DEF S
<1>4. q \in Request /\ q.pc = "apply" /\ q.todo = S
      /\ SameAsk(q, thread[t]) /\ q.after = thread[t].after /\ q.queue = thread[t].queue
      /\ q.failed = thread[t].failed
  BY <1>1, <1>2, PlansFields
<1>5. Moves(t) /\ thread'[t] = q
  BY <1>3, <1>4, Others
<1> QED BY <1>4, <1>5 DEF S

LEMMA SyncHostEffect ==
    ASSUME TypeOK, NEW t \in Threads, NEW s \in Services, SyncHost(t, s)
    PROVE  Moves(t) /\ thread'[t].pc = "verify" /\ thread'[t].syncing = {s}
           /\ SameAsk(thread'[t], thread[t]) /\ SamePlan(thread'[t], thread[t]) /\ SameWork(thread'[t], thread[t])
<1>1. thread[t] \in Request
  BY Current
<1>2. {s} \in SUBSET Host
  BY <1>1, Fields DEF TypeOK, Steps, SyncHost
<1> DEFINE q == Syncs(thread[t], {s})
<1>3. Becomes(t, q)
  BY DEF SyncHost, Syncs
<1>4. q \in Request /\ q.pc = "verify" /\ q.syncing = {s}
        /\ SameAsk(q, thread[t]) /\ SamePlan(q, thread[t]) /\ SameWork(q, thread[t])
  BY <1>1, <1>2, Constants, SyncsFields
<1> QED BY <1>3, <1>4, Others

LEMMA SyncHostFailsEffect ==
    ASSUME TypeOK, NEW t \in Threads, NEW s \in Services, SyncHostFails(t, s)
    PROVE  Moves(t) /\ thread'[t].pc = thread[t].pc /\ thread'[t].todo = thread[t].todo \ {s}
           /\ thread'[t].failed = thread[t].failed \cup {s}
           /\ SameAsk(thread'[t], thread[t]) /\ SamePlan(thread'[t], thread[t])
           /\ thread'[t].queue = thread[t].queue
<1>1. thread[t] \in Request
  BY Current
<1>2. thread[t].todo \ {s} \in SUBSET Services /\ thread[t].failed \cup {s} \in SUBSET Services
  BY <1>1, Fields DEF TypeOK, Steps
<1> DEFINE q == Fails(thread[t], thread[t].todo \ {s}, thread[t].failed \cup {s})
<1>3. Becomes(t, q)
  BY DEF SyncHostFails, Fails
<1>4. q \in Request /\ q.pc = thread[t].pc /\ q.todo = thread[t].todo \ {s}
      /\ q.failed = thread[t].failed \cup {s}
        /\ SameAsk(q, thread[t]) /\ SamePlan(q, thread[t]) /\ q.queue = thread[t].queue
  <2> DEFINE S == thread[t].todo \ {s}
             F == thread[t].failed \cup {s}
  <2> HIDE DEF S, F
  <2>1. S \in SUBSET Services /\ F \in SUBSET Services
    BY <1>2 DEF S, F
  <2>2. LET p == Fails(thread[t], S, F) IN p \in Request /\ p.pc = thread[t].pc /\ p.todo = S /\ p.failed = F
       /\ SameAsk(p, thread[t]) /\ SamePlan(p, thread[t]) /\ p.queue = thread[t].queue
    BY <1>1, <2>1, Constants, FailsFields, SMTT(30)
  <2> QED BY <2>2 DEF S, F
<1> QED BY <1>3, <1>4, Others

LEMMA RestartEffect ==
    ASSUME TypeOK, NEW t \in Threads, Restart(t)
    PROVE  Moves(t) /\ thread'[t].pc = "answer" /\ SameAsk(thread'[t], thread[t])
           /\ SamePlan(thread'[t], thread[t]) /\ SameWork(thread'[t], thread[t])
<1>1. thread[t] \in Request
  BY Current
<1>2. "answer" \in Steps
  BY <1>1, Fields DEF TypeOK, Steps
<1> DEFINE q == Goes(thread[t], "answer")
<1>3. Becomes(t, q)
  BY DEF Restart, Goes
<1>4. q \in Request /\ q.pc = "answer" /\ SameAsk(q, thread[t]) /\ SamePlan(q, thread[t]) /\ SameWork(q, thread[t])
  BY <1>1, <1>2, Constants, GoesFields
<1> QED BY <1>3, <1>4, Others

LEMMA RestartFailsEffect ==
    ASSUME TypeOK, NEW t \in Threads, RestartFails(t)
    PROVE  Moves(t) /\ thread'[t].pc = "answer" /\ thread'[t].failed = thread[t].failed \cup thread[t].queue
           /\ SameAsk(thread'[t], thread[t]) /\ SamePlan(thread'[t], thread[t]) /\ thread'[t].todo = thread[t].todo
           /\ thread'[t].queue = thread[t].queue
<1>1. thread[t] \in Request
  BY Current
<1>2. thread[t].failed \cup thread[t].queue \in SUBSET Services
  BY <1>1, Fields DEF TypeOK, Steps
<1> DEFINE q == Ends(thread[t], thread[t].failed \cup thread[t].queue)
<1>3. Becomes(t, q)
  BY DEF RestartFails, Ends
<1>4. q \in Request /\ q.pc = "answer" /\ q.failed = thread[t].failed \cup thread[t].queue
        /\ SameAsk(q, thread[t]) /\ SamePlan(q, thread[t]) /\ q.todo = thread[t].todo /\ q.queue = thread[t].queue
  BY <1>1, <1>2, Constants, EndsFields
<1> QED BY <1>3, <1>4, Others

LEMMA SwitchRuntimeEffect ==
    ASSUME TypeOK, NEW t \in Threads, SwitchRuntime(t)
    PROVE  Moves(t) /\ thread'[t].pc = "persist" /\ SameAsk(thread'[t], thread[t])
           /\ SamePlan(thread'[t], thread[t]) /\ SameWork(thread'[t], thread[t])
<1>1. thread[t] \in Request
  BY Current
<1>2. "persist" \in Steps
  BY <1>1, Fields DEF TypeOK, Steps
<1> DEFINE q == Goes(thread[t], "persist")
<1>3. Becomes(t, q)
  BY DEF SwitchRuntime, Goes
<1>4. q \in Request /\ q.pc = "persist" /\ SameAsk(q, thread[t]) /\ SamePlan(q, thread[t]) /\ SameWork(q, thread[t])
  BY <1>1, <1>2, Constants, GoesFields
<1> QED BY <1>3, <1>4, Others

\* What a commit may write: the versions have room for it.
LEMMA CommitTyped == ASSUME TypeOK, RecordInv, NEW t \in Threads, Commit(t) PROVE users' \in Desired
<1>1. thread[t].affected \subseteq Services /\ users.config \in [Services -> Version]
      /\ users.enabled \in [Services -> BOOLEAN]
  BY Current, Fields, Parts DEF TypeOK
<1>2. ASSUME NEW s \in thread[t].affected PROVE users.config[s] + 1 \in Version
  <2>1. users.config[s] < MaxVersion
    BY <1>2 DEF Commit, Refused, RecordInv, Record
  <2>2. users.config[s] \in 1..MaxVersion /\ MaxVersion \in Nat
    BY <1>1, <1>2, ServiceAssumption DEF ServiceAssumption, Version
  <2> DEFINE v == users.config[s]
  <2> HIDE DEF v
  <2>3. v \in 1..MaxVersion /\ v < MaxVersion /\ MaxVersion \in Nat => v + 1 \in 1..MaxVersion
    OBVIOUS
  <2> QED BY <2>1, <2>2, <2>3 DEF v, Version
<1>3. NextConfig(thread[t].affected) \in [Services -> Version]
  BY <1>1, <1>2 DEF NextConfig
<1> QED BY <1>1, <1>3 DEF Commit, Desired, TypeOK

LEMMA CommitEffect ==
    ASSUME TypeOK, RecordInv, NEW t \in Threads, Commit(t)
    PROVE  Moves(t) /\ thread'[t].pc = "fingerprint" /\ thread'[t].after = users' /\ thread'[t].before = users
           /\ thread'[t].op = thread[t].op /\ thread'[t].service = thread[t].service
           /\ thread'[t].affected = {} /\ thread'[t].fingerprint = thread[t].fingerprint
           /\ thread'[t].written = thread[t].written /\ SameWork(thread'[t], thread[t])
<1>1. thread[t] \in Request
  BY Current
<1>2. users \in Desired /\ users' \in Desired
  BY <1>1, Fields, CommitTyped DEF TypeOK, Steps
<1> DEFINE q == Commits(thread[t], users, users')
<1>3. Becomes(t, q)
  BY DEF Commit, Commits
<1>4. q \in Request /\ q.pc = "fingerprint" /\ q.after = users' /\ q.before = users
        /\ q.op = thread[t].op /\ q.service = thread[t].service /\ q.affected = {}
        /\ q.fingerprint = thread[t].fingerprint /\ q.written = thread[t].written
        /\ SameWork(q, thread[t])
  BY <1>1, <1>2, Constants, CommitsFields
<1> QED BY <1>3, <1>4, Others

\* There is a file left to write.
LEMMA NextFile ==
    ASSUME TypeOK, RecordInv, NEW t \in Threads, Render(t)
    PROVE  thread[t].written \in Nat /\ thread[t].written + 1 \in 1..Len(RenderOrder)
BY Current, Fields, Constants, SMTT(30) DEF Render, RecordInv, Record

LEMMA RenderEffect ==
    ASSUME TypeOK, RecordInv, NEW t \in Threads, Render(t)
    PROVE  Moves(t) /\ thread'[t].written = thread[t].written + 1
           /\ thread'[t].pc = (IF thread[t].written + 1 = Len(RenderOrder) THEN "plan" ELSE "render")
           /\ SameAsk(thread'[t], thread[t]) /\ thread'[t].after = thread[t].after
           /\ thread'[t].fingerprint = thread[t].fingerprint /\ SameWork(thread'[t], thread[t])
<1>1. thread[t] \in Request
  BY Current
<1>2. thread[t].written + 1 \in 0..Len(RenderOrder) /\ {"plan", "render"} \subseteq Steps
  BY <1>1, Fields, NextFile DEF TypeOK, Steps
<1> DEFINE q == Renders(thread[t], thread[t].written + 1, (IF thread[t].written + 1 = Len(RenderOrder)
             THEN "plan" ELSE "render"))
<1>3. Becomes(t, q)
  BY DEF Render, Renders
<1>4. q \in Request /\ q.written = thread[t].written + 1
      /\ q.pc = (IF thread[t].written + 1 = Len(RenderOrder) THEN "plan" ELSE "render")
        /\ SameAsk(q, thread[t]) /\ q.after = thread[t].after /\ q.fingerprint = thread[t].fingerprint
        /\ SameWork(q, thread[t])
  <2> DEFINE n == thread[t].written + 1
             pc == (IF thread[t].written + 1 = Len(RenderOrder) THEN "plan" ELSE "render")
  <2> HIDE DEF n, pc
  <2>1. n \in 0..Len(RenderOrder) /\ pc \in Steps
    BY <1>2 DEF n, pc
  <2>2. LET p == Renders(thread[t], n, pc) IN p \in Request /\ p.written = n /\ p.pc = pc
       /\ SameAsk(p, thread[t]) /\ p.after = thread[t].after /\ p.fingerprint = thread[t].fingerprint
       /\ SameWork(p, thread[t])
    BY <1>1, <2>1, Constants, RendersFields
  <2> QED BY <2>2 DEF n, pc
<1> QED BY <1>3, <1>4, Others

LEMMA BeginEffect ==
    ASSUME TypeOK, NEW t \in Threads, NEW op \in AllOperations, NEW s \in Services,
           NEW A \in SUBSET Services, Begin(t, op, s, A)
    PROVE  \E seen \in {users, Fresh} : Moves(t)
           /\ thread'[t].pc = (IF op \in Actions THEN "runtime" ELSE "commit") /\ thread'[t].op = op
           /\ thread'[t].service = s /\ thread'[t].affected = A /\ thread'[t].seen = seen
           /\ SamePlan(thread'[t], Idle) /\ SameWork(thread'[t], Idle)
<1> DEFINE pc == IF op \in Actions THEN "runtime" ELSE "commit"
<1>1. PICK seen \in {users, Fresh} : Becomes(t, Asks(Idle, pc, op, s, A, seen))
  BY DEF Begin, Asks
<1>2. seen \in Desired /\ pc \in Steps /\ Idle \in Request
  BY Constants DEF TypeOK, Steps
<1> DEFINE q == Asks(Idle, pc, op, s, A, seen)
<1>3. Becomes(t, q)
  BY <1>1
<1> HIDE DEF pc
<1>4. q \in Request /\ q.pc = pc /\ q.op = op /\ q.service = s /\ q.affected = A /\ q.seen = seen
      /\ SamePlan(q, Idle) /\ SameWork(q, Idle)
  BY <1>2, AsksFields
<1>5. Moves(t) /\ thread'[t] = q
  BY <1>3, <1>4, Others
<1> QED BY <1>1, <1>4, <1>5 DEF pc

LEMMA ApplyDockerEffect ==
    ASSUME TypeOK, NEW t \in Threads, NEW s \in Services, ApplyDocker(t, s)
    PROVE  /\ Moves(t) /\ SameAsk(thread'[t], thread[t]) /\ SamePlan(thread'[t], thread[t])
           /\ thread'[t].pc = thread[t].pc /\ thread'[t].todo = thread[t].todo \ {s}
           /\ thread'[t].failed = thread[t].failed
           /\ \/ /\ running' = [running EXCEPT ![s] = generated[s]] /\ reported' = InDoubt(running')
                 /\ byHand' = TakenBack({s}) /\ thread'[t].queue = thread[t].queue
              \/ UNCHANGED <<running, reported, byHand>> /\ thread'[t].queue = thread[t].queue \cup {s}
<1> DEFINE S == thread[t].todo \ {s}
           Q == thread[t].queue \cup {s}
<1>1. thread[t] \in Request
  BY Current
<1>2. S \in SUBSET Services /\ Q \in SUBSET Services
  BY <1>1, Fields
<1>3. \/ /\ running' = [running EXCEPT ![s] = generated[s]] /\ reported' = InDoubt(running')
         /\ byHand' = TakenBack({s}) /\ Becomes(t, Does(thread[t], S))
      \/ UNCHANGED <<running, reported, byHand>> /\ Becomes(t, Queues(thread[t], S, Q))
  BY DEF ApplyDocker, Does, Queues
<1> HIDE DEF S, Q
<1>4. LET q == Does(thread[t], S) IN q \in Request /\ q.pc = thread[t].pc /\ q.todo = S
        /\ SameAsk(q, thread[t]) /\ SamePlan(q, thread[t]) /\ q.queue = thread[t].queue
        /\ q.failed = thread[t].failed
  BY <1>1, <1>2, DoesFields
<1>5. LET q == Queues(thread[t], S, Q) IN q \in Request /\ q.pc = thread[t].pc /\ q.todo = S /\ q.queue = Q
        /\ SameAsk(q, thread[t]) /\ SamePlan(q, thread[t]) /\ q.failed = thread[t].failed
  BY <1>1, <1>2, QueuesFields
<1>6. CASE Becomes(t, Does(thread[t], S)) /\ running' = [running EXCEPT ![s] = generated[s]]
           /\ reported' = InDoubt(running') /\ byHand' = TakenBack({s})
  BY <1>4, <1>6, Others DEF S
<1>7. CASE Becomes(t, Queues(thread[t], S, Q)) /\ UNCHANGED <<running, reported, byHand>>
  BY <1>5, <1>7, Others DEF S, Q
<1> QED BY <1>3, <1>6, <1>7

LEMMA VerifyHostEffect ==
    ASSUME TypeOK, NEW t \in Threads, VerifyHost(t)
    PROVE  \E h \in thread[t].syncing :
             /\ Moves(t) /\ SameAsk(thread'[t], thread[t]) /\ SamePlan(thread'[t], thread[t])
             /\ thread'[t].pc = "apply" /\ thread'[t].todo = thread[t].todo \ {h}
             /\ thread'[t].queue = thread[t].queue
             /\ thread'[t].failed = thread[t].failed \cup (IF Verified(t, h) THEN {} ELSE {h})
<1>1. PICK h \in thread[t].syncing :
        Becomes(t, Verifies(thread[t], thread[t].todo \ {h}, thread[t].failed \cup (IF Verified(t, h) THEN {}
          ELSE {h})))
  BY DEF VerifyHost, Verifies
<1> DEFINE S == thread[t].todo \ {h}
           F == thread[t].failed \cup (IF Verified(t, h) THEN {} ELSE {h})
<1>2. thread[t] \in Request /\ thread[t].syncing \subseteq Host
  BY Current, Fields
<1>3. S \in SUBSET Services /\ F \in SUBSET Services
  BY <1>2, Fields, Constants
<1> HIDE DEF S, F
<1>4. LET q == Verifies(thread[t], S, F) IN q \in Request /\ q.pc = "apply" /\ q.todo = S /\ q.failed = F
        /\ SameAsk(q, thread[t]) /\ SamePlan(q, thread[t]) /\ q.queue = thread[t].queue
  BY <1>2, <1>3, VerifiesFields
<1>5. Becomes(t, Verifies(thread[t], S, F))
  BY <1>1 DEF S, F
<1>6. Moves(t) /\ thread'[t] = Verifies(thread[t], S, F)
  BY <1>4, <1>5, Others
<1> QED BY <1>4, <1>6 DEF S, F

LEMMA AnswerEffect ==
    ASSUME TypeOK, NEW t \in Threads, NEW F, Answer(t, F)
    PROVE  Moves(t) /\ thread'[t] = Idle
BY Others, Constants DEF Answer

\* The types hold at the start.
LEMMA TypeInit == Init => TypeOK
BY Constants, Parts DEF Init, TypeOK, Fresh, Desired, Version

\* An answer keeps the types.
LEMMA AnswerTyped ==
    ASSUME TypeOK, NEW t \in Threads, NEW F \in SUBSET Services, Answer(t, F),
           users' \in Desired, generated' = generated, installed' = installed, byHand' = byHand,
           running' \in [Services -> Version \cup {Down}]
    PROVE  TypeOK'
<1>1. thread' \in [Threads -> Request]
  BY AnswerEffect DEF Moves
<1>2. globalLock' \in Threads \cup {NoThread} /\ serviceLock' \in [Services -> Threads \cup {NoThread}]
  BY Constants DEF Answer, TypeOK
<1>3. reported' \subseteq Services /\ contested' \subseteq Services
  BY DEF Answer, TypeOK
<1> QED BY <1>1, <1>2, <1>3 DEF TypeOK

\* Every step keeps the types; one step of the proof for every action, as in the lemmas that follow.
LEMMA TypeStep == TypeOK /\ RecordInv /\ [Next]_vars => TypeOK'
<1> SUFFICES ASSUME TypeOK, RecordInv, [Next]_vars PROVE TypeOK'
  OBVIOUS
<1> USE Constants DEF TypeOK, world, locks, history, Moves
<1>1. ASSUME NEW t \in Threads, NEW op \in AllOperations, NEW s \in Services,
             NEW A \in SUBSET Services, Begin(t, op, s, A)
      PROVE  TypeOK'
  <2>1. globalLock' \in Threads \cup {NoThread} /\ serviceLock' \in [Services -> Threads \cup {NoThread}]
    BY <1>1 DEF Begin
  <2>2. contested' \subseteq Services
    <3>1. \A u \in Threads : Scope(op, s) \cap Scope(thread[u].op, thread[u].service) \subseteq Services
      BY DEF Scope
    <3> QED BY <1>1, <3>1 DEF Begin
  <2> QED BY <1>1, <2>1, <2>2, BeginEffect DEF Begin
<1>3. ASSUME NEW t \in Threads, CommitRefused(t) PROVE TypeOK'
  BY <1>3, AnswerTyped DEF CommitRefused
<1>4. ASSUME NEW t \in Threads, Commit(t) PROVE TypeOK'
  BY <1>4, CommitEffect, CommitTyped DEF Commit
<1>5. ASSUME NEW t \in Threads, Fingerprint(t) PROVE TypeOK'
  BY <1>5, FingerprintEffect DEF Fingerprint
<1>6. ASSUME NEW t \in Threads, Render(t) PROVE TypeOK'
  <2>1. thread[t].written + 1 \in 1..Len(RenderOrder) /\ thread[t].after.config \in [Services -> Version]
    BY <1>6, NextFile, Current, Fields, Parts, SMTT(30)
  <2> QED BY <1>6, <2>1, RenderEffect DEF Render
<1>7. ASSUME NEW t \in Threads, RenderFails(t) PROVE TypeOK'
  BY <1>7, AnswerTyped DEF RenderFails
<1>8. ASSUME NEW t \in Threads, Plan(t) PROVE TypeOK'
  BY <1>8, PlanEffect DEF Plan
<1>9. ASSUME NEW t \in Threads, NEW s \in Services, ApplyDocker(t, s) PROVE TypeOK'
  <2>1. reported' \subseteq Services /\ running' \in [Services -> Version \cup {Down}]
    BY <1>9, ZenonT(30) DEF ApplyDocker, InDoubt
  <2>2. byHand' \in [Services -> SUBSET (Version \cup {Down})]
    <3>1. TakenBack({s}) \in [Services -> SUBSET (Version \cup {Down})]
      BY DEF TakenBack
    <3> QED BY <1>9, <3>1, ApplyDockerEffect
  <2> QED BY <1>9, <2>1, <2>2, ApplyDockerEffect DEF ApplyDocker
<1>10. ASSUME NEW t \in Threads, NEW s \in Services, SyncHost(t, s) PROVE TypeOK'
  <2>1. s \in Host
    BY <1>10 DEF SyncHost
  <2>2. byHand' \in [Services -> SUBSET (Version \cup {Down})]
    BY <1>10 DEF SyncHost, TakenBack
  <2> QED BY <1>10, <2>1, <2>2, SyncHostEffect DEF SyncHost
<1>11. ASSUME NEW t \in Threads, NEW s \in Services, SyncHostFails(t, s) PROVE TypeOK'
  <2>1. s \in Host
    BY <1>11 DEF SyncHostFails
  <2>2. installed' \in [Host -> Version] /\ running' \in [Services -> Version \cup {Down}]
    BY <1>11, <2>1 DEF SyncHostFails
  <2> QED BY <1>11, <2>2, SyncHostFailsEffect DEF SyncHostFails
<1>12. ASSUME NEW t \in Threads, VerifyHost(t) PROVE TypeOK'
  BY <1>12, VerifyHostEffect DEF VerifyHost, InDoubt
<1>13. ASSUME NEW t \in Threads, Restart(t) PROVE TypeOK'
  <2>1. running' \in [Services -> Version \cup {Down}] /\ reported' \subseteq Services
    BY <1>13 DEF Restart, InDoubt
  <2>2. byHand' \in [Services -> SUBSET (Version \cup {Down})]
    BY <1>13 DEF Restart, TakenBack
  <2> QED BY <1>13, <2>1, <2>2, RestartEffect DEF Restart
<1>14. ASSUME NEW t \in Threads, RestartFails(t) PROVE TypeOK'
  <2>1. running' \in [Services -> Version \cup {Down}]
    BY <1>14 DEF RestartFails
  <2> QED BY <1>14, <2>1, RestartFailsEffect DEF RestartFails
<1>15. ASSUME NEW t \in Threads, Finish(t) PROVE TypeOK'
  <2>1. thread[t].failed \subseteq Services
    BY Current, Fields
  <2> QED BY <1>15, <2>1, AnswerTyped DEF Finish
<1>16. ASSUME NEW t \in Threads, SwitchRuntime(t) PROVE TypeOK'
  <2>1. Switched(t) \in [Services -> Version \cup {Down}]
    BY Constants, Current, Fields DEF Switched, Started
  <2>2. byHand' \in [Services -> SUBSET (Version \cup {Down})]
    <3> DEFINE x == thread[t].service
    <3>1. x \in Services /\ running' \in [Services -> Version \cup {Down}]
          /\ byHand' = [byHand EXCEPT ![x] = {running'[x]} \ {Meant(t)}]
      BY <1>16, <2>1, Current, Fields DEF SwitchRuntime
    <3> HIDE DEF x
    <3>2. {running'[x]} \ {Meant(t)} \in SUBSET (Version \cup {Down})
      BY <3>1
    <3> QED BY <3>1, <3>2
  <2> QED BY <1>16, <2>1, <2>2, SwitchRuntimeEffect DEF SwitchRuntime
<1>17. ASSUME NEW t \in Threads, SwitchRuntimeFails(t) PROVE TypeOK'
  <2>1. Switched(t) \in [Services -> Version \cup {Down}] /\ thread[t].service \in Services
    BY Constants, Current, Fields DEF Switched, Started
  <2>2. running' \in [Services -> Version \cup {Down}] /\ Answer(t, {thread[t].service})
        /\ UNCHANGED <<users, generated, installed, byHand>>
    <3>1. [running EXCEPT ![thread[t].service] = Down] \in [Services -> Version \cup {Down}]
      BY <2>1
    <3>2. /\ running' \in {running, Switched(t), [running EXCEPT ![thread[t].service] = Down]}
          /\ Answer(t, {thread[t].service}) /\ UNCHANGED <<users, generated, installed, byHand>>
      BY <1>17 DEF SwitchRuntimeFails
    <3>3. running \in [Services -> Version \cup {Down}]
      OBVIOUS
    <3> HIDE DEF TypeOK
    <3> QED BY <2>1, <3>1, <3>2, <3>3
  <2>3. TypeOK'
    BY <2>1, <2>2, AnswerTyped
  <2> QED BY <2>3
<1>18. ASSUME NEW t \in Threads, Persist(t) PROVE TypeOK'
  <2>1. users' \in Desired
    BY <1>18, Current, Fields DEF Persist, Desired
  <2> QED BY <1>18, <2>1, AnswerTyped DEF Persist
<1>19. ASSUME NEW t \in Threads, PersistFails(t) PROVE TypeOK'
  <2>1. {thread[t].service} \subseteq Services
    BY Current, Fields
  <2> QED BY <1>19, <2>1, AnswerTyped DEF PersistFails
<1>20. ASSUME NEW failing \in SUBSET Services, AgentRestart(failing) PROVE TypeOK'
  <2>1. running' \in [Services -> Version \cup {Down}]
    BY <1>20 DEF AgentRestart, Started
  <2>2. byHand' \in [Services -> SUBSET (Version \cup {Down})]
    BY <1>20, <2>1 DEF AgentRestart
  <2> QED BY <1>20, <2>1, <2>2 DEF AgentRestart
<1>21. CASE UNCHANGED vars
  BY <1>21 DEF vars
<1> QED
  BY <1>1, <1>3, <1>4, <1>5, <1>6, <1>7, <1>8, <1>9, <1>10, <1>11,
     <1>12, <1>13, <1>14, <1>15, <1>16, <1>17, <1>18, <1>19, <1>20, <1>21
  DEF Next, Handle


\* The records have their shape at the start, and a step keeps it for the threads it does not
\* move.
LEMMA RecordIdle == Record(Idle)
BY Constants DEF Record, Idle, Rendering, Applying

LEMMA RecordInit == Init => RecordInv
BY RecordIdle DEF Init, RecordInv

LEMMA RecordMove ==
    ASSUME RecordInv, NEW t \in Threads, Moves(t), Record(thread'[t])
    PROVE  RecordInv'
BY DEF RecordInv, Moves

\* Every step keeps the shape of the requests.
LEMMA RecordStep == TypeOK /\ RecordInv /\ [Next]_vars => RecordInv'
<1> SUFFICES ASSUME TypeOK, RecordInv, [Next]_vars PROVE RecordInv'
  OBVIOUS
<1> USE Constants DEF SameAsk, SamePlan, SameWork
<1>1. ASSUME NEW t \in Threads, NEW op \in AllOperations, NEW s \in Services,
             NEW A \in SUBSET Services, Begin(t, op, s, A)
      PROVE  RecordInv'
  <2>1. PICK seen \in {users, Fresh} :
          /\ Moves(t) /\ thread'[t].op = op /\ thread'[t].affected = A /\ thread'[t].service = s
          /\ thread'[t].pc = (IF op \in Actions THEN "runtime" ELSE "commit")
          /\ thread'[t].seen = seen /\ thread'[t].written = Idle.written
          /\ thread'[t].todo = Idle.todo /\ thread'[t].queue = Idle.queue /\ thread'[t].failed = Idle.failed
    BY <1>1, BeginEffect
  <2>2. ASSUME NEW x \in A PROVE seen.config[x] < MaxVersion
    <3>1. x \in Services /\ users.config[x] \in 1..MaxVersion /\ users.config[x] < MaxVersion
          /\ MaxVersion \in Nat
      <4>1. users.config \in [Services -> Version] /\ x \in Services
        BY Parts DEF TypeOK
      <4>2. users.config[x] < MaxVersion
        BY <1>1 DEF Begin
      <4> QED BY <4>1, <4>2, ServiceAssumption DEF Version, ServiceAssumption
    <3>2. Fresh.config[x] = 1
      BY <3>1 DEF Fresh
    <3> DEFINE v == users.config[x]
    <3>3. 1 < MaxVersion
      <4> HIDE DEF v
      <4>1. v \in 1..MaxVersion /\ v < MaxVersion /\ MaxVersion \in Nat => 1 < MaxVersion
        OBVIOUS
      <4> QED BY <3>1, <4>1 DEF v
    <3>4. seen = users \/ seen = Fresh
      BY <2>1
    <3> QED BY <3>1, <3>2, <3>3, <3>4
  <2>3. Idle.todo = {} /\ Idle.queue = {} /\ Idle.failed = {} /\ Idle.written = 0
    BY DEF Idle
  <2>4. (op # "change" => A = {}) /\ (op = "apply" => s \in Host)
    BY <1>1 DEF Begin
  <2>5. Record(thread'[t])
    BY <2>1, <2>2, <2>3, <2>4 DEF Record, Rendering, Applying
  <2> QED BY <2>1, <2>5, RecordMove
<1>3. ASSUME NEW t \in Threads, CommitRefused(t) PROVE RecordInv'
  BY <1>3, AnswerEffect, RecordMove, RecordIdle DEF CommitRefused
<1>4. ASSUME NEW t \in Threads, Commit(t) PROVE RecordInv'
  <2>1. Record(thread[t]) /\ thread[t].pc = "commit"
    BY <1>4 DEF RecordInv, Commit
  <2>2. Moves(t) /\ Record(thread'[t])
    BY <1>4, <2>1, CommitEffect DEF Record, Rendering, Applying
  <2> QED BY <2>2, RecordMove
<1>5. ASSUME NEW t \in Threads, Fingerprint(t) PROVE RecordInv'
  <2>1. Record(thread[t]) /\ thread[t].pc = "fingerprint" /\ 0 < Len(RenderOrder)
    BY <1>5 DEF RecordInv, Fingerprint
  <2>2. Moves(t) /\ Record(thread'[t])
    BY <1>5, <2>1, FingerprintEffect DEF Record, Rendering, Applying
  <2> QED BY <2>2, RecordMove
<1>6. ASSUME NEW t \in Threads, Render(t) PROVE RecordInv'
  <2> DEFINE n == thread[t].written + 1
  <2>1. Record(thread[t]) /\ n \in 1..Len(RenderOrder) /\ thread[t].pc = "render"
    BY <1>6, NextFile DEF RecordInv, Render
  <2>2. /\ Moves(t) /\ SameAsk(thread'[t], thread[t]) /\ thread'[t].written = n
        /\ thread'[t].pc = (IF n = Len(RenderOrder) THEN "plan" ELSE "render")
        /\ SameWork(thread'[t], thread[t]) /\ thread'[t].after = thread[t].after
    BY <1>6, RenderEffect
  <2> HIDE DEF n
  <2>3. n # Len(RenderOrder) => n < Len(RenderOrder)
    BY <2>1
  <2>4. Record(thread'[t])
    BY <2>1, <2>2, <2>3 DEF Record, Rendering, Applying
  <2> QED BY <2>2, <2>4, RecordMove
<1>7. ASSUME NEW t \in Threads, RenderFails(t) PROVE RecordInv'
  BY <1>7, AnswerEffect, RecordMove, RecordIdle DEF RenderFails
<1>8. ASSUME NEW t \in Threads, Plan(t) PROVE RecordInv'
  <2>1. Record(thread[t]) /\ thread[t].pc = "plan"
    BY <1>8 DEF RecordInv, Plan
  <2>2. Moves(t) /\ Record(thread'[t])
    BY <1>8, <2>1, PlanEffect DEF Record, Rendering, Applying
  <2> QED BY <2>2, RecordMove
<1>9. ASSUME NEW t \in Threads, NEW s \in Services, ApplyDocker(t, s) PROVE RecordInv'
  <2>1. Record(thread[t]) /\ thread[t].pc = "apply" /\ s \in Docker /\ s \in thread[t].todo
    BY <1>9 DEF RecordInv, ApplyDocker
  <2>2. /\ Moves(t) /\ SameAsk(thread'[t], thread[t]) /\ SamePlan(thread'[t], thread[t])
        /\ thread'[t].pc = "apply" /\ thread'[t].todo = thread[t].todo \ {s}
        /\ thread'[t].failed = thread[t].failed
        /\ thread'[t].queue \in {thread[t].queue, thread[t].queue \cup {s}}
    BY <1>9, <2>1, ApplyDockerEffect
  <2>3. Record(thread'[t])
    BY <2>1, <2>2 DEF Record, Rendering, Applying
  <2> QED BY <2>2, <2>3, RecordMove
<1>10. ASSUME NEW t \in Threads, NEW s \in Services, SyncHost(t, s) PROVE RecordInv'
  <2>1. Record(thread[t]) /\ thread[t].pc = "apply" /\ s \in thread[t].todo
    BY <1>10 DEF RecordInv, SyncHost
  <2>2. /\ Moves(t) /\ thread'[t].pc = "verify" /\ thread'[t].syncing = {s}
        /\ SameAsk(thread'[t], thread[t]) /\ SamePlan(thread'[t], thread[t]) /\ SameWork(thread'[t], thread[t])
    BY <1>10, SyncHostEffect
  <2>3. thread'[t].syncing \subseteq thread'[t].todo
    BY <2>1, <2>2
  <2>4. Record(thread'[t])
    BY <2>1, <2>2, <2>3 DEF Record, Rendering, Applying
  <2> QED BY <2>2, <2>4, RecordMove
<1>11. ASSUME NEW t \in Threads, NEW s \in Services, SyncHostFails(t, s) PROVE RecordInv'
  <2>1. Record(thread[t]) /\ thread[t].pc = "apply" /\ s \in thread[t].todo
    BY <1>11 DEF RecordInv, SyncHostFails
  <2>2. /\ Moves(t) /\ thread'[t].pc = "apply" /\ thread'[t].todo = thread[t].todo \ {s}
        /\ thread'[t].failed = thread[t].failed \cup {s} /\ thread'[t].queue = thread[t].queue
        /\ SameAsk(thread'[t], thread[t]) /\ SamePlan(thread'[t], thread[t])
    BY <1>11, <2>1, SyncHostFailsEffect
  <2>3. \A x \in thread'[t].todo \cup thread'[t].queue \cup thread'[t].failed : thread'[t].after.enabled[x]
    BY <2>1, <2>2 DEF Record
  <2>4. Record(thread'[t])
    BY <2>1, <2>2, <2>3 DEF Record, Rendering, Applying
  <2> QED BY <2>2, <2>4, RecordMove
<1>12. ASSUME NEW t \in Threads, VerifyHost(t) PROVE RecordInv'
  <2>1. Record(thread[t]) /\ thread[t].pc = "verify"
    BY <1>12 DEF RecordInv, VerifyHost
  <2>2. PICK h \in thread[t].syncing :
          /\ Moves(t) /\ thread'[t].pc = "apply" /\ thread'[t].todo = thread[t].todo \ {h}
          /\ thread'[t].failed = thread[t].failed \cup (IF Verified(t, h) THEN {} ELSE {h})
          /\ thread'[t].queue = thread[t].queue
          /\ SameAsk(thread'[t], thread[t]) /\ SamePlan(thread'[t], thread[t])
    BY <1>12, VerifyHostEffect
  <2>3. \A x \in thread'[t].todo \cup thread'[t].queue \cup thread'[t].failed : thread'[t].after.enabled[x]
    BY <2>1, <2>2 DEF Record
  <2>4. Record(thread'[t])
    BY <2>1, <2>2, <2>3 DEF Record, Rendering, Applying
  <2> QED BY <2>2, <2>4, RecordMove
<1>13. ASSUME NEW t \in Threads, Restart(t) PROVE RecordInv'
  <2>1. Record(thread[t]) /\ thread[t].pc = "apply" /\ thread[t].todo = {}
    BY <1>13 DEF RecordInv, Restart
  <2>2. Moves(t) /\ Record(thread'[t])
    BY <1>13, <2>1, RestartEffect DEF Record, Rendering, Applying
  <2> QED BY <2>2, RecordMove
<1>14. ASSUME NEW t \in Threads, RestartFails(t) PROVE RecordInv'
  <2>1. Record(thread[t]) /\ thread[t].pc = "apply" /\ thread[t].todo = {}
    BY <1>14 DEF RecordInv, RestartFails
  <2>2. Moves(t) /\ Record(thread'[t])
    BY <1>14, <2>1, RestartFailsEffect DEF Record, Rendering, Applying
  <2> QED BY <2>2, RecordMove
<1>15. ASSUME NEW t \in Threads, Finish(t) PROVE RecordInv'
  BY <1>15, AnswerEffect, RecordMove, RecordIdle DEF Finish
<1>16. ASSUME NEW t \in Threads, SwitchRuntime(t) PROVE RecordInv'
  <2>1. Record(thread[t]) /\ thread[t].pc = "runtime"
    BY <1>16 DEF RecordInv, SwitchRuntime
  <2>2. Moves(t) /\ Record(thread'[t])
    BY <1>16, <2>1, SwitchRuntimeEffect DEF Record, Rendering, Applying
  <2> QED BY <2>2, RecordMove
<1>17. ASSUME NEW t \in Threads, SwitchRuntimeFails(t) PROVE RecordInv'
  BY <1>17, AnswerEffect, RecordMove, RecordIdle DEF SwitchRuntimeFails
<1>18. ASSUME NEW t \in Threads, Persist(t) PROVE RecordInv'
  BY <1>18, AnswerEffect, RecordMove, RecordIdle DEF Persist
<1>19. ASSUME NEW t \in Threads, PersistFails(t) PROVE RecordInv'
  BY <1>19, AnswerEffect, RecordMove, RecordIdle DEF PersistFails
<1>20. ASSUME NEW failing \in SUBSET Services, AgentRestart(failing) PROVE RecordInv'
  BY <1>20, RecordIdle DEF AgentRestart, RecordInv
<1>21. CASE UNCHANGED vars
  BY <1>21 DEF vars, RecordInv
<1> QED
  BY <1>1, <1>3, <1>4, <1>5, <1>6, <1>7, <1>8, <1>9, <1>10, <1>11,
     <1>12, <1>13, <1>14, <1>15, <1>16, <1>17, <1>18, <1>19, <1>20, <1>21
  DEF Next, Handle

\* A step of a request that goes on, under the lock it has.
Continues(t) ==
    /\ Moves(t) /\ InProgress(t) /\ thread'[t].pc # "idle"
    /\ thread'[t].op = thread[t].op /\ thread'[t].service = thread[t].service
    /\ UNCHANGED <<locks, contested>>

\* The steps a request goes on with.
LEMMA GoesOn ==
    ASSUME TypeOK, RecordInv, NEW t \in Threads,
           \/ Commit(t) \/ Fingerprint(t) \/ Render(t) \/ Plan(t)
           \/ \E s \in Services : ApplyDocker(t, s) \/ SyncHost(t, s) \/ SyncHostFails(t, s)
           \/ VerifyHost(t) \/ Restart(t) \/ RestartFails(t) \/ SwitchRuntime(t)
    PROVE  Continues(t)
<1> USE DEF SameAsk, Continues, InProgress, locks, history
<1>1. ASSUME Commit(t) PROVE Continues(t)
  BY <1>1, CommitEffect DEF Commit
<1>2. ASSUME Fingerprint(t) PROVE Continues(t)
  BY <1>2, FingerprintEffect DEF Fingerprint
<1>3. ASSUME Render(t) PROVE Continues(t)
  BY <1>3, RenderEffect DEF Render
<1>4. ASSUME Plan(t) PROVE Continues(t)
  BY <1>4, PlanEffect DEF Plan
<1>5. ASSUME NEW s \in Services, ApplyDocker(t, s) PROVE Continues(t)
  BY <1>5, ApplyDockerEffect DEF ApplyDocker
<1>6. ASSUME NEW s \in Services, SyncHost(t, s) PROVE Continues(t)
  BY <1>6, SyncHostEffect DEF SyncHost
<1>7. ASSUME NEW s \in Services, SyncHostFails(t, s) PROVE Continues(t)
  BY <1>7, SyncHostFailsEffect DEF SyncHostFails
<1>8. ASSUME VerifyHost(t) PROVE Continues(t)
  BY <1>8, VerifyHostEffect DEF VerifyHost
<1>9. ASSUME Restart(t) PROVE Continues(t)
  BY <1>9, RestartEffect DEF Restart
<1>10. ASSUME RestartFails(t) PROVE Continues(t)
  BY <1>10, RestartFailsEffect DEF RestartFails
<1>11. ASSUME SwitchRuntime(t) PROVE Continues(t)
  BY <1>11, SwitchRuntimeEffect DEF SwitchRuntime
<1> QED BY <1>1, <1>2, <1>3, <1>4, <1>5, <1>6, <1>7, <1>8, <1>9, <1>10, <1>11

\* A request goes on or is answered.
LEMMA GoesOrEnds ==
    ASSUME TypeOK, RecordInv, NEW t \in Threads, Handle(t)
    PROVE  Continues(t) \/ (InProgress(t) /\ \E F \in SUBSET Services : Answer(t, F))
<1>1. ASSUME CommitRefused(t) \/ RenderFails(t) \/ Finish(t) \/ SwitchRuntimeFails(t) \/ Persist(t) \/ PersistFails(t)
      PROVE  InProgress(t) /\ \E F \in SUBSET Services : Answer(t, F)
  <2>1. {} \in SUBSET Services /\ {thread[t].service} \in SUBSET Services /\ thread[t].failed \in SUBSET Services
    BY Current, Fields
  <2> QED BY <1>1, <2>1 DEF CommitRefused, RenderFails, Finish, SwitchRuntimeFails, Persist, PersistFails, InProgress
<1> QED BY <1>1, GoesOn DEF Handle

\* A thread that has been answered is idle.
LEMMA AnswerIdles ==
    ASSUME TypeOK, NEW t \in Threads, NEW F, Answer(t, F)
    PROVE  Moves(t) /\ thread'[t].pc = "idle"
<1>1. Idle.pc = "idle"
  BY DEF Idle
<1> QED BY <1>1, AnswerEffect

\* Locks are held, and requests apart, at the start.
LEMMA HeldInit == Init => HeldInv /\ ApartInv
BY DEF Init, HeldInv, Held, ApartInv, Works, InProgress, Idle

\* The lock of a request that ends was its own; every step keeps the others theirs.
LEMMA HeldStep == TypeOK /\ RecordInv /\ HeldInv /\ [Next]_vars => HeldInv'
<1> SUFFICES ASSUME TypeOK, RecordInv, HeldInv, [Next]_vars PROVE HeldInv'
  OBVIOUS
<1>1. ASSUME NEW t \in Threads, NEW op \in AllOperations, NEW s \in Services,
             NEW A \in SUBSET Services, Begin(t, op, s, A)
      PROVE  HeldInv'
  <2>1. Moves(t) /\ thread'[t].op = op /\ thread'[t].service = s
    BY <1>1, BeginEffect
  <2>2. ASSUME NEW u \in Threads PROVE Held(u)'
    <3>1. CASE u = t
      BY <1>1, <2>1, <3>1 DEF Begin, Held, TypeOK
    <3>2. CASE u # t
      <4>1. thread'[u] = thread[u] /\ Held(u)
        BY <2>1, <3>2 DEF Moves, HeldInv
      <4>2. u # NoThread /\ thread[u].service \in Services
        BY Constants, Current, Fields
      <4> QED BY <1>1, <4>1, <4>2 DEF Begin, Held, TypeOK, InProgress
    <3> QED BY <3>1, <3>2
  <2> QED BY <2>2 DEF HeldInv
<1>2. ASSUME NEW t \in Threads, Continues(t) PROVE HeldInv'
  BY <1>2 DEF Continues, HeldInv, Held, InProgress, Moves, locks
<1>3. ASSUME NEW t \in Threads, InProgress(t), NEW F \in SUBSET Services, Answer(t, F) PROVE HeldInv'
  <2>1. Moves(t) /\ thread'[t].pc = "idle"
    BY <1>3, AnswerIdles
  <2>2. ASSUME NEW u \in Threads PROVE Held(u)'
    <3>1. CASE u = t
      BY <2>1, <3>1 DEF Held, InProgress
    <3>2. CASE u # t
      <4>1. thread'[u] = thread[u] /\ Held(u) /\ Held(t)
        BY <2>1, <3>2 DEF Moves, HeldInv
      <4>2. thread[t].service \in Services /\ thread[u].service \in Services
        BY Current, Fields
      <4> QED BY <1>3, <3>2, <4>1, <4>2 DEF Answer, Held, TypeOK, InProgress
    <3> QED BY <3>1, <3>2
  <2> QED BY <2>2 DEF HeldInv
<1>4. ASSUME NEW failing \in SUBSET Services, AgentRestart(failing) PROVE HeldInv'
  BY <1>4 DEF AgentRestart, HeldInv, Held, InProgress, Idle
<1>5. CASE UNCHANGED vars
  BY <1>5 DEF vars, locks, HeldInv, Held, InProgress
<1> QED BY <1>1, <1>2, <1>3, <1>4, <1>5, GoesOrEnds DEF Next

\* Every step keeps requests apart but for what they contest.
LEMMA ApartStep == TypeOK /\ RecordInv /\ HeldInv /\ ApartInv /\ [Next]_vars => ApartInv'
<1> SUFFICES ASSUME TypeOK, RecordInv, HeldInv, ApartInv, [Next]_vars PROVE ApartInv'
  OBVIOUS
<1>1. ASSUME NEW t \in Threads, NEW op \in AllOperations, NEW s \in Services,
             NEW A \in SUBSET Services, Begin(t, op, s, A)
      PROVE  ApartInv'
  <2>1. Moves(t) /\ thread'[t].op = op /\ thread'[t].service = s /\ thread'[t].pc # "idle"
    BY <1>1, BeginEffect
  <2>2. ASSUME NEW u \in Threads, u # t, InProgress(u) PROVE Beside(u, op, s)
    <3>1. Held(u) /\ u # NoThread
      BY Constants DEF HeldInv
    <3> QED BY <1>1, <2>2, <3>1 DEF Begin, Beside, LockOf, Held
  <2>3. ASSUME NEW u \in Threads, u # t, NEW x \in Services, Works(u, x), x \in Scope(op, s)
        PROVE  x \in contested'
    BY <1>1, <2>2, <2>3 DEF Begin, Works
  <2>4. contested \subseteq contested'
    BY <1>1 DEF Begin
  <2>5. ASSUME NEW u \in Threads, u # t, NEW x \in Services PROVE Works(u, x)' <=> Works(u, x)
    BY <2>1, <2>5 DEF Works, InProgress, Moves
  <2>6. ASSUME NEW x \in Services PROVE Works(t, x)' <=> x \in Scope(op, s)
    BY <2>1 DEF Works, InProgress
  <2>7. ~Quiet'
    BY <2>1 DEF Quiet, InProgress
  <2>8. ASSUME NEW v \in Threads, NEW u \in Threads \ {v}, NEW x \in Services, Works(v, x)', Works(u, x)'
        PROVE  x \in contested'
    BY <2>3, <2>4, <2>5, <2>6, <2>8 DEF ApartInv
  <2> QED BY <2>7, <2>8 DEF ApartInv
<1>2. ASSUME NEW t \in Threads, Continues(t) PROVE ApartInv'
  <2>1. ASSUME NEW u \in Threads, NEW x \in Services PROVE Works(u, x)' <=> Works(u, x)
    BY <1>2 DEF Continues, Works, InProgress, Moves
  <2>2. ~Quiet' /\ contested' = contested
    BY <1>2 DEF Continues, Quiet, InProgress
  <2> QED BY <2>1, <2>2 DEF ApartInv
<1>3. ASSUME NEW t \in Threads, InProgress(t), NEW F \in SUBSET Services, Answer(t, F) PROVE ApartInv'
  <2>1. Moves(t) /\ thread'[t].pc = "idle"
    BY <1>3, AnswerIdles
  <2>2. ASSUME NEW u \in Threads, NEW x \in Services, Works(u, x)' PROVE u # t /\ Works(u, x) /\ InProgress(u)
    BY <2>1, <2>2 DEF Works, InProgress, Moves
  <2>3. CASE \E u \in Threads \ {t} : InProgress(u)
    <3>1. ~Quiet' /\ contested' = contested
      BY <1>3, <2>1, <2>3 DEF Answer, Quiet, InProgress, Moves
    <3> QED BY <2>2, <3>1 DEF ApartInv
  <2>4. CASE ~ \E u \in Threads \ {t} : InProgress(u)
    <3>1. contested' = {} /\ \A u \in Threads, x \in Services : ~Works(u, x)'
      BY <1>3, <2>2, <2>4 DEF Answer
    <3> QED BY <3>1 DEF ApartInv
  <2> QED BY <2>3, <2>4
<1>4. ASSUME NEW failing \in SUBSET Services, AgentRestart(failing) PROVE ApartInv'
  BY <1>4 DEF AgentRestart, ApartInv, Works, InProgress, Idle
<1>5. CASE UNCHANGED vars
  BY <1>5 DEF vars, history, ApartInv, Works, InProgress, Quiet
<1> QED BY <1>1, <1>2, <1>3, <1>4, <1>5, GoesOrEnds DEF Next

RequestInv == TypeOK /\ RecordInv /\ HeldInv /\ ApartInv

\* Nothing of service s changes, but for how it is reported.
Same(s) ==
    /\ users'.config[s] = users.config[s] /\ users'.enabled[s] = users.enabled[s]
    /\ generated'[s] = generated[s] /\ running'[s] = running[s] /\ byHand'[s] = byHand[s]

\* A request in the pipeline works on every service, and alone on what is not contested.
LEMMA Mine ==
    ASSUME RequestInv, FollowInv, NEW t \in Threads, thread[t].pc \in Rendering \cup {"commit"},
           NEW s \in Services, s \notin contested
    PROVE  /\ Works(t, s) /\ \A u \in Threads \ {t} : ~Works(u, s)
           /\ Found(t, s) /\ (s \notin reported => Kept(t, s))
           /\ thread[t].pc = "commit" /\ s \notin reported => Rests(s)
<1>1. thread[t].op \notin Actions /\ InProgress(t)
  BY DEF RequestInv, RecordInv, Record, InProgress, Rendering
<1>2. Works(t, s) /\ \A u \in Threads \ {t} : ~Works(u, s)
  BY <1>1 DEF Works, Scope, RequestInv, ApartInv
<1>3. Followed(s)
  BY DEF FollowInv
<1>4. thread[t].pc = "commit" => ~Engaged(t)
  BY DEF Engaged, Rendering
<1> QED BY <1>2, <1>3, <1>4 DEF Followed

\* Its step needs to be followed where nothing is contested.
LEMMA MyMove ==
    ASSUME RequestInv, FollowInv, NEW t \in Threads, thread[t].pc \in Rendering \cup {"commit"},
           Continues(t), thread'[t].pc \in Rendering,
           \A s \in Services \ contested : Found(t, s)' /\ (s \notin reported' => Kept(t, s)')
    PROVE  FollowInv'
<1> SUFFICES ASSUME NEW s \in Services \ contested PROVE Followed(s)'
  BY DEF Continues, FollowInv
<1>1. Works(t, s) /\ \A u \in Threads \ {t} : ~Works(u, s)
  BY Mine
<1>2. Works(t, s)' /\ \A u \in Threads \ {t} : ~Works(u, s)'
  BY <1>1 DEF Continues, Works, InProgress, Moves
<1>3. Engaged(t)'
  BY DEF Engaged
<1> QED BY <1>2, <1>3 DEF Followed

\* A step of t that leaves s alone, and is not engaged with it, is no business of s.
LEMMA Aside ==
    ASSUME RequestInv, NEW t \in Threads, NEW s \in Services, Followed(s), Moves(t), Same(s),
           Works(t, s) => ~Engaged(t), Works(t, s)' => ~Engaged(t)',
           s \notin reported' => s \notin reported
    PROVE  Followed(s)'
<1>1. Good(s)' <=> Good(s)
  BY DEF Good, Asked, Same
<1>2. ASSUME NEW u \in Threads, Works(u, s)' PROVE Found(u, s)' /\ (s \notin reported' => Kept(u, s)')
  <2>1. CASE u = t
    BY <1>2, <2>1 DEF Engaged, Found, Kept, Rendering, Applying
  <2>2. CASE u # t
    <3>1. thread'[u] = thread[u]
      BY <2>2 DEF Moves
    <3>2. Works(u, s) /\ (Forced(u)' = Forced(u))
      BY <1>2, <3>1 DEF Works, InProgress, Forced
    <3>3. Found(u, s) /\ (s \notin reported => Kept(u, s))
      BY <3>2 DEF Followed
    <3>4. Found(u, s)'
      BY <3>1, <3>2, <3>3 DEF Found, Same
    <3>5. thread[u].pc = "persist" => thread[u].service = s
      BY <3>2 DEF RequestInv, RecordInv, Record, Works, Scope
    <3>6. thread[u].pc = "persist" => Meant(u)' = Meant(u)
      BY <3>1, <3>5 DEF Meant, Asked, Same
    <3>7. s \notin reported' => Kept(u, s)'
      BY <3>1, <3>3, <3>6, <1>1 DEF Kept, Same
    <3> QED BY <3>4, <3>7
  <2> QED BY <2>1, <2>2
<1>3. ASSUME s \notin reported', \A u \in Threads : Works(u, s)' => ~Engaged(u)' PROVE Rests(s)'
  <2>1. ASSUME NEW u \in Threads, Works(u, s) PROVE ~Engaged(u)
    BY <1>3, <2>1 DEF Moves, Works, InProgress, Engaged
  <2>2. Rests(s)
    BY <1>3, <2>1 DEF Followed
  <2> QED BY <1>1, <2>2 DEF Rests, Same
<1> QED BY <1>2, <1>3 DEF Followed

\* An answer follows a service when it reports it, or leaves it as it should be.
LEMMA AnswerFollows ==
    ASSUME RequestInv, FollowInv, NEW t \in Threads, InProgress(t), NEW F \in SUBSET Services, Answer(t, F),
           NEW s \in Services, s \notin contested', Same(s) \/ Works(t, s),
           s \notin contested /\ s \notin reported /\ s \notin F /\ Works(t, s) => Rests(s)'
    PROVE  Followed(s)'
<1>1. Moves(t) /\ ~InProgress(t)'
  BY AnswerIdles DEF RequestInv, InProgress
<1>2. reported \cup F \subseteq reported'
  BY DEF Answer
<1>3. ~Works(t, s)'
  BY <1>1 DEF Works
<1>4. CASE s \in contested
  <2>1. s \in reported' /\ \A u \in Threads \ {t} : ~InProgress(u)
    BY <1>4 DEF Answer
  <2>2. \A u \in Threads : ~Works(u, s)'
    BY <1>1, <1>3, <2>1 DEF Works, InProgress, Moves
  <2> QED BY <2>1, <2>2 DEF Followed
<1>5. CASE s \notin contested /\ Works(t, s)
  <2>1. \A u \in Threads : ~Works(u, s)'
    BY <1>1, <1>3, <1>5 DEF Works, InProgress, Moves, RequestInv, ApartInv
  <2> QED BY <1>2, <1>5, <2>1 DEF Followed
<1>6. CASE s \notin contested /\ ~Works(t, s)
  <2>1. Followed(s) /\ Same(s)
    BY <1>6 DEF FollowInv
  <2> QED BY <1>1, <1>2, <1>3, <1>6, <2>1, Aside
<1> QED BY <1>4, <1>5, <1>6

\* What is followed at the start, and taken up by a request.
LEMMA FollowInit == Init => FollowInv
<1> SUFFICES ASSUME Init, NEW s \in Services PROVE Followed(s)
  BY DEF FollowInv
<1>1. \A t \in Threads : ~Works(t, s)
  BY DEF Init, Works, InProgress, Idle
<1>2. Rests(s)
  BY DEF Init, Rests, Good, Asked, Fresh
<1> QED BY <1>1, <1>2 DEF Followed

LEMMA FollowBegin ==
    ASSUME RequestInv, FollowInv, NEW t \in Threads, NEW op \in AllOperations, NEW x \in Services,
           NEW A \in SUBSET Services, Begin(t, op, x, A)
    PROVE  FollowInv'
<1> SUFFICES ASSUME NEW s \in Services, s \notin contested' PROVE Followed(s)'
  BY DEF FollowInv
<1>1. Moves(t) /\ thread'[t].pc \in {"runtime", "commit"} /\ thread[t].pc = "idle"
  BY BeginEffect DEF RequestInv, Begin
<1>2. Followed(s)
  BY DEF FollowInv, Begin
<1>3. Same(s) /\ reported' = reported
  BY DEF Begin, Same, world
<1>4. ~Engaged(t)' /\ ~Engaged(t)
  BY <1>1 DEF Engaged, Rendering
<1> QED BY <1>1, <1>2, <1>3, <1>4, Aside

\* What is not in doubt any more runs what users.json asks for.
LEMMA Seen ==
    ASSUME NEW s \in Services, s \in reported, s \notin reported', reported' = InDoubt(running'),
           generated' = generated, users' = users
    PROVE  Good(s)'
BY DEF InDoubt, Good, Asked

\* Every step of the pipeline follows the services, one lemma for an action.
LEMMA FollowCommit ==
    ASSUME RequestInv, FollowInv, NEW t \in Threads, Commit(t), Continues(t) PROVE FollowInv'
<1>1. thread[t].pc = "commit" /\ thread'[t].pc = "fingerprint" /\ thread'[t].after = users'
      /\ UNCHANGED <<generated, running, reported, byHand>>
  BY CommitEffect DEF RequestInv, Commit, history
<1>2. \A s \in Services : users'.config[s] = NextConfig(thread[t].affected)[s] /\ users'.enabled[s] = users.enabled[s]
  BY DEF Commit, RequestInv, TypeOK, Desired
<1>3. ASSUME NEW s \in Services \ contested PROVE Found(t, s)' /\ (s \notin reported' => Kept(t, s)')
  <2>1. Found(t, s)'
    BY <1>1 DEF Found, Applying
  <2>2. ASSUME s \notin reported PROVE Good(s)' \/ (users.enabled[s]' /\ generated'[s] # users'.config[s])
    <3>1. Rests(s) /\ users.config[s] \in Nat
      BY <1>1, <2>2, Mine, Parts DEF RequestInv, TypeOK, Version
    <3>2. users'.config[s] \in {users.config[s], users.config[s] + 1}
      BY <1>2 DEF NextConfig
    <3> DEFINE v == users.config[s]
               w == users'.config[s]
    <3>3. w # v => generated'[s] # w
      BY <1>1, <3>1 DEF Rests
    <3>4. CASE w = v
      BY <1>1, <1>2, <3>1, <3>4 DEF Rests, Good, Asked
    <3>5. CASE w # v /\ users.enabled[s]
      BY <1>2, <3>3, <3>5
    <3>6. CASE ~users.enabled[s]
      BY <1>1, <1>2, <3>1, <3>6 DEF Rests, Good, Asked
    <3> QED BY <3>4, <3>5, <3>6
  <2> QED BY <1>1, <2>1, <2>2 DEF Kept
<1> QED BY <1>1, <1>3, MyMove DEF Rendering

LEMMA FollowFingerprint ==
    ASSUME RequestInv, FollowInv, NEW t \in Threads, Fingerprint(t), Continues(t) PROVE FollowInv'
<1>1. thread[t].pc = "fingerprint" /\ thread'[t].pc = "render" /\ thread'[t].after = thread[t].after
      /\ thread'[t].fingerprint = generated /\ thread'[t].written = thread[t].written
      /\ UNCHANGED <<users, generated, running, reported, byHand>>
  BY FingerprintEffect DEF RequestInv, Fingerprint, history, world
<1>2. thread[t].written = 0
  BY <1>1 DEF RequestInv, RecordInv, Record
<1>3. ASSUME NEW s \in Services \ contested PROVE Found(t, s)' /\ (s \notin reported' => Kept(t, s)')
  <2>1. Found(t, s) /\ (s \notin reported => Kept(t, s))
    BY <1>1, Mine DEF Rendering
  <2>2. Found(t, s)'
    BY <1>1, <1>2, <2>1 DEF Found, Applying, Rendering
  <2>3. Good(s)' <=> Good(s)
    BY <1>1 DEF Good, Asked
  <2> QED BY <1>1, <2>1, <2>2, <2>3 DEF Kept
<1> QED BY <1>1, <1>3, MyMove DEF Rendering

LEMMA FollowRender ==
    ASSUME RequestInv, FollowInv, NEW t \in Threads, Render(t), Continues(t) PROVE FollowInv'
<1> DEFINE n == thread[t].written + 1
           x == RenderOrder[n]
<1>1. /\ thread[t].pc = "render" /\ thread'[t].after = thread[t].after /\ thread'[t].written = n
      /\ thread'[t].pc = (IF n = Len(RenderOrder) THEN "plan" ELSE "render")
      /\ thread'[t].fingerprint = thread[t].fingerprint
      /\ UNCHANGED <<users, running, reported, byHand>>
      /\ generated' = [generated EXCEPT ![x] = thread[t].after.config[x]]
  BY RenderEffect DEF RequestInv, Render, history
<1>2. n \in 1..Len(RenderOrder) /\ thread[t].written \in Nat /\ n - 1 = thread[t].written
  BY NextFile DEF RequestInv
<1>3. generated \in [Services -> Version]
  BY DEF RequestInv, TypeOK
<1> HIDE DEF n
<1>4. ASSUME NEW s \in Services \ contested PROVE Found(t, s)' /\ (s \notin reported' => Kept(t, s)')
  <2>1. Found(t, s) /\ (s \notin reported => Kept(t, s))
    BY <1>1, Mine DEF Rendering
  <2>2. thread[t].after.config[s] = users.config[s] /\ thread[t].after.enabled[s] = users.enabled[s]
    BY <1>1, <2>1 DEF Found, Rendering
  <2>3. x = s => generated'[s] = users.config[s]
    BY <1>1, <1>3, <2>2
  <2>4. x # s => generated'[s] = generated[s]
    BY <1>1, <1>3
  <2>5. ASSUME NEW i \in 1..n, RenderOrder[i] = s PROVE generated'[s] = users.config[s]
    <3>1. i = n \/ i \in 1..thread[t].written
      BY <1>2
    <3>2. i \in 1..thread[t].written => generated[s] = users.config[s]
      BY <1>1, <2>1, <2>5 DEF Found, Rendering
    <3> QED BY <2>3, <2>4, <2>5, <3>1, <3>2
  <2>6. n = Len(RenderOrder) => generated'[s] = users.config[s]
    BY <2>5, Constants
  <2>7. Found(t, s)'
    BY <1>1, <2>2, <2>5, <2>6 DEF Found, Applying, Rendering
  <2>8. Good(s)' <=> Good(s)
    BY <1>1 DEF Good, Asked
  <2>9. s \notin reported' => Kept(t, s)'
    BY <1>1, <2>1, <2>8 DEF Kept
  <2> QED BY <2>7, <2>9
<1> QED BY <1>1, <1>4, MyMove DEF Rendering

LEMMA FollowPlan ==
    ASSUME RequestInv, FollowInv, NEW t \in Threads, Plan(t), Continues(t) PROVE FollowInv'
<1>1. /\ thread[t].pc = "plan" /\ thread'[t].pc = "apply" /\ thread'[t].after = thread[t].after
      /\ thread'[t].todo = {s \in Touched(t) : thread[t].after.enabled[s]}
      /\ thread'[t].op = thread[t].op /\ thread'[t].service = thread[t].service
      /\ UNCHANGED <<users, generated, running, reported, byHand>>
  BY PlanEffect DEF RequestInv, Plan, history, world, SameAsk
<1>2. Forced(t)' = Forced(t)
  BY <1>1 DEF Forced
<1>3. Forced(t) \subseteq Host
  BY DEF Forced, RequestInv, RecordInv, Record
<1>4. ASSUME NEW s \in Services \ contested PROVE Found(t, s)' /\ (s \notin reported' => Kept(t, s)')
  <2>1. Found(t, s) /\ (s \notin reported => Kept(t, s))
    BY <1>1, Mine DEF Rendering
  <2>2. thread[t].after.config[s] = users.config[s] /\ thread[t].after.enabled[s] = users.enabled[s]
        /\ generated[s] = users.config[s]
    BY <1>1, <2>1 DEF Found, Rendering
  <2>3. s \in Touched(t) /\ users.enabled[s] => s \in thread'[t].todo
    BY <1>1, <2>2
  <2>4. s \in Forced(t) => s \in Touched(t)
    BY <1>3 DEF Touched
  <2>5. Found(t, s)'
    BY <1>1, <1>2, <2>2, <2>3, <2>4 DEF Found, Applying, Rendering
  <2>6. thread[t].fingerprint[s] # users.config[s] => s \in Touched(t)
    BY <2>2 DEF Touched, Changed, Services
  <2>7. Good(s)' <=> Good(s)
    BY <1>1 DEF Good, Asked
  <2>8. s \notin reported' => Kept(t, s)'
    BY <1>1, <2>1, <2>3, <2>6, <2>7 DEF Kept
  <2> QED BY <2>5, <2>8
<1> QED BY <1>1, <1>4, MyMove DEF Rendering

\* What the apply phase knows of a service that nobody contests.
LEMMA InApply ==
    ASSUME RequestInv, FollowInv, NEW t \in Threads, thread[t].pc \in {"apply", "verify"},
           NEW s \in Services \ contested
    PROVE  /\ generated[s] = users.config[s] /\ thread[t].after.config[s] = users.config[s]
           /\ thread[t].after.enabled[s] = users.enabled[s]
           /\ s \in thread[t].todo \cup thread[t].queue \cup thread[t].failed => users.enabled[s]
           /\ s \in Forced(t) /\ users.enabled[s] =>
                 s \in thread[t].todo \cup thread[t].failed \/ running[s] = generated[s]
           /\ s \notin reported =>
                 Good(s) \/ s \in thread[t].todo \cup thread[t].queue \cup thread[t].failed
<1>1. Found(t, s) /\ (s \notin reported => Kept(t, s))
  BY Mine DEF Rendering
<1>2. thread[t].after.config[s] = users.config[s] /\ thread[t].after.enabled[s] = users.enabled[s]
      /\ generated[s] = users.config[s]
      /\ (s \in Forced(t) /\ users.enabled[s] =>
             s \in thread[t].todo \cup thread[t].failed \/ running[s] = generated[s])
  BY <1>1 DEF Found, Rendering, Applying
<1>3. s \in thread[t].todo \cup thread[t].queue \cup thread[t].failed => users.enabled[s]
  BY <1>2 DEF RequestInv, RecordInv, Record
<1>4. s \notin reported => Good(s) \/ s \in thread[t].todo \cup thread[t].queue \cup thread[t].failed
  BY <1>1 DEF Kept
<1> QED BY <1>2, <1>3, <1>4

\* A step within the apply phase needs to follow what runs.
LEMMA ApplyMove ==
    ASSUME RequestInv, FollowInv, NEW t \in Threads, thread[t].pc \in {"apply", "verify"},
           Continues(t), thread'[t].pc \in Applying, thread'[t].after = thread[t].after,
           users' = users, generated' = generated,
           \A s \in Services \ contested :
              /\ s \in Forced(t) /\ users.enabled[s] =>
                    s \in thread'[t].todo \cup thread'[t].failed \/ running'[s] = generated[s]
              /\ s \notin reported' =>
                    \/ Good(s)' \/ s \in thread'[t].failed
                    \/ thread'[t].pc # "answer" /\ s \in thread'[t].todo \cup thread'[t].queue
    PROVE  FollowInv'
<1>1. Forced(t)' = Forced(t)
  BY DEF Forced, Continues
<1>2. ASSUME NEW s \in Services \ contested PROVE Found(t, s)' /\ (s \notin reported' => Kept(t, s)')
  <2>1. Found(t, s)'
    BY <1>1, InApply DEF Found, Applying
  <2>2. s \notin reported' => Kept(t, s)'
    BY DEF Kept, Applying
  <2> QED BY <2>1, <2>2
<1> QED BY <1>2, MyMove DEF Rendering, Applying

LEMMA FollowApplyDocker ==
    ASSUME RequestInv, FollowInv, NEW t \in Threads, NEW x \in Services, ApplyDocker(t, x), Continues(t)
    PROVE  FollowInv'
<1>1. /\ thread[t].pc = "apply" /\ thread'[t].pc = "apply" /\ x \in thread[t].todo
      /\ thread'[t].after = thread[t].after /\ thread'[t].todo = thread[t].todo \ {x}
      /\ thread'[t].failed = thread[t].failed /\ users' = users /\ generated' = generated
  BY ApplyDockerEffect DEF RequestInv, ApplyDocker, SamePlan
<1>2. x \in Docker /\ x \notin Host
  BY ServiceAssumption DEF ApplyDocker, ServiceAssumption
<1>3. Forced(t) \subseteq Host
  BY DEF Forced, RequestInv, RecordInv, Record
<1>4. running \in [Services -> Version \cup {Down}]
  BY DEF RequestInv, TypeOK
<1>5. CASE running' = [running EXCEPT ![x] = generated[x]] /\ reported' = InDoubt(running')
           /\ byHand' = TakenBack({x}) /\ thread'[t].queue = thread[t].queue
  <2>1. ASSUME NEW s \in Services \ contested
        PROVE  /\ s \in Forced(t) /\ users.enabled[s] =>
                     s \in thread'[t].todo \cup thread'[t].failed \/ running'[s] = generated[s]
               /\ s \notin reported' =>
                     Good(s)' \/ s \in thread'[t].failed \/ s \in thread'[t].todo \cup thread'[t].queue
    <3>1. CASE s = x
      <4>1. running'[s] = generated[s] /\ generated[s] = users.config[s] /\ users.enabled[s]
        BY <1>1, <1>4, <1>5, <3>1, InApply
      <4>2. Good(s)'
        BY <1>1, <4>1 DEF Good, Asked
      <4> QED BY <4>1, <4>2
    <3>2. CASE s # x
      <4>1. running'[s] = running[s] /\ byHand'[s] = byHand[s]
        BY <1>4, <1>5, <3>2 DEF TakenBack, RequestInv, TypeOK
      <4>2. Good(s)' <=> Good(s)
        BY <1>1, <4>1 DEF Good, Asked
      <4>3. s \in reported /\ s \notin reported' => Good(s)'
        BY <1>1, <1>5, Seen
      <4> QED BY <1>1, <1>5, <3>2, <4>1, <4>2, <4>3, InApply
    <3> QED BY <3>1, <3>2
  <2> QED BY <1>1, <2>1, ApplyMove DEF Applying
<1>6. CASE UNCHANGED <<running, reported, byHand>> /\ thread'[t].queue = thread[t].queue \cup {x}
  <2>1. ASSUME NEW s \in Services \ contested
        PROVE  /\ s \in Forced(t) /\ users.enabled[s] =>
                     s \in thread'[t].todo \cup thread'[t].failed \/ running'[s] = generated[s]
               /\ s \notin reported' =>
                     Good(s)' \/ s \in thread'[t].failed \/ s \in thread'[t].todo \cup thread'[t].queue
    <3>1. Good(s)' <=> Good(s)
      BY <1>1, <1>6 DEF Good, Asked
    <3>2. s \in Forced(t) => s # x
      BY <1>2, <1>3
    <3> QED BY <1>1, <1>6, <3>1, <3>2, InApply
  <2> QED BY <1>1, <2>1, ApplyMove DEF Applying
<1> QED BY <1>5, <1>6, ApplyDockerEffect DEF RequestInv

LEMMA FollowSyncHost ==
    ASSUME RequestInv, FollowInv, NEW t \in Threads, NEW x \in Services, SyncHost(t, x), Continues(t)
    PROVE  FollowInv'
<1>1. /\ thread[t].pc = "apply" /\ thread'[t].pc = "verify" /\ x \in thread[t].todo
      /\ thread'[t].after = thread[t].after /\ SameWork(thread'[t], thread[t])
      /\ users' = users /\ generated' = generated /\ reported' = reported
      /\ running' = [running EXCEPT ![x] = generated[x]] /\ byHand' = TakenBack({x})
  BY SyncHostEffect DEF RequestInv, SyncHost, SamePlan
<1>2. running \in [Services -> Version \cup {Down}]
  BY DEF RequestInv, TypeOK
<1>3. ASSUME NEW s \in Services \ contested
      PROVE  /\ s \in Forced(t) /\ users.enabled[s] =>
                   s \in thread'[t].todo \cup thread'[t].failed \/ running'[s] = generated[s]
             /\ s \notin reported' =>
                   Good(s)' \/ s \in thread'[t].failed \/ s \in thread'[t].todo \cup thread'[t].queue
  <2>1. CASE s = x
    BY <1>1, <2>1 DEF SameWork
  <2>2. CASE s # x
    <3>1. running'[s] = running[s] /\ byHand'[s] = byHand[s]
      BY <1>1, <1>2, <2>2 DEF TakenBack
    <3>2. Good(s)' <=> Good(s)
      BY <1>1, <3>1 DEF Good, Asked
    <3> QED BY <1>1, <3>1, <3>2, InApply DEF SameWork
  <2> QED BY <2>1, <2>2
<1> QED BY <1>1, <1>3, ApplyMove DEF Applying

LEMMA FollowSyncHostFails ==
    ASSUME RequestInv, FollowInv, NEW t \in Threads, NEW x \in Services, SyncHostFails(t, x), Continues(t)
    PROVE  FollowInv'
<1>1. /\ thread[t].pc = "apply" /\ thread'[t].pc = "apply"
      /\ thread'[t].after = thread[t].after /\ thread'[t].todo = thread[t].todo \ {x}
      /\ thread'[t].failed = thread[t].failed \cup {x} /\ thread'[t].queue = thread[t].queue
      /\ users' = users /\ generated' = generated /\ reported' = reported /\ byHand' = byHand
  BY SyncHostFailsEffect DEF RequestInv, SyncHostFails, SamePlan, history
<1>2. running' \in {running, [running EXCEPT ![x] = Down]} /\ running \in [Services -> Version \cup {Down}]
  BY DEF RequestInv, TypeOK, SyncHostFails
<1>3. ASSUME NEW s \in Services \ contested
      PROVE  /\ s \in Forced(t) /\ users.enabled[s] =>
                   s \in thread'[t].todo \cup thread'[t].failed \/ running'[s] = generated[s]
             /\ s \notin reported' =>
                   Good(s)' \/ s \in thread'[t].failed \/ s \in thread'[t].todo \cup thread'[t].queue
  <2>1. CASE s = x
    BY <1>1, <2>1
  <2>2. CASE s # x
    <3>1. running'[s] = running[s]
      BY <1>2, <2>2
    <3>2. Good(s)' <=> Good(s)
      BY <1>1, <3>1 DEF Good, Asked
    <3> QED BY <1>1, <2>2, <3>1, <3>2, InApply
  <2> QED BY <2>1, <2>2
<1> QED BY <1>1, <1>3, ApplyMove DEF Applying

LEMMA FollowVerifyHost ==
    ASSUME RequestInv, FollowInv, NEW t \in Threads, VerifyHost(t), Continues(t) PROVE FollowInv'
<1>1. PICK h \in thread[t].syncing :
        /\ thread[t].pc = "verify" /\ thread'[t].pc = "apply" /\ thread'[t].after = thread[t].after
        /\ thread'[t].todo = thread[t].todo \ {h} /\ thread'[t].queue = thread[t].queue
        /\ thread'[t].failed = thread[t].failed \cup (IF Verified(t, h) THEN {} ELSE {h})
        /\ users' = users /\ generated' = generated /\ reported' = InDoubt(running')
        /\ running' = running /\ byHand' = byHand
  BY VerifyHostEffect DEF RequestInv, VerifyHost, SamePlan, world
<1>2. ASSUME NEW s \in Services \ contested
      PROVE  /\ s \in Forced(t) /\ users.enabled[s] =>
                   s \in thread'[t].todo \cup thread'[t].failed \/ running'[s] = generated[s]
             /\ s \notin reported' =>
                   Good(s)' \/ s \in thread'[t].failed \/ s \in thread'[t].todo \cup thread'[t].queue
  <2>1. Good(s)' <=> Good(s)
    BY <1>1 DEF Good, Asked
  <2>2. s \in reported /\ s \notin reported' => Good(s)'
    BY <1>1, Seen
  <2>3. CASE s = h /\ Verified(t, h)
    <3>1. h \in thread[t].todo
      BY <1>1 DEF RequestInv, RecordInv, Record
    <3>2. running[s] = users.config[s] /\ generated[s] = users.config[s] /\ users.enabled[s]
      BY <1>1, <2>3, <3>1, InApply DEF Verified
    <3>3. Good(s)
      BY <3>2 DEF Good, Asked
    <3> QED BY <1>1, <2>1, <3>2, <3>3
  <2>4. CASE s = h /\ ~Verified(t, h)
    BY <1>1, <2>4
  <2>5. CASE s # h
    BY <1>1, <2>1, <2>2, <2>5, InApply
  <2> QED BY <2>3, <2>4, <2>5
<1> QED BY <1>1, <1>2, ApplyMove DEF Applying

LEMMA FollowRestart ==
    ASSUME RequestInv, FollowInv, NEW t \in Threads, Restart(t), Continues(t) PROVE FollowInv'
<1>1. /\ thread[t].pc = "apply" /\ thread'[t].pc = "answer" /\ thread'[t].after = thread[t].after
      /\ SameWork(thread'[t], thread[t]) /\ thread[t].todo = {}
      /\ users' = users /\ generated' = generated /\ reported' = InDoubt(running')
      /\ byHand' = TakenBack(thread[t].queue)
      /\ running' = [s \in Services |-> IF s \in thread[t].queue THEN generated[s] ELSE running[s]]
  BY RestartEffect DEF RequestInv, Restart, SamePlan
<1>2. ASSUME NEW s \in Services \ contested
      PROVE  /\ s \in Forced(t) /\ users.enabled[s] =>
                   s \in thread'[t].todo \cup thread'[t].failed \/ running'[s] = generated[s]
             /\ s \notin reported' => Good(s)' \/ s \in thread'[t].failed
  <2>1. CASE s \in thread[t].queue
    <3>1. running'[s] = generated[s] /\ generated[s] = users.config[s] /\ users.enabled[s]
      BY <1>1, <2>1, InApply
    <3>2. Good(s)'
      BY <1>1, <3>1 DEF Good, Asked
    <3> QED BY <3>1, <3>2
  <2>2. CASE s \notin thread[t].queue
    <3>1. running'[s] = running[s] /\ byHand'[s] = byHand[s]
      BY <1>1, <2>2 DEF TakenBack
    <3>2. Good(s)' <=> Good(s)
      BY <1>1, <3>1 DEF Good, Asked
    <3>3. s \in reported /\ s \notin reported' => Good(s)'
      BY <1>1, Seen
    <3> QED BY <1>1, <2>2, <3>1, <3>2, <3>3, InApply DEF SameWork
  <2> QED BY <2>1, <2>2
<1> QED BY <1>1, <1>2, ApplyMove DEF Applying

LEMMA FollowRestartFails ==
    ASSUME RequestInv, FollowInv, NEW t \in Threads, RestartFails(t), Continues(t) PROVE FollowInv'
<1>1. /\ thread[t].pc = "apply" /\ thread'[t].pc = "answer" /\ thread'[t].after = thread[t].after
      /\ thread[t].todo = {} /\ thread'[t].todo = thread[t].todo
      /\ thread'[t].failed = thread[t].failed \cup thread[t].queue
      /\ users' = users /\ generated' = generated /\ reported' = reported /\ byHand' = byHand
  BY RestartFailsEffect DEF RequestInv, RestartFails, SamePlan, history
<1>2. \A s \in Services : s \notin thread[t].queue => running'[s] = running[s]
  BY DEF RestartFails
<1>3. ASSUME NEW s \in Services \ contested
      PROVE  /\ s \in Forced(t) /\ users.enabled[s] =>
                   s \in thread'[t].todo \cup thread'[t].failed \/ running'[s] = generated[s]
             /\ s \notin reported' => Good(s)' \/ s \in thread'[t].failed
  <2>1. CASE s \in thread[t].queue
    BY <1>1, <2>1
  <2>2. CASE s \notin thread[t].queue
    <3>1. Good(s)' <=> Good(s)
      BY <1>1, <1>2, <2>2 DEF Good, Asked
    <3> QED BY <1>1, <1>2, <2>2, <3>1, InApply
  <2> QED BY <2>1, <2>2
<1> QED BY <1>1, <1>3, ApplyMove DEF Applying

\* The answers of the pipeline.
LEMMA FollowAnswers ==
    ASSUME RequestInv, FollowInv, NEW t \in Threads, CommitRefused(t) \/ RenderFails(t) \/ Finish(t)
    PROVE  FollowInv'
<1> SUFFICES ASSUME NEW s \in Services, s \notin contested' PROVE Followed(s)'
  BY DEF FollowInv
<1>1. UNCHANGED <<world, byHand>> /\ thread[t].pc \in Rendering \cup {"commit"} /\ InProgress(t)
  BY DEF CommitRefused, RenderFails, Finish, Rendering, InProgress
<1>2. Same(s) /\ (Rests(s)' <=> Rests(s))
  BY <1>1 DEF Same, world, Rests, Good, Asked
<1>3. CASE CommitRefused(t)
  <2>1. s \notin contested /\ s \notin reported => Rests(s)
    BY <1>1, <1>3, Mine DEF CommitRefused
  <2>2. Answer(t, {}) /\ {} \in SUBSET Services
    BY <1>3 DEF CommitRefused
  <2> QED BY <1>1, <1>2, <2>1, <2>2, AnswerFollows
<1>4. CASE RenderFails(t)
  <2>1. Answer(t, Services)
    BY <1>4 DEF RenderFails
  <2> QED BY <1>1, <1>2, <2>1, AnswerFollows
<1>5. CASE Finish(t)
  <2>1. Answer(t, thread[t].failed) /\ thread[t].failed \in SUBSET Services /\ thread[t].pc = "answer"
    BY <1>5, Current, Fields DEF Finish, RequestInv
  <2>2. s \notin contested /\ s \notin reported /\ s \notin thread[t].failed => Rests(s)
    <3>1. s \notin contested => Found(t, s) /\ (s \notin reported => Kept(t, s))
      BY <1>1, Mine
    <3> QED BY <2>1, <3>1 DEF Found, Kept, Rests, Rendering, Applying
  <2> QED BY <1>1, <1>2, <2>1, <2>2, AnswerFollows
<1> QED BY <1>3, <1>4, <1>5

\* An action is alone on a service that is not contested, and knows it at rest.
LEMMA MyService ==
    ASSUME RequestInv, FollowInv, NEW t \in Threads, thread[t].pc \in {"runtime", "persist"},
           thread[t].service \notin contested
    PROVE  LET s == thread[t].service IN
           /\ Works(t, s) /\ \A u \in Threads \ {t} : ~Works(u, s)
           /\ thread[t].pc = "runtime" /\ s \notin reported => Rests(s)
           /\ thread[t].pc = "persist" /\ s \notin reported => Kept(t, s)
<1> DEFINE s == thread[t].service
<1>1. s \in Services /\ thread[t].op \in Actions /\ InProgress(t)
  BY Current, Fields DEF RequestInv, RecordInv, Record, InProgress
<1>2. Works(t, s) /\ \A u \in Threads \ {t} : ~Works(u, s)
  BY <1>1 DEF Works, Scope, RequestInv, ApartInv
<1>3. Followed(s)
  BY <1>1 DEF FollowInv
<1>4. thread[t].pc = "runtime" => ~Engaged(t)
  BY DEF Engaged, Rendering
<1> QED BY <1>2, <1>3, <1>4 DEF Followed

\* An action works on its service only.
LEMMA ItsService ==
    ASSUME RequestInv, NEW t \in Threads, thread[t].pc \in {"runtime", "persist"}, NEW s \in Services
    PROVE  Works(t, s) <=> s = thread[t].service
BY DEF RequestInv, RecordInv, Record, Works, Scope, InProgress

LEMMA FollowSwitch ==
    ASSUME RequestInv, FollowInv, NEW t \in Threads, SwitchRuntime(t), Continues(t) PROVE FollowInv'
<1> DEFINE x == thread[t].service
<1> SUFFICES ASSUME NEW s \in Services \ contested PROVE Followed(s)'
  BY DEF Continues, FollowInv
<1>1. /\ thread[t].pc = "runtime" /\ thread'[t].pc = "persist" /\ x \in Services
      /\ thread'[t].op = thread[t].op /\ thread'[t].service = x
      /\ users' = users /\ generated' = generated /\ reported' = reported
      /\ byHand' = [byHand EXCEPT ![x] = {running'[x]} \ {Meant(t)}] /\ running' = Switched(t)
  BY SwitchRuntimeEffect, Current, Fields DEF RequestInv, SwitchRuntime, SameAsk
<1>2. \A y \in Services : y # x => running'[y] = running[y] /\ byHand'[y] = byHand[y]
  BY <1>1 DEF Switched, RequestInv, TypeOK
<1>3. Works(t, s) <=> s = x
  BY <1>1, ItsService
<1>4. Works(t, s)' <=> Works(t, s)
  BY DEF Continues, Works, InProgress
<1>5. CASE s = x
  <2>1. \A u \in Threads \ {t} : ~Works(u, s)
    BY <1>1, <1>5, MyService
  <2>2. Works(t, s)' /\ \A u \in Threads \ {t} : ~Works(u, s)'
    BY <1>3, <1>4, <1>5, <2>1 DEF Continues, Works, InProgress, Moves
  <2>3. Engaged(t)' /\ Found(t, s)'
    BY <1>1 DEF Engaged, Found, Rendering
  <2>4. Meant(t)' = Meant(t)
    BY <1>1 DEF Meant, Asked
  <2>5. byHand'[s] = {running'[s]} \ {Meant(t)}
    BY <1>1, <1>5 DEF RequestInv, TypeOK
  <2>6. s \notin reported => generated[s] = users.config[s]
    BY <1>1, <1>5, MyService DEF Rests
  <2>7. s \notin reported' => Kept(t, s)'
    BY <1>1, <2>4, <2>5, <2>6 DEF Kept
  <2> QED BY <2>2, <2>3, <2>7 DEF Followed
<1>6. CASE s # x
  <2>1. Same(s) /\ Followed(s)
    BY <1>1, <1>2, <1>6 DEF Same, FollowInv
  <2> QED BY <1>1, <1>3, <1>4, <1>6, <2>1, Aside DEF Continues
<1> QED BY <1>5, <1>6

LEMMA FollowSwitchAnswers ==
    ASSUME RequestInv, FollowInv, NEW t \in Threads, SwitchRuntimeFails(t) \/ PersistFails(t)
    PROVE  FollowInv'
<1> DEFINE x == thread[t].service
<1> SUFFICES ASSUME NEW s \in Services, s \notin contested' PROVE Followed(s)'
  BY DEF FollowInv
<1>1. /\ thread[t].pc \in {"runtime", "persist"} /\ InProgress(t) /\ {x} \in SUBSET Services
      /\ Answer(t, {x}) /\ users' = users /\ generated' = generated /\ byHand' = byHand
      /\ running' \in {running, Switched(t), [running EXCEPT ![x] = Down]}
  BY Current, Fields DEF RequestInv, SwitchRuntimeFails, PersistFails, InProgress, world
<1>2. s # x => running'[s] = running[s]
  BY <1>1 DEF Switched, RequestInv, TypeOK
<1>3. Works(t, s) <=> s = x
  BY <1>1, ItsService
<1>4. Same(s) \/ Works(t, s)
  BY <1>1, <1>2, <1>3 DEF Same
<1> QED BY <1>1, <1>3, <1>4, AnswerFollows

LEMMA FollowPersist ==
    ASSUME RequestInv, FollowInv, NEW t \in Threads, Persist(t) PROVE FollowInv'
<1> DEFINE x == thread[t].service
<1> SUFFICES ASSUME NEW s \in Services, s \notin contested' PROVE Followed(s)'
  BY DEF FollowInv
<1>1. /\ thread[t].pc = "persist" /\ InProgress(t) /\ x \in Services /\ thread[t].op \in Actions
      /\ Answer(t, {}) /\ generated' = generated /\ byHand' = byHand /\ running' = running
  BY Current, Fields DEF RequestInv, Persist, InProgress, RecordInv, Record
<1>2. users' = IF thread[t].op \in {"enable", "disable"}
               THEN [users EXCEPT !.enabled[x] = (thread[t].op = "enable")] ELSE users
  BY DEF Persist
<1>3. users'.config = users.config /\ (s # x => users'.enabled[s] = users.enabled[s])
      /\ (thread[t].op = "enable" => users'.enabled[x]) /\ (thread[t].op = "disable" => ~users'.enabled[x])
      /\ (thread[t].op \notin {"enable", "disable"} => users' = users)
  BY <1>1, <1>2 DEF RequestInv, TypeOK, Desired
<1>4. Works(t, s) <=> s = x
  BY <1>1, ItsService
<1>5. Same(s) \/ Works(t, s)
  BY <1>1, <1>3, <1>4 DEF Same
<1>6. ASSUME s = x, s \notin contested, s \notin reported PROVE Rests(s)'
  <2>1. Kept(t, s)
    BY <1>1, <1>6, MyService
  <2>2. generated[s] = users.config[s] /\ running[s] \in {Meant(t)} \cup byHand[s]
    BY <1>1, <2>1 DEF Kept
  <2>3. Asked(s)' = Meant(t)
    BY <1>1, <1>3, <1>6 DEF Asked, Meant
  <2> QED BY <1>1, <1>3, <2>2, <2>3 DEF Rests, Good
<1> QED BY <1>1, <1>4, <1>5, <1>6, AnswerFollows

\* The agent starts with every service as users.json has it, but where it fails or a request
\* was interrupted.
LEMMA FollowAgentRestart ==
    ASSUME RequestInv, FollowInv, NEW failing \in SUBSET Services, AgentRestart(failing)
    PROVE  FollowInv'
<1> SUFFICES ASSUME NEW s \in Services PROVE Followed(s)'
  BY DEF FollowInv
<1>1. \A t \in Threads : ~Works(t, s)'
  BY DEF AgentRestart, Works, InProgress, Idle
<1>2. CASE ~Quiet
  <2>1. s \in reported'
    BY <1>2 DEF AgentRestart, Quiet
  <2> QED BY <1>1, <2>1 DEF Followed
<1>3. CASE Quiet
  <2>1. reported' = reported /\ contested = {}
    BY <1>3 DEF AgentRestart, Quiet, RequestInv, ApartInv
  <2>2. \A t \in Threads : ~Works(t, s)
    BY <1>3 DEF Quiet, Works
  <2>3. s \notin reported => Rests(s)
    BY <2>1, <2>2 DEF FollowInv, Followed
  <2>4. \/ running'[s] = running[s] /\ byHand'[s] = byHand[s]
        \/ byHand'[s] = {running'[s]} \ {Asked(s)}
    BY DEF AgentRestart
  <2>5. Asked(s)' = Asked(s) /\ generated' = generated /\ users' = users
    BY DEF AgentRestart, Asked
  <2>6. s \notin reported => Rests(s)'
    BY <2>3, <2>4, <2>5 DEF Rests, Good
  <2> QED BY <1>1, <2>1, <2>6 DEF Followed
<1> QED BY <1>2, <1>3

\* Every step follows the services.
LEMMA FollowStep == RequestInv /\ FollowInv /\ [Next]_vars => FollowInv'
<1> SUFFICES ASSUME RequestInv, FollowInv, [Next]_vars PROVE FollowInv'
  OBVIOUS
<1>1. ASSUME NEW t \in Threads, Handle(t) PROVE FollowInv'
  <2>1. ASSUME Commit(t) \/ Fingerprint(t) \/ Render(t) \/ Plan(t) PROVE FollowInv'
    <3>1. Continues(t)
      BY <2>1, GoesOn DEF RequestInv
    <3> QED BY <2>1, <3>1, FollowCommit, FollowFingerprint, FollowRender, FollowPlan
  <2>2. ASSUME NEW s \in Services, ApplyDocker(t, s) \/ SyncHost(t, s) \/ SyncHostFails(t, s) PROVE FollowInv'
    <3>1. Continues(t)
      BY <2>2, GoesOn DEF RequestInv
    <3> QED BY <2>2, <3>1, FollowApplyDocker, FollowSyncHost, FollowSyncHostFails
  <2>3. ASSUME VerifyHost(t) \/ Restart(t) \/ RestartFails(t) \/ SwitchRuntime(t) PROVE FollowInv'
    <3>1. Continues(t)
      BY <2>3, GoesOn DEF RequestInv
    <3> QED BY <2>3, <3>1, FollowVerifyHost, FollowRestart, FollowRestartFails, FollowSwitch
  <2>4. ASSUME CommitRefused(t) \/ RenderFails(t) \/ Finish(t) PROVE FollowInv'
    BY <2>4, FollowAnswers
  <2>5. ASSUME SwitchRuntimeFails(t) \/ PersistFails(t) \/ Persist(t) PROVE FollowInv'
    BY <2>5, FollowSwitchAnswers, FollowPersist
  <2> QED BY <1>1, <2>1, <2>2, <2>3, <2>4, <2>5 DEF Handle
<1>2. CASE UNCHANGED vars
  <2>1. ASSUME NEW s \in Services, Followed(s) PROVE Followed(s)'
    BY <1>2, <2>1 DEF vars, world, history, Followed, Works, InProgress, Found, Kept, Engaged, Rests, Good, Asked, Forced, Meant
  <2> QED BY <1>2, <2>1 DEF FollowInv, vars, history
<1> QED BY <1>1, <1>2, FollowBegin, FollowAgentRestart DEF Next

\* The invariant of every execution.
LEMMA Always == Spec => [](RequestInv /\ FollowInv)
<1>1. Init => RequestInv /\ FollowInv
  BY TypeInit, RecordInit, HeldInit, FollowInit DEF RequestInv
<1>2. RequestInv /\ FollowInv /\ [Next]_vars => (RequestInv /\ FollowInv)'
  BY TypeStep, RecordStep, HeldStep, ApartStep, FollowStep DEF RequestInv
<1> QED BY <1>1, <1>2, PTL DEF Spec

\* For any services, versions, orders of rendering and numbers of threads, every variable of the
\* apply pipeline has its type.
THEOREM TypeCorrect == Spec => []TypeOK
<1>1. RequestInv => TypeOK
  BY DEF RequestInv
<1> QED BY <1>1, Always, PTL

\* Between requests nobody works on a service and nothing is contested.
LEMMA AtRest ==
    ASSUME RequestInv, FollowInv, Quiet, NEW s \in Services \ reported
    PROVE  Rests(s)
<1>1. contested = {} /\ \A t \in Threads : ~Works(t, s)
  BY DEF RequestInv, ApartInv, Quiet, Works
<1> QED BY <1>1 DEF FollowInv, Followed

\* For any number of threads and all operations, those of service.action beside changes,
\* reconciles and applies included: between requests, what no answer, no crash and no two
\* requests at once left in doubt has the generated file of users.json and, where enabled, runs
\* it or is as the operator left it.
THEOREM UnreportedCorrect == Spec => []UnreportedIsCurrent
<1>1. RequestInv /\ FollowInv => UnreportedIsCurrent
  BY AtRest DEF UnreportedIsCurrent, Rests, Good, Asked
<1> QED BY <1>1, Always, PTL

\* For any number of threads and all operations: between requests, what is disabled and in no
\* doubt is down, or was started by the operator.
THEOREM DisabledCorrect == Spec => []DisabledStaysDown
<1>1. RequestInv /\ FollowInv => DisabledStaysDown
  BY AtRest DEF DisabledStaysDown, Rests, Good, Asked
<1> QED BY <1>1, Always, PTL

\* What an answer without failures has brought up.
LEMMA BroughtUp ==
    ASSUME RequestInv, FollowInv, NEW t \in Threads, thread[t].pc = "answer", thread[t].failed = {},
           NEW s \in Services \ contested, users.enabled[s],
           s \in Forced(t) \/ (thread[t].op = "reconcile" /\ s \in Host /\ users.config[s] \notin Unused)
    PROVE  running[s] = users.config[s]
<1>1. Found(t, s) /\ thread[t].todo = {}
  BY Mine DEF Rendering, RequestInv, RecordInv, Record
<1>2. thread[t].after.config[s] = users.config[s]
  BY <1>1 DEF Found, Rendering
<1>3. s \in Forced(t)
  BY <1>2 DEF Forced
<1> QED BY <1>1, <1>3 DEF Found, Rendering, Applying

\* For any number of threads and all operations: a reconcile that succeeds leaves every enabled
\* host VPN that some user has, and that no action or apply worked on meanwhile, running the
\* configuration of users.json.
THEOREM ReconcileCorrect == Spec => ReconcileConvergesHost
<1>1. ASSUME RequestInv, FollowInv, NEW t \in Threads, Succeeds(t, "reconcile")
      PROVE  Converged({h \in Host : users.config[h] \notin Unused})
  BY <1>1, BroughtUp, Constants DEF Converged, Succeeds
<1>2. RequestInv /\ FollowInv /\ [Next]_vars =>
        [\A t \in Threads :
           Succeeds(t, "reconcile") => Converged({h \in Host : users.config[h] \notin Unused})]_vars
  BY <1>1
<1> QED BY <1>2, Always, PTL DEF Spec, ReconcileConvergesHost

\* For any number of threads and all operations: a forced apply that succeeds leaves its
\* service, if enabled and not worked on by another request meanwhile, running the
\* configuration of users.json, however stale its copy under /etc was.
THEOREM ForcedApplyCorrect == Spec => ForcedApplyConverges
<1>1. ASSUME RequestInv, FollowInv, NEW t \in Threads, Succeeds(t, "apply")
      PROVE  Converged({thread[t].service})
  <2>1. thread[t].service \in Forced(t) /\ thread[t].service \in Services
    BY <1>1, Current, Fields DEF Succeeds, Forced, RequestInv
  <2> QED BY <1>1, <2>1, BroughtUp DEF Converged, Succeeds
<1>2. RequestInv /\ FollowInv /\ [Next]_vars =>
        [\A t \in Threads : Succeeds(t, "apply") => Converged({thread[t].service})]_vars
  BY <1>1
<1> QED BY <1>2, Always, PTL DEF Spec, ForcedApplyConverges
=============================================================================
