------------------------------- MODULE Portal -------------------------------
(***************************************************************************)
(* The web portal (portal/app): one gunicorn worker whose threads serve    *)
(* requests of the administrator's browsers and of hysteria, the SQLite    *)
(* tables sessions, login_failures and confirmations (storage.py), the     *)
(* cache of hysteria users (hysteria_auth.py), and the calls to the host   *)
(* agent that the handlers make (agent_client.py, routes).                 *)
(*                                                                         *)
(* A handler is a record: what it does is the same sequence of steps for   *)
(* all of them.  users.json is its revision.  The portal does not see      *)
(* users.json itself, but the runtime copy that a render leaves            *)
(* (portal-runtime/users.json): it lags behind, and a render of an older   *)
(* state may set it back.  The audit table, which no handler here reads    *)
(* back, is left out, as are the pages themselves.                         *)
(***************************************************************************)
EXTENDS Integers, FiniteSets

CONSTANTS
    Threads,            \* KVN_PORTAL_THREADS
    Sessions,           \* bound: the sessions that are opened
    Tokens,             \* bound: the confirmations that are handed out
    Confirmed,          \* bound: what is confirmed, of "service", "user", "certificate" and "maintenance"
    LOCKOUT_FAILURES,
    MaxRevision,        \* bound: changes of users.json
    MaxEvents,          \* bound: what time and faults bring
    MaxCopies,          \* bound: how often the runtime copy changes
    Nothing             \* no session, no confirmation

ASSUME PortalAssumption ==
    /\ LOCKOUT_FAILURES \in Nat \ {0} /\ MaxRevision \in Nat /\ MaxEvents \in Nat /\ MaxCopies \in Nat
    /\ IsFiniteSet(Threads) /\ Nothing \notin Threads \cup Sessions \cup Tokens

VARIABLES
    sessions,       \* the sessions by what became of them; one that is over counts as gone
    failures,       \* the row of login_failures of the administrator's address
    confirmations,  \* by token; one that is used or over counts as gone
    thread,         \* what each thread of the worker does
    call,           \* its call in the agent, which goes on when the thread is gone
    revision,       \* of users.json
    copy,           \* portal-runtime/users.json: its mtime, and the revision it was written from
    kvn,            \* the revision that kvn has saved and has still to copy
    shown,          \* the revisions that the forms in the browsers hold
    cache,          \* HysteriaUserCache
    events,         \* what time and faults have brought
    denied,         \* history: wrong passwords since the count of failures began
    served,         \* history: the newest revision copied when no older render was under way
    runs            \* history: how often the agent ran what a token confirmed

vars == <<sessions, failures, confirmations, thread, call, revision, shown, cache, events, copy, kvn, denied, served, runs>>

Kinds == {"service", "user", "certificate", "maintenance"}
Effects == {"read", "run", "change", "service"}
Revisions == {"form", "read", "none"}

(***************************************************************************)
(* The handlers.                                                           *)
(*   confirm   what a confirmation is asked for, or "no"                   *)
(*   reads     whether it first asks the agent for the state               *)
(*   sends     the revision it sends: that of its form, the one it has     *)
(*             just read, or none                                          *)
(*   effect    what the agent does: "read", "run", "change" users.json, or *)
(*             act on a "service", under the lock of that service            *)
(*   offers    what the page that answers holds confirmations for          *)
(*   ends      the sessions that it ends                                   *)
(***************************************************************************)

Handler(confirm, reads, sends, effect, offers) ==
    [confirm |-> confirm, reads |-> reads, sends |-> sends, effect |-> effect, offers |-> offers, ends |-> {}]
Page(offers) == Handler("no", FALSE, "none", "read", offers)
Change == Handler("no", FALSE, "form", "change", {})

dashboard_snapshot == Page({})
metrics_history_json == Page({})
logs_payload == Page({})
user_activity_json == Page({})
users_list == Page({})
network_view == Page({})
services_list == Page({"service"})
certificates_view == Page({"certificate"})
render_terminal == Page({"maintenance"})
user_detail == Page({"user"})
render_settings_page == Page({})

\* start and reload need no confirmation; stop, restart, enable, disable and apply do.
service_action == {Handler(c, FALSE, "none", "service", {}) : c \in {"no", "service"}}
\* The answer is the page again.
terminal_view == {Handler(c, TRUE, "none", "run", {"maintenance"}) : c \in {"no", "maintenance"}}
certificate_action == Handler("certificate", FALSE, "none", "run", {})
backups_view == Handler("no", FALSE, "none", "run", {})
user_create == Handler("no", TRUE, "form", "change", {})

\* Mutant: the revision just read, instead of the one of the form.
user_edit_read == Handler("no", TRUE, "read", "change", {})
user_edit == Handler("no", TRUE, "form", "change", {})

user_toggle == Change
user_action == Handler("user", TRUE, "read", "change", {})
reconcile_state == Handler("no", FALSE, "none", "run", {})
network_protocol_apply == Change
network_sni_apply == Change
settings_performance == [Change EXCEPT !.offers = render_settings_page.offers]
settings_client_export == [Change EXCEPT !.offers = render_settings_page.offers]
settings_amneziawg == [Change EXCEPT !.offers = render_settings_page.offers]
settings_mtproto == [Change EXCEPT !.offers = render_settings_page.offers]
settings_reality == [Change EXCEPT !.offers = render_settings_page.offers]
settings_sni == [Change EXCEPT !.offers = render_settings_page.offers]
settings_diagnose == Handler("no", FALSE, "none", "run", render_settings_page.offers)
system_user_create == Handler("no", FALSE, "none", "run", render_settings_page.offers)
settings_password == [Handler("no", FALSE, "none", "change", {}) EXCEPT !.ends = Sessions]
user_export_response == Page({})
user_download == Page({})
user_file_preview == Page({})

AllHandlers ==
    {dashboard_snapshot, metrics_history_json, logs_payload, user_activity_json, users_list, network_view,
     services_list, certificates_view, render_terminal, user_detail, render_settings_page,
     certificate_action, backups_view, user_create, user_edit, user_toggle, user_action, reconcile_state,
     network_protocol_apply, network_sni_apply, settings_performance, settings_client_export, settings_amneziawg,
     settings_mtproto, settings_reality, settings_sni, settings_diagnose, system_user_create, settings_password,
     user_export_response, user_download, user_file_preview}
    \cup service_action \cup terminal_view
Handlers == {h \in AllHandlers : h.confirm \in Confirmed \cup {"no"} /\ h.offers \subseteq Confirmed}

\* A form that shows a part of users.json to be changed, and holds its revision.
Edits(h, token) == token = Nothing /\ h.effect = "change" /\ h.sends # "none"

(***************************************************************************)
(* Threads and tables.                                                     *)
(***************************************************************************)

Free == [pc |-> "free", handler |-> users_list, session |-> Nothing, token |-> Nothing, form |-> 0, read |-> 0]
NoCall == [pc |-> "none", effect |-> "read", token |-> Nothing, sends |-> "none",
           revision |-> 0, form |-> 0, answer |-> 0]
NoConfirmation == [status |-> "none", action |-> "no", session |-> Nothing]
\* failures.blocked: blocked_until is 0 (and updated_at is "old", LOCKOUT_SECONDS ago), in
\* the future, or over.
NoFailures == [count |-> 0, blocked |-> "no"]
EmptyCache == [signature |-> -1, users |-> -1, lock |-> Nothing]

Init ==
    /\ sessions = [s \in Sessions |-> "none"] /\ failures = NoFailures
    /\ confirmations = [k \in Tokens |-> NoConfirmation]
    /\ thread = [t \in Threads |-> Free] /\ call = [t \in Threads |-> NoCall]
    /\ revision = 0 /\ shown = {} /\ cache = EmptyCache
    /\ events = 0 /\ copy = [stamp |-> 0, revision |-> 0] /\ kvn = 0
    /\ denied = 0 /\ served = 0 /\ runs = [k \in Tokens |-> 0]

\* The rows of confirmations, what a thread is at, and its call.
Confirmation == [status : {"none", "unused", "gone"}, action : Kinds \cup {"no"},
                 session : Sessions \cup {Nothing}]
Steps == {"free", "login", "opening", "confirming", "entered", "read", "waiting", "stat", "loading", "loaded", "known"}
Thread == [pc : Steps, handler : AllHandlers, session : Sessions \cup {Nothing}, token : Tokens \cup {Nothing},
           form : Nat, read : Int]
Call == [pc : {"none", "asked", "rendering", "answered"}, effect : Effects, token : Tokens \cup {Nothing}, sends : Revisions,
         revision : Int, form : Nat, answer : Nat]

\* Every variable has its type.
TypeOK ==
    /\ sessions \in [Sessions -> {"none", "live", "gone"}]
    /\ failures \in [count : Nat, blocked : {"no", "old", "yes", "over"}]
    /\ confirmations \in [Tokens -> Confirmation]
    /\ thread \in [Threads -> Thread] /\ call \in [Threads -> Call]
    /\ revision \in Nat /\ shown \subseteq Nat
    /\ cache \in [signature : Int, users : Int, lock : Threads \cup {Nothing}]
    /\ events \in Nat /\ copy \in [stamp : Nat, revision : Nat] /\ kvn \in Nat
    /\ denied \in Nat /\ served \in Nat /\ runs \in [Tokens -> Nat]

Pc(t) == thread[t].pc
Idle(t) == thread[t] = Free /\ call[t] = NoCall
Goto(t, pc) == thread' = [thread EXCEPT ![t].pc = pc]
Reads(t, pc, n) == thread' = [thread EXCEPT ![t] = [thread[t] EXCEPT !.pc = pc, !.read = n]]
Ends(t) == thread' = [thread EXCEPT ![t] = Free]
Happens == events < MaxEvents /\ events' = events + 1
Handles(t) == thread[t].handler
Copies == <<copy, kvn, served>>
History == <<copy, kvn, denied, served, runs>>

(***************************************************************************)
(* Logging in and out.                                                     *)
(***************************************************************************)

\* protect: an address that is blocked gets no further (lock_status).
LoginBegins(t) ==
    /\ Idle(t) /\ failures.blocked # "yes"
    /\ Goto(t, "login")
    /\ UNCHANGED <<sessions, failures, confirmations, call, revision, shown, cache, events, History>>

\* Mutant: a row that is not blocked counts as one whose block is over.
RecordedAnew == 1
\* record_failure: a block that is over starts a new count.
Recorded == IF failures.blocked = "over" THEN 1 ELSE failures.count + 1

\* login, with a wrong password; one transaction reads and writes the row.
RecordFailure(t) ==
    /\ Pc(t) = "login" /\ Ends(t)
    /\ failures' = [count |-> Recorded, blocked |-> IF Recorded >= LOCKOUT_FAILURES THEN "yes" ELSE "no"]
    /\ denied' = denied + 1
    /\ UNCHANGED <<sessions, confirmations, call, revision, shown, cache, events, runs, Copies>>

\* login, with the right one.
ClearFailures(t) ==
    /\ Pc(t) = "login" /\ Goto(t, "opening")
    /\ failures' = NoFailures /\ denied' = 0
    /\ UNCHANGED <<sessions, confirmations, call, revision, shown, cache, events, runs, Copies>>

CreateSession(t) == \E s \in Sessions :
    /\ Pc(t) = "opening" /\ Ends(t)
    /\ sessions[s] = "none" /\ sessions' = [sessions EXCEPT ![s] = "live"]
    /\ UNCHANGED <<failures, confirmations, call, revision, shown, cache, events, History>>

logout(t) == \E s \in Sessions :
    /\ Idle(t) /\ sessions[s] = "live" /\ sessions' = [sessions EXCEPT ![s] = "gone"]
    /\ UNCHANGED <<failures, confirmations, thread, call, revision, shown, cache, events, History>>

(***************************************************************************)
(* A request to a handler, in a session.                                   *)
(***************************************************************************)

\* protect and get_session.  The browser submits any form that it was ever shown, with
\* any confirmation it was given, as often as it likes.
RequestBegins(t, h, s, k, f) ==
    /\ Idle(t) /\ sessions[s] = "live"
    /\ (h.confirm = "no") = (k = Nothing)
    /\ IF Edits(h, k) THEN f \in shown ELSE f = 0
    /\ thread' = [thread EXCEPT ![t] = [pc |-> IF h.confirm = "no" THEN "entered" ELSE "confirming",
                                        handler |-> h, session |-> s, token |-> k, form |-> f, read |-> 0]]
    /\ UNCHANGED <<sessions, failures, confirmations, call, revision, shown, cache, events, History>>

Valid(k, t) == confirmations[k] = [status |-> "unused", action |-> Handles(t).confirm, session |-> thread[t].session]

\* Mutant: the transaction only looks.
ConsumeLooks(t) ==
    /\ Pc(t) = "confirming"
    /\ IF Valid(thread[t].token, t) THEN Goto(t, "entered") ELSE Ends(t)
    /\ UNCHANGED <<sessions, failures, confirmations, call, revision, shown, cache, events, History>>

\* consume_confirmation, one transaction.
Consume(t) ==
    LET k == thread[t].token
    IN  /\ Pc(t) = "confirming"
        /\ IF Valid(k, t)
           THEN /\ confirmations' = [confirmations EXCEPT ![k].status = "gone"]
                /\ Goto(t, "entered")
           ELSE Ends(t) /\ UNCHANGED confirmations
        /\ UNCHANGED <<sessions, failures, call, revision, shown, cache, events, History>>

\* state.user, state.users or maintenance.commands, asked before the operation.
ReadState(t) ==
    /\ Pc(t) = "entered" /\ Handles(t).reads
    /\ Reads(t, "read", IF Handles(t).sends = "read" THEN revision ELSE 0)
    /\ UNCHANGED <<sessions, failures, confirmations, call, revision, shown, cache, events, History>>

Sent(t) == CASE Handles(t).sends = "form" -> thread[t].form
             [] Handles(t).sends = "read" -> thread[t].read
             [] Handles(t).sends = "none" -> 0

\* call_agent.
Ask(t) ==
    /\ Pc(t) = IF Handles(t).reads THEN "read" ELSE "entered"
    /\ thread' = [thread EXCEPT ![t] = [Free EXCEPT !.pc = "waiting", !.handler = Handles(t),
                                                    !.session = thread[t].session]]
    /\ call' = [call EXCEPT ![t] = [pc |-> "asked", effect |-> Handles(t).effect, token |-> thread[t].token,
                                    sends |-> Handles(t).sends, revision |-> Sent(t),
                                    form |-> thread[t].form, answer |-> 0]]
    /\ UNCHANGED <<sessions, failures, confirmations, revision, shown, cache, events, History>>

\* The agent: a change of users.json that names a revision is refused when it is not the
\* one of the file.
Conflicts(t) == call[t].sends # "none" /\ call[t].revision # revision
Answers(t, r) ==
    call' = [call EXCEPT ![t] = IF Pc(t) = "waiting"
                                   THEN [NoCall EXCEPT !.pc = "answered", !.answer = r] ELSE NoCall]
Ran(t) == runs' = [k \in Tokens |-> runs[k] + IF k = call[t].token THEN 1 ELSE 0]

\* The lock of the agent's changes; that of a service is another.
Alone(t) == \A u \in Threads \ {t} :
    call[u].pc = "rendering" => "service" \in {call[t].effect, call[u].effect}

\* StateStore.update: users.json is saved when it has changed.
Execute(t) ==
    /\ call[t].pc = "asked" /\ ~ Conflicts(t) /\ Alone(t)
    /\ IF call[t].effect \in {"change", "service"} THEN revision' \in {revision, revision + 1} ELSE UNCHANGED revision
    /\ revision' <= MaxRevision
    /\ IF call[t].effect = "read"
       THEN Answers(t, revision')
       ELSE call' = [call EXCEPT ![t] = [NoCall EXCEPT !.pc = "rendering", !.effect = call[t].effect, !.answer = revision']]
    /\ Ran(t)
    /\ UNCHANGED <<sessions, failures, confirmations, thread, shown, cache, events, denied, Copies>>

\* What is still to be copied, by the agent or by kvn.
Underway == {call[u].answer : u \in {v \in Threads : call[v].pc = "rendering"}} \cup ({kvn} \ {0})

\* sync_portal_runtime_state replaces the copy, whatever it holds.  One with the same users
\* is not counted: the cache would read the same again.
CopyWritten(r) ==
    /\ \/ copy.revision = r /\ UNCHANGED copy
       \/ copy.revision # r /\ copy.stamp < MaxCopies /\ copy' = [stamp |-> copy.stamp + 1, revision |-> r]
    /\ served' = IF \A n \in Underway : r <= n THEN r ELSE served

\* render_all ends with the copy.
RenderAll(t) ==
    /\ call[t].pc = "rendering"
    /\ CopyWritten(call[t].answer) /\ Answers(t, call[t].answer)
    /\ UNCHANGED <<sessions, failures, confirmations, thread, revision, shown, cache, events, kvn, denied, runs>>

\* Nothing to render, or the render failed (the agent ended, an answer that asks for a
\* reconcile): the copy stays as it was.
NothingRendered(t) ==
    /\ call[t].pc = "rendering" /\ Answers(t, call[t].answer)
    /\ UNCHANGED <<sessions, failures, confirmations, thread, revision, shown, cache, events, History>>

\* A revision conflict, a validation error, an operation that is not possible now.
Refuse(t) ==
    /\ call[t].pc = "asked" /\ call[t].effect # "read"
    /\ Conflicts(t) \/ events < MaxEvents
    /\ events' = IF Conflicts(t) THEN events ELSE events + 1
    /\ call' = [call EXCEPT ![t] = NoCall]
    /\ thread' = [thread EXCEPT ![t] = IF Pc(t) = "waiting" THEN Free ELSE @]
    /\ UNCHANGED <<sessions, failures, confirmations, revision, shown, cache, History>>

\* The answer: sessions end, confirmations for the page are created, the page is shown.
Reply(t) ==
    LET h == Handles(t)
        New == {f \in [h.offers -> {k \in Tokens : confirmations[k].status = "none"}] :
                   \A a, b \in h.offers : f[a] = f[b] => a = b}
    IN  /\ Pc(t) = "waiting" /\ call[t].pc = "answered"
        /\ sessions' = [s \in Sessions |-> IF s \in h.ends /\ sessions[s] = "live" THEN "gone" ELSE sessions[s]]
        /\ \E f \in New : confirmations' = [k \in Tokens |->
               IF \E a \in h.offers : f[a] = k
               THEN [status |-> "unused", action |-> CHOOSE a \in h.offers : f[a] = k, session |-> thread[t].session]
               ELSE confirmations[k]]
        /\ shown' = shown \cup {call[t].answer}
        /\ Ends(t) /\ call' = [call EXCEPT ![t] = NoCall]
        /\ UNCHANGED <<failures, revision, cache, events, History>>

\* The call times out, or the connection to the agent is lost; the agent goes on.
GiveUp(t) ==
    /\ Pc(t) = "waiting" /\ Ends(t) /\ Happens
    /\ call' = [call EXCEPT ![t] = IF call[t].pc = "answered" THEN NoCall ELSE @]
    /\ UNCHANGED <<sessions, failures, confirmations, revision, shown, cache, History>>

(***************************************************************************)
(* Hysteria asks who a client is.                                          *)
(***************************************************************************)

\* _load takes the signature of the copy before the lock; form keeps what had been
\* served by then.
AuthStat(t) ==
    /\ Idle(t)
    /\ thread' = [thread EXCEPT ![t] = [Free EXCEPT !.pc = "stat", !.form = served, !.read = copy.stamp]]
    /\ UNCHANGED <<sessions, failures, confirmations, call, revision, shown, cache, events, History>>

\* Under the lock: the users are those of the cache when the signature is, or they are read.
AuthLock(t) ==
    /\ Pc(t) = "stat" /\ cache.lock = Nothing
    /\ IF cache.signature = thread[t].read
       THEN Reads(t, "known", cache.users) /\ UNCHANGED cache
       ELSE Goto(t, "loading") /\ cache' = [cache EXCEPT !.lock = t]
    /\ UNCHANGED <<sessions, failures, confirmations, call, revision, shown, events, History>>

AuthRead(t) ==
    /\ Pc(t) = "loading" /\ Goto(t, "loaded")
    /\ cache' = [cache EXCEPT !.users = copy.revision]
    /\ UNCHANGED <<sessions, failures, confirmations, call, revision, shown, events, History>>

\* Mutant: the signature of the copy as it is after the read.
SignatureNow(t) == copy.stamp
\* The signature that the users are kept under.
Signature(t) == thread[t].read

AuthStore(t) ==
    /\ Pc(t) = "loaded"
    /\ Reads(t, "known", cache.users)
    /\ cache' = [cache EXCEPT !.signature = Signature(t), !.lock = Nothing]
    /\ UNCHANGED <<sessions, failures, confirmations, call, revision, shown, events, History>>

AuthAnswer(t) ==
    /\ Pc(t) = "known" /\ Ends(t)
    /\ UNCHANGED <<sessions, failures, confirmations, call, revision, shown, cache, events, History>>

(***************************************************************************)
(* Time, and the worker.                                                   *)
(***************************************************************************)

\* storage.cleanup, from protect: a row of failures goes when its block is over, and when
\* it is old.  (The sessions and confirmations that go with it count as gone already.)
Cleanup ==
    /\ failures' = IF failures.blocked \in {"old", "over"} THEN NoFailures ELSE failures
    /\ UNCHANGED <<sessions, confirmations, thread, call, revision, shown, cache, events, History>>

SessionExpires(s) ==
    /\ sessions[s] = "live" /\ Happens /\ sessions' = [sessions EXCEPT ![s] = "gone"]
    /\ UNCHANGED <<failures, confirmations, thread, call, revision, shown, cache, History>>

ConfirmationExpires(k) ==
    /\ confirmations[k].status = "unused" /\ Happens
    /\ confirmations' = [confirmations EXCEPT ![k].status = "gone"]
    /\ UNCHANGED <<sessions, failures, thread, call, revision, shown, cache, History>>

\* LOCKOUT_SECONDS later, when no request is left from before.
BlockEnds ==
    /\ failures.blocked = "yes" /\ Happens /\ \A t \in Threads : Pc(t) # "login"
    /\ failures' = [failures EXCEPT !.blocked = "over"] /\ denied' = 0
    /\ UNCHANGED <<sessions, confirmations, thread, call, revision, shown, cache, runs, Copies>>

\* LOCKOUT_SECONDS without a wrong password, and no block.
CountAges ==
    /\ failures.blocked = "no" /\ Happens /\ \A t \in Threads : Pc(t) # "login"
    /\ failures' = [failures EXCEPT !.blocked = "old"] /\ denied' = 0
    /\ UNCHANGED <<sessions, confirmations, thread, call, revision, shown, cache, runs, Copies>>

\* The worker ends (a crash, a new container) and a new one starts; create_app makes a new
\* cache.  The agent goes on with what it was asked.
WorkerRestarts ==
    /\ Happens
    /\ thread' = [t \in Threads |-> Free] /\ cache' = EmptyCache
    /\ call' = [t \in Threads |-> IF call[t].pc = "answered" THEN NoCall ELSE call[t]]
    /\ UNCHANGED <<sessions, failures, confirmations, revision, shown, History>>

\* kvn, or an update, changes users.json: save_state saves it, then copies it.
OtherChange ==
    /\ kvn = 0 /\ revision < MaxRevision /\ Happens
    /\ revision' = revision + 1 /\ kvn' = revision + 1
    /\ UNCHANGED <<sessions, failures, confirmations, thread, call, shown, cache, copy, denied, served, runs>>

OtherCopies ==
    /\ kvn # 0 /\ CopyWritten(kvn) /\ kvn' = 0
    /\ UNCHANGED <<sessions, failures, confirmations, thread, call, revision, shown, cache, events, denied, runs>>

OtherDies ==
    /\ kvn # 0 /\ kvn' = 0
    /\ UNCHANGED <<sessions, failures, confirmations, thread, call, revision, shown, cache, events,
                   copy, denied, served, runs>>

Next ==
    \/ \E t \in Threads :
          \/ LoginBegins(t) \/ RecordFailure(t) \/ ClearFailures(t) \/ CreateSession(t) \/ logout(t)
          \/ \E h \in Handlers, s \in Sessions, k \in Tokens \cup {Nothing}, f \in 0..MaxRevision :
                RequestBegins(t, h, s, k, f)
          \/ Consume(t) \/ ReadState(t) \/ Ask(t) \/ Execute(t) \/ RenderAll(t) \/ NothingRendered(t)
          \/ Refuse(t) \/ Reply(t) \/ GiveUp(t)
          \/ AuthStat(t) \/ AuthLock(t) \/ AuthRead(t) \/ AuthStore(t) \/ AuthAnswer(t)
    \/ Cleanup \/ BlockEnds \/ CountAges \/ WorkerRestarts \/ OtherChange \/ OtherCopies \/ OtherDies
    \/ \E s \in Sessions : SessionExpires(s)
    \/ \E k \in Tokens : ConfirmationExpires(k)

Spec == Init /\ [][Next]_vars

(***************************************************************************)
(* Properties.                                                             *)
(***************************************************************************)

\* A confirmation is behind at most one operation of the agent: however often the form is
\* submitted, by two threads at once, after a timeout, after a restart of the worker.
ConfirmedOnce == \A k \in Tokens : runs[k] <= 1

\* A wrong password is refused at most LOCKOUT_FAILURES - 1 times, and once more by every
\* thread that was past lock_status by then, before a right one or LOCKOUT_SECONDS in which
\* none is refused: a row that cleanup deletes earlier would start the count again.
DenialsAreBounded == denied <= LOCKOUT_FAILURES - 1 + Cardinality(Threads)

\* A form changes users.json only as it was when the form was shown: two forms that are
\* open at once do not undo each other.
FormsSawTheState == [][\A t \in Threads :
    Execute(t) /\ Edits(call[t], call[t].token) => call[t].form = revision]_vars

\* The users that a client of hysteria is looked up in are not older than what was served
\* when its request came: a user whose disabling had reached the copy, with no render of an
\* older state still under way, is not let in, whatever the cache has loaded meanwhile.
AuthIsCurrent == \A t \in Threads : Pc(t) = "known" => thread[t].read >= thread[t].form
=============================================================================
