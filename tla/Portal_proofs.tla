---------------------------- MODULE Portal_proofs ----------------------------
(***************************************************************************)
(* The portal, for any number of threads, sessions and confirmations: the  *)
(* types, that a confirmation is behind one operation, that a form changes *)
(* what it showed, that the lockout counts every failure, and that         *)
(* hysteria asks no users older than those that were served.               *)
(***************************************************************************)
EXTENDS Portal, FiniteSetTheorems, TLAPS

\* A thread that is in no call of its own has none that goes on.
CallInv == \A t \in Threads : Pc(t) \notin {"free", "waiting"} => call[t] = NoCall

\* A request past its confirmation, or its call, has token k to use.
Carries(t, k) ==
    \/ thread[t].token = k /\ Pc(t) \in {"entered", "read"}
    \/ call[t].token = k /\ call[t].pc = "asked"

\* A token that is carried is spent, has run nothing, and is carried once.
TokenInv == \A k \in Tokens :
    /\ runs[k] <= 1
    /\ runs[k] = 1 => confirmations[k].status \notin {"none", "unused"}
    /\ \A t \in Threads : Carries(t, k) => runs[k] = 0 /\ confirmations[k].status \notin {"none", "unused"}
    /\ \A t, u \in Threads : Carries(t, k) /\ Carries(u, k) => t = u

\* A request names a token exactly when its handler asks for one; a form that was
\* sent to the agent names the revision it was shown with.
FormInv == \A t \in Threads :
    /\ Pc(t) \in {"confirming", "entered", "read"} =>
          (Handles(t).confirm = "no") = (thread[t].token = Nothing)
    /\ call[t].pc = "asked" /\ Edits(call[t], call[t].token) => call[t].revision = call[t].form

\* Those that are past lock_status.
Logins == {t \in Threads : Pc(t) = "login"}

\* The row counts the denials; when it blocks, only those are left who were let in before.
LockoutInv ==
    /\ failures.blocked \in {"no", "old"} => denied <= failures.count /\ failures.count < LOCKOUT_FAILURES
    /\ failures.blocked \in {"old", "over"} => denied = 0
    /\ failures.blocked = "yes" =>
          /\ failures.count >= LOCKOUT_FAILURES
          /\ denied + Cardinality(Logins) <= LOCKOUT_FAILURES - 1 + Cardinality(Threads)

\* What is served is in the copy, and in whatever may still be copied.
CopyInv ==
    /\ served <= copy.revision /\ copy.revision <= revision
    /\ kvn # 0 => served <= kvn /\ kvn <= revision
    /\ \A t \in Threads : call[t].pc = "rendering" => served <= call[t].answer /\ call[t].answer <= revision

\* The users that are kept under a signature are those of the copy that has it, and new
\* enough for every request that has found it; so are those that u has loaded.
AuthInv ==
    /\ cache.signature <= copy.stamp
    /\ \A t \in Threads :
           /\ Pc(t) \in {"stat", "loading", "loaded"} => thread[t].read <= copy.stamp /\ thread[t].form <= served
           /\ Pc(t) \in {"loading", "loaded"} => cache.lock = t
           /\ Pc(t) = "known" => thread[t].form <= thread[t].read
    /\ (\A u \in Threads : Pc(u) # "loaded") =>
           /\ cache.signature = copy.stamp => cache.users = copy.revision
           /\ \A t \in Threads : Pc(t) = "stat" /\ thread[t].read = cache.signature => thread[t].form <= cache.users
    /\ \A u \in Threads : Pc(u) = "loaded" =>
           /\ thread[u].read = copy.stamp => cache.users = copy.revision
           /\ thread[u].form <= cache.users
           /\ \A t \in Threads : Pc(t) = "stat" /\ thread[t].read = thread[u].read => thread[t].form <= cache.users

\* What the proofs use of the handlers.
LEMMA HandlerFacts ==
    /\ users_list \in AllHandlers
    /\ \A h \in AllHandlers :
          /\ h.offers \subseteq Kinds /\ h.effect \in Effects /\ h.sends \in Revisions
          /\ h.confirm = "no" /\ h.effect = "change" => h.sends # "read"
<1> USE DEF Handler, Page, Change, Kinds, Effects, Revisions
<1>1. users_list \in AllHandlers
  BY DEF users_list, AllHandlers
<1> SUFFICES ASSUME NEW h \in AllHandlers
             PROVE  /\ h.offers \subseteq Kinds /\ h.effect \in Effects /\ h.sends \in Revisions
                    /\ h.confirm = "no" /\ h.effect = "change" => h.sends # "read"
  BY <1>1
<1>2. CASE h \in {dashboard_snapshot, metrics_history_json, logs_payload, user_activity_json, users_list, network_view,
                  services_list, certificates_view, render_terminal, user_detail, render_settings_page,
                  user_export_response, user_download, user_file_preview}
  BY <1>2 DEF dashboard_snapshot, metrics_history_json, logs_payload, user_activity_json, users_list, network_view,
              services_list, certificates_view, render_terminal, user_detail, render_settings_page,
              user_export_response, user_download, user_file_preview
<1>3. CASE h \in {certificate_action, backups_view, user_create, user_edit, user_toggle, user_action, reconcile_state,
                  network_protocol_apply, network_sni_apply}
  BY <1>3 DEF certificate_action, backups_view, user_create, user_edit, user_toggle, user_action, reconcile_state,
              network_protocol_apply, network_sni_apply
<1>4. CASE h \in {settings_performance, settings_client_export, settings_amneziawg, settings_mtproto, settings_reality,
                  settings_sni, settings_diagnose, system_user_create, settings_password}
  BY <1>4 DEF settings_performance, settings_client_export, settings_amneziawg, settings_mtproto, settings_reality,
              settings_sni, settings_diagnose, system_user_create, settings_password, render_settings_page
<1>5. CASE h \in service_action \cup terminal_view
  BY <1>5 DEF service_action, terminal_view
<1> QED BY <1>2, <1>3, <1>4, <1>5 DEF AllHandlers

\* What a step makes of a record has its type.
LEMMA FreeType == Free \in Thread
BY HandlerFacts DEF Thread, Free, Steps

\* No call is a call.
LEMMA NoCallType == NoCall \in Call
BY DEF Call, NoCall, Effects, Revisions

\* The fields of a thread.
LEMMA ThreadFields ==
    ASSUME NEW r \in Thread
    PROVE  /\ r.handler \in AllHandlers /\ r.session \in Sessions \cup {Nothing} /\ r.token \in Tokens \cup {Nothing}
           /\ r.form \in Nat /\ r.read \in Int /\ r.pc \in Steps
BY DEF Thread

\* Goto.
LEMMA ThreadGoes == ASSUME NEW r \in Thread, NEW pc \in Steps PROVE [r EXCEPT !.pc = pc] \in Thread
BY DEF Thread

\* Reads.
LEMMA ThreadReads ==
    ASSUME NEW r \in Thread, NEW pc \in Steps, NEW n \in Int
    PROVE  [r EXCEPT !.pc = pc, !.read = n] \in Thread
BY DEF Thread

\* AuthStat.
LEMMA ThreadForms ==
    ASSUME NEW r \in Thread, NEW pc \in Steps, NEW m \in Nat, NEW n \in Int
    PROVE  [r EXCEPT !.pc = pc, !.form = m, !.read = n] \in Thread
BY DEF Thread

\* Answers and Execute.
LEMMA CallAnswered ==
    ASSUME NEW r \in Nat, NEW effect \in Effects
    PROVE  /\ [NoCall EXCEPT !.pc = "answered", !.answer = r] \in Call
           /\ [NoCall EXCEPT !.pc = "rendering", !.effect = effect, !.answer = r] \in Call
BY NoCallType DEF Call, Effects

\* Execute leaves the other calls, and its own asked no longer.
LEMMA ExecuteEffect ==
    ASSUME TypeOK, NEW t \in Threads, Execute(t)
    PROVE  /\ \A u \in Threads \ {t} : call'[u] = call[u]
           /\ call[t].pc = "asked" /\ call'[t].pc # "asked"
           /\ call'[t].pc = "rendering" => call'[t].answer = revision'
<1> DEFINE Answered == [NoCall EXCEPT !.pc = "answered", !.answer = revision']
           Rendering == [NoCall EXCEPT !.pc = "rendering", !.effect = call[t].effect, !.answer = revision']
<1>1. NoCall.pc = "none" /\ Answered.pc = "answered" /\ Rendering.pc = "rendering" /\ Rendering.answer = revision'
  BY DEF NoCall
<1>2. \E c \in {NoCall, Answered, Rendering} : call' = [call EXCEPT ![t] = c]
  BY DEF Execute, Answers
<1>3. call \in [Threads -> Call] /\ call[t].pc = "asked"
  BY DEF TypeOK, Execute
<1> HIDE DEF Answered, Rendering
<1> QED BY <1>1, <1>2, <1>3

\* CopyWritten.
LEMMA CopyType ==
    ASSUME TypeOK, NEW r \in Nat, CopyWritten(r)
    PROVE  copy' \in [stamp : Nat, revision : Nat] /\ served' \in Nat
BY DEF TypeOK, CopyWritten

\* What is over or used.
LEMMA ConfirmationChanges ==
    ASSUME NEW c \in Confirmation, NEW status \in {"gone"}
    PROVE  [c EXCEPT !.status = status] \in Confirmation
BY DEF Confirmation

\* The types hold at the start.
LEMMA TypeInit == Init => TypeOK
BY FreeType, NoCallType, PortalAssumption
DEF Init, TypeOK, NoFailures, NoConfirmation, Confirmation, EmptyCache

\* Every step keeps the types; one step of the proof for every action, as in the lemmas that follow.
LEMMA TypeStep == TypeOK /\ [Next]_vars => TypeOK'
<1> SUFFICES ASSUME TypeOK, [Next]_vars PROVE TypeOK'
  OBVIOUS
<1> USE PortalAssumption DEF TypeOK
<1>1. ASSUME NEW t \in Threads, LoginBegins(t) PROVE TypeOK'
  <2>1. [thread[t] EXCEPT !.pc = "login"] \in Thread
    BY ThreadGoes DEF Steps
  <2> QED BY <1>1, <2>1 DEF LoginBegins, Goto, History
<1>2. ASSUME NEW t \in Threads, RecordFailure(t) PROVE TypeOK'
  BY <1>2, FreeType DEF RecordFailure, Recorded, Ends, Copies
<1>3. ASSUME NEW t \in Threads, ClearFailures(t) PROVE TypeOK'
  <2>1. [thread[t] EXCEPT !.pc = "opening"] \in Thread
    BY ThreadGoes DEF Steps
  <2> QED BY <1>3, <2>1 DEF ClearFailures, Goto, Copies, NoFailures
<1>4. ASSUME NEW t \in Threads, CreateSession(t) PROVE TypeOK'
  BY <1>4, FreeType DEF CreateSession, Ends, History
<1>5. ASSUME NEW t \in Threads, logout(t) PROVE TypeOK'
  BY <1>5 DEF logout, History
<1>6. ASSUME NEW t \in Threads, NEW h \in Handlers, NEW s \in Sessions, NEW k \in Tokens \cup {Nothing},
            NEW f \in 0..MaxRevision, RequestBegins(t, h, s, k, f)
     PROVE  TypeOK'
  <2>1. [pc |-> IF h.confirm = "no" THEN "entered" ELSE "confirming",
         handler |-> h, session |-> s, token |-> k, form |-> f, read |-> 0] \in Thread
    BY DEF Thread, Handlers, Steps
  <2> QED BY <1>6, <2>1 DEF RequestBegins, History
<1>7. ASSUME NEW t \in Threads, Consume(t) PROVE TypeOK'
  <2>1. [thread[t] EXCEPT !.pc = "entered"] \in Thread
    BY ThreadGoes DEF Steps
  <2>2. \A k \in Tokens : [confirmations[k] EXCEPT !.status = "gone"] \in Confirmation
    BY ConfirmationChanges
  <2>3. thread' \in [Threads -> Thread]
    BY <1>7, <2>1, FreeType DEF Consume, Goto, Ends
  <2>4. CASE Valid(thread[t].token, t)
    BY <1>7, <2>2, <2>3, <2>4 DEF Consume, History
  <2>5. CASE ~ Valid(thread[t].token, t)
    BY <1>7, <2>3, <2>5 DEF Consume, History
  <2> QED BY <2>4, <2>5
<1>8. ASSUME NEW t \in Threads, ReadState(t) PROVE TypeOK'
  <2>1. \A n \in Int : [thread[t] EXCEPT !.pc = "read", !.read = n] \in Thread
    BY ThreadReads DEF Steps
  <2>2. (IF Handles(t).sends = "read" THEN revision ELSE 0) \in Int
    OBVIOUS
  <2> QED BY <1>8, <2>1, <2>2 DEF ReadState, Reads, History
<1>9. ASSUME NEW t \in Threads, Ask(t) PROVE TypeOK'
  <2>1. Handles(t).effect \in Effects /\ Handles(t).sends \in Revisions
    BY HandlerFacts, ThreadFields DEF Handles
  <2>2. Sent(t) \in Int /\ thread[t].form \in Nat /\ thread[t].token \in Tokens \cup {Nothing}
    BY <2>1, ThreadFields DEF Sent, Revisions
  <2>3. [pc |-> "asked", effect |-> Handles(t).effect, token |-> thread[t].token,
         sends |-> Handles(t).sends, revision |-> Sent(t), form |-> thread[t].form, answer |-> 0] \in Call
    BY <2>1, <2>2 DEF Call
  <2>4. [Free EXCEPT !.pc = "waiting", !.handler = Handles(t), !.session = thread[t].session] \in Thread
    <3>1. Handles(t) \in AllHandlers /\ thread[t].session \in Sessions \cup {Nothing} /\ "waiting" \in Steps
      BY ThreadFields DEF Handles, Steps
    <3> HIDE DEF TypeOK
    <3> QED BY <3>1, FreeType DEF Thread
  <2> QED BY <1>9, <2>3, <2>4 DEF Ask, History
<1>10. ASSUME NEW t \in Threads, Execute(t) PROVE TypeOK'
  <2>1. revision' \in Nat /\ call[t].effect \in Effects
    BY <1>10 DEF Execute, Call
  <2>2. /\ [NoCall EXCEPT !.pc = "answered", !.answer = revision'] \in Call
        /\ [NoCall EXCEPT !.pc = "rendering", !.effect = call[t].effect, !.answer = revision'] \in Call
    BY <2>1, CallAnswered DEF Effects
  <2>3. call' \in [Threads -> Call]
    BY <1>10, <2>2, NoCallType DEF Execute, Answers
  <2>4. runs' \in [Tokens -> Nat]
    BY <1>10 DEF Execute, Ran
  <2> QED BY <1>10, <2>1, <2>3, <2>4 DEF Execute, Copies
<1>11. ASSUME NEW t \in Threads, Refuse(t) PROVE TypeOK'
  BY <1>11, FreeType, NoCallType DEF Refuse, History
<1>12. ASSUME NEW t \in Threads, Reply(t) PROVE TypeOK'
  <2> DEFINE h == Handles(t)
             New == {f \in [h.offers -> {k \in Tokens : confirmations[k].status = "none"}] :
                        \A a, b \in h.offers : f[a] = f[b] => a = b}
             Shown(f) == [k \in Tokens |->
                             IF \E a \in h.offers : f[a] = k
                             THEN [status |-> "unused", action |-> CHOOSE a \in h.offers : f[a] = k,
                                   session |-> thread[t].session]
                             ELSE confirmations[k]]
  <2>1. h.offers \subseteq Kinds /\ thread[t].session \in Sessions \cup {Nothing}
    BY HandlerFacts, ThreadFields DEF Handles
  <2>2. \E f \in New : confirmations' = Shown(f)
    BY <1>12 DEF Reply
  <2>3. ASSUME NEW f PROVE Shown(f) \in [Tokens -> Confirmation]
    <3>1. ASSUME NEW k \in Tokens, \E a \in h.offers : f[a] = k
          PROVE  (CHOOSE a \in h.offers : f[a] = k) \in Kinds
      BY <3>1, <2>1
    <3> QED BY <2>1, <3>1 DEF Confirmation
  <2>4. confirmations' \in [Tokens -> Confirmation]
    BY <2>2, <2>3
  <2>5. sessions' \in [Sessions -> {"none", "live", "gone"}]
    BY <1>12 DEF Reply
  <2>6. thread' \in [Threads -> Thread] /\ call' \in [Threads -> Call]
    BY <1>12, FreeType, NoCallType DEF Reply, Ends
  <2>7. shown' \subseteq Nat
    <3>1. call[t] \in Call
      OBVIOUS
    <3>2. call[t].answer \in Nat
      BY <3>1 DEF Call
    <3>3. shown' = shown \cup {call[t].answer}
      BY <1>12 DEF Reply
    <3>4. shown \subseteq Nat
      OBVIOUS
    <3> HIDE DEF TypeOK
    <3> QED BY <3>2, <3>3, <3>4
  <2> QED BY <1>12, <2>4, <2>5, <2>6, <2>7 DEF Reply, History
<1>13. ASSUME NEW t \in Threads, GiveUp(t) PROVE TypeOK'
  BY <1>13, FreeType, NoCallType DEF GiveUp, Ends, Happens, History
<1>14. ASSUME NEW t \in Threads, AuthStat(t) PROVE TypeOK'
  <2>1. [Free EXCEPT !.pc = "stat", !.form = served, !.read = copy.stamp] \in Thread
    <3>1. "stat" \in Steps /\ served \in Nat /\ copy.stamp \in Int
      BY DEF Steps
    <3> HIDE DEF TypeOK
    <3> QED BY <3>1, FreeType, ThreadForms
  <2> QED BY <1>14, <2>1 DEF AuthStat, History
<1>15. ASSUME NEW t \in Threads, AuthLock(t) PROVE TypeOK'
  <2>1. [thread[t] EXCEPT !.pc = "known", !.read = cache.users] \in Thread
    BY ThreadReads DEF Steps
  <2>2. [thread[t] EXCEPT !.pc = "loading"] \in Thread
    BY ThreadGoes DEF Steps
  <2>3. thread' \in [Threads -> Thread]
    BY <1>15, <2>1, <2>2 DEF AuthLock, Goto, Reads
  <2>4. cache' \in [signature : Int, users : Int, lock : Threads \cup {Nothing}]
    BY <1>15 DEF AuthLock
  <2> QED BY <1>15, <2>3, <2>4 DEF AuthLock, History
<1>16. ASSUME NEW t \in Threads, AuthRead(t) PROVE TypeOK'
  <2>1. [thread[t] EXCEPT !.pc = "loaded"] \in Thread
    BY ThreadGoes DEF Steps
  <2> QED BY <1>16, <2>1 DEF AuthRead, Goto, History
<1>17. ASSUME NEW t \in Threads, AuthStore(t) PROVE TypeOK'
  <2>1. [thread[t] EXCEPT !.pc = "known", !.read = cache.users] \in Thread /\ thread[t].read \in Int
    BY ThreadReads, ThreadFields DEF Steps
  <2>2. thread' \in [Threads -> Thread]
    BY <1>17, <2>1 DEF AuthStore, Reads
  <2>3. cache' \in [signature : Int, users : Int, lock : Threads \cup {Nothing}]
    BY <1>17, <2>1 DEF AuthStore, Signature
  <2> QED BY <1>17, <2>2, <2>3 DEF AuthStore, History
<1>18. ASSUME NEW t \in Threads, AuthAnswer(t) PROVE TypeOK'
  BY <1>18, FreeType DEF AuthAnswer, Ends, History
<1>19. CASE Cleanup
  BY <1>19 DEF Cleanup, NoFailures, History
<1>20. CASE BlockEnds
  BY <1>20 DEF BlockEnds, Happens, Copies
<1>21. CASE WorkerRestarts
  BY <1>21, FreeType, NoCallType DEF WorkerRestarts, Happens, EmptyCache, History
<1>22. CASE OtherChange
  BY <1>22 DEF OtherChange, Happens, History
<1>23. ASSUME NEW s \in Sessions, SessionExpires(s) PROVE TypeOK'
  BY <1>23 DEF SessionExpires, Happens, History
<1>24. ASSUME NEW k \in Tokens, ConfirmationExpires(k) PROVE TypeOK'
  <2>1. [confirmations[k] EXCEPT !.status = "gone"] \in Confirmation
    BY ConfirmationChanges
  <2> QED BY <1>24, <2>1 DEF ConfirmationExpires, Happens, History
<1>25. CASE UNCHANGED vars
  BY <1>25 DEF vars, History
<1>26. ASSUME NEW t \in Threads, RenderAll(t) PROVE TypeOK'
  <2>1. call[t].answer \in Nat
    BY DEF Call
  <2>2. copy' \in [stamp : Nat, revision : Nat] /\ served' \in Nat
    BY <1>26, <2>1, CopyType DEF RenderAll
  <2>3. call' \in [Threads -> Call]
    BY <1>26, <2>1, CallAnswered, NoCallType DEF RenderAll, Answers, Effects
  <2> QED BY <1>26, <2>2, <2>3 DEF RenderAll
<1>27. ASSUME NEW t \in Threads, NothingRendered(t) PROVE TypeOK'
  <2>1. call[t].answer \in Nat
    BY DEF Call
  <2>2. call' \in [Threads -> Call]
    BY <1>27, <2>1, CallAnswered, NoCallType DEF NothingRendered, Answers, Effects
  <2> QED BY <1>27, <2>2 DEF NothingRendered, History
<1>28. CASE CountAges
  BY <1>28 DEF CountAges, Happens, Copies
<1>29. CASE OtherCopies
  <2>1. copy' \in [stamp : Nat, revision : Nat] /\ served' \in Nat
    BY <1>29, CopyType DEF OtherCopies
  <2> QED BY <1>29, <2>1 DEF OtherCopies
<1>30. CASE OtherDies
  BY <1>30 DEF OtherDies
<1> QED
  BY <1>1, <1>2, <1>3, <1>4, <1>5, <1>6, <1>7, <1>8, <1>9, <1>10, <1>11, <1>12,
     <1>13, <1>14, <1>15, <1>16, <1>17, <1>18, <1>19, <1>20, <1>21, <1>22, <1>23, <1>24, <1>25,
     <1>26, <1>27, <1>28, <1>29, <1>30
  DEF Next

\* A thread that goes on has no call left: Idle asks for it, and Reply and Refuse end it.
LEMMA CallStep == TypeOK /\ CallInv /\ [Next]_vars => CallInv'
<1> SUFFICES ASSUME TypeOK, CallInv, [Next]_vars PROVE CallInv'
  OBVIOUS
<1> USE DEF TypeOK, Thread, Call, CallInv, Pc, Idle, Goto, Reads, Ends
<1>1. ASSUME NEW t \in Threads, LoginBegins(t) PROVE CallInv'
  BY <1>1 DEF LoginBegins
<1>2. ASSUME NEW t \in Threads, RecordFailure(t) PROVE CallInv'
  BY <1>2 DEF RecordFailure, Free
<1>3. ASSUME NEW t \in Threads, ClearFailures(t) PROVE CallInv'
  BY <1>3 DEF ClearFailures
<1>4. ASSUME NEW t \in Threads, CreateSession(t) PROVE CallInv'
  BY <1>4 DEF CreateSession, Free
<1>5. ASSUME NEW t \in Threads, logout(t) PROVE CallInv'
  BY <1>5 DEF logout
<1>6. ASSUME NEW t \in Threads, NEW h \in Handlers, NEW s \in Sessions, NEW k \in Tokens \cup {Nothing},
            NEW f \in 0..MaxRevision, RequestBegins(t, h, s, k, f)
     PROVE  CallInv'
  BY <1>6 DEF RequestBegins
<1>7. ASSUME NEW t \in Threads, Consume(t) PROVE CallInv'
  BY <1>7 DEF Consume, Free
<1>8. ASSUME NEW t \in Threads, ReadState(t) PROVE CallInv'
  BY <1>8 DEF ReadState
<1>9. ASSUME NEW t \in Threads, Ask(t) PROVE CallInv'
  BY <1>9 DEF Ask
<1>10. ASSUME NEW t \in Threads, Execute(t) PROVE CallInv'
  <2>1. thread' = thread /\ call[t].pc = "asked" /\ \A u \in Threads \ {t} : call'[u] = call[u]
    BY <1>10, ExecuteEffect DEF Execute
  <2> QED BY <2>1 DEF NoCall
<1>11. ASSUME NEW t \in Threads, Refuse(t) PROVE CallInv'
  BY <1>11 DEF Refuse, Free
<1>12. ASSUME NEW t \in Threads, Reply(t) PROVE CallInv'
  BY <1>12 DEF Reply, Free
<1>13. ASSUME NEW t \in Threads, GiveUp(t) PROVE CallInv'
  BY <1>13 DEF GiveUp, Happens, Free
<1>14. ASSUME NEW t \in Threads, AuthStat(t) PROVE CallInv'
  BY <1>14 DEF AuthStat, Free
<1>15. ASSUME NEW t \in Threads, AuthLock(t) PROVE CallInv'
  BY <1>15 DEF AuthLock
<1>16. ASSUME NEW t \in Threads, AuthRead(t) PROVE CallInv'
  BY <1>16 DEF AuthRead
<1>17. ASSUME NEW t \in Threads, AuthStore(t) PROVE CallInv'
  BY <1>17 DEF AuthStore
<1>18. ASSUME NEW t \in Threads, AuthAnswer(t) PROVE CallInv'
  BY <1>18 DEF AuthAnswer, Free
<1>19. CASE Cleanup
  BY <1>19 DEF Cleanup
<1>20. CASE BlockEnds
  BY <1>20 DEF BlockEnds
<1>21. CASE WorkerRestarts
  BY <1>21 DEF WorkerRestarts, Free
<1>22. CASE OtherChange
  BY <1>22 DEF OtherChange
<1>23. ASSUME NEW s \in Sessions, SessionExpires(s) PROVE CallInv'
  BY <1>23 DEF SessionExpires
<1>24. ASSUME NEW k \in Tokens, ConfirmationExpires(k) PROVE CallInv'
  BY <1>24 DEF ConfirmationExpires
<1>25. CASE UNCHANGED vars
  BY <1>25 DEF vars, History
<1>26. ASSUME NEW t \in Threads, RenderAll(t) PROVE CallInv'
  BY <1>26 DEF RenderAll, Answers
<1>27. ASSUME NEW t \in Threads, NothingRendered(t) PROVE CallInv'
  BY <1>27 DEF NothingRendered, Answers
<1>28. CASE CountAges
  BY <1>28 DEF CountAges
<1>29. CASE OtherCopies
  BY <1>29 DEF OtherCopies
<1>30. CASE OtherDies
  BY <1>30 DEF OtherDies
<1> QED
  BY <1>1, <1>2, <1>3, <1>4, <1>5, <1>6, <1>7, <1>8, <1>9, <1>10, <1>11, <1>12,
     <1>13, <1>14, <1>15, <1>16, <1>17, <1>18, <1>19, <1>20, <1>21, <1>22, <1>23, <1>24, <1>25,
     <1>26, <1>27, <1>28, <1>29, <1>30
  DEF Next

\* Consume is one transaction: what it spends nobody carries yet.
LEMMA TokenStep == TypeOK /\ CallInv /\ TokenInv /\ [Next]_vars => TokenInv'
<1> SUFFICES ASSUME TypeOK, CallInv, TokenInv, [Next]_vars PROVE TokenInv'
  OBVIOUS
<1> USE PortalAssumption DEF TypeOK, Thread, Call, Confirmation, CallInv, TokenInv, Carries, Pc, Idle, Goto, Reads, Ends, History
<1>1. ASSUME NEW t \in Threads, LoginBegins(t) PROVE TokenInv'
  BY <1>1 DEF LoginBegins
<1>2. ASSUME NEW t \in Threads, RecordFailure(t) PROVE TokenInv'
  BY <1>2 DEF RecordFailure, Free
<1>3. ASSUME NEW t \in Threads, ClearFailures(t) PROVE TokenInv'
  BY <1>3 DEF ClearFailures
<1>4. ASSUME NEW t \in Threads, CreateSession(t) PROVE TokenInv'
  BY <1>4 DEF CreateSession, Free
<1>5. ASSUME NEW t \in Threads, logout(t) PROVE TokenInv'
  BY <1>5 DEF logout
<1>6. ASSUME NEW t \in Threads, NEW h \in Handlers, NEW s \in Sessions, NEW k \in Tokens \cup {Nothing},
            NEW f \in 0..MaxRevision, RequestBegins(t, h, s, k, f)
     PROVE  TokenInv'
  BY <1>6 DEF RequestBegins
<1>7. ASSUME NEW t \in Threads, Consume(t) PROVE TokenInv'
  <2>1. CASE Valid(thread[t].token, t)
    <3>1. thread[t].token \in Tokens \cup {Nothing} /\ call[t] = NoCall /\ UNCHANGED <<call, runs>>
      BY <1>7 DEF Consume
    <3>2. ASSUME NEW k \in Tokens, thread[t].token # k
          PROVE  /\ confirmations'[k] = confirmations[k]
                 /\ \A u \in Threads : Carries(u, k)' => Carries(u, k)
      <4>1. /\ confirmations' = [confirmations EXCEPT ![thread[t].token].status = "gone"]
            /\ thread' = [thread EXCEPT ![t].pc = "entered"]
        BY <1>7, <2>1 DEF Consume
      <4> HIDE DEF CallInv, TokenInv, Idle, Reads, Ends
      <4>2. confirmations'[k] = confirmations[k]
        BY <3>2, <4>1
      <4>3. \A u \in Threads \ {t} : thread'[u] = thread[u]
        BY <4>1
      <4>4. thread'[t].token = thread[t].token
        BY <4>1
      <4>5. ~ Carries(t, k)'
        BY <3>1, <3>2, <4>4 DEF NoCall
      <4> QED BY <3>1, <4>2, <4>3, <4>5
    <3>3. ASSUME NEW k \in Tokens, thread[t].token = k
          PROVE  /\ confirmations[k].status = "unused" /\ confirmations'[k].status = "gone"
                 /\ \A u \in Threads : Carries(u, k)' => u = t
      <4>1. confirmations[k].status = "unused"
        BY <2>1, <3>3 DEF Valid
      <4>2. \A u \in Threads : ~ Carries(u, k)
        BY <4>1
      <4>3. confirmations'[k].status = "gone"
        BY <1>7, <2>1, <3>3 DEF Consume
      <4>4. \A u \in Threads \ {t} : thread'[u] = thread[u]
        BY <1>7, <2>1 DEF Consume
      <4> QED BY <3>1, <4>1, <4>2, <4>3, <4>4
    <3> SUFFICES ASSUME NEW k \in Tokens
                 PROVE  /\ runs'[k] <= 1
                        /\ runs'[k] = 1 => confirmations'[k].status \notin {"none", "unused"}
                        /\ \A u \in Threads :
                              Carries(u, k)' => runs'[k] = 0 /\ confirmations'[k].status \notin {"none", "unused"}
                        /\ \A u, v \in Threads : Carries(u, k)' /\ Carries(v, k)' => u = v
      OBVIOUS
    <3>4. runs'[k] = runs[k] /\ runs[k] \in Nat
      BY <3>1
    <3>5. CASE thread[t].token = k
      <4>1. runs[k] = 0
        <5>1. runs[k] # 1 /\ runs[k] <= 1
          BY <3>3, <3>5
        <5> HIDE DEF TypeOK, TokenInv, CallInv
        <5> QED BY <3>4, <5>1
      <4> HIDE DEF Carries
      <4> QED BY <3>3, <3>4, <3>5, <4>1
    <3>6. CASE thread[t].token # k
      <4>1. confirmations'[k] = confirmations[k] /\ \A u \in Threads : Carries(u, k)' => Carries(u, k)
        BY <3>2, <3>6
      <4> HIDE DEF Carries
      <4> QED BY <3>4, <4>1
    <3> QED BY <3>5, <3>6
  <2>2. CASE ~ Valid(thread[t].token, t)
    <3>1. UNCHANGED <<confirmations, call, runs>> /\ thread' = [thread EXCEPT ![t] = Free]
      BY <1>7, <2>2 DEF Consume
    <3>2. \A u \in Threads, k \in Tokens : Carries(u, k)' => Carries(u, k)
      BY <3>1 DEF Free
    <3> QED BY <3>1, <3>2
  <2> QED BY <2>1, <2>2
<1>8. ASSUME NEW t \in Threads, ReadState(t) PROVE TokenInv'
  BY <1>8 DEF ReadState
<1>9. ASSUME NEW t \in Threads, Ask(t) PROVE TokenInv'
  BY <1>9 DEF Ask, NoCall
<1>10. ASSUME NEW t \in Threads, Execute(t) PROVE TokenInv'
  <2>1. /\ \A u \in Threads \ {t} : call'[u] = call[u]
        /\ call[t].pc = "asked" /\ call'[t].pc # "asked" /\ UNCHANGED <<thread, confirmations>>
    BY <1>10, ExecuteEffect DEF Execute
  <2>2. \A u \in Threads, k \in Tokens : Carries(u, k)' => Carries(u, k) /\ (u # t \/ thread[u].token = k)
    BY <2>1
  <2>3. runs' = [k \in Tokens |-> runs[k] + IF k = call[t].token THEN 1 ELSE 0]
    BY <1>10 DEF Execute, Ran
  <2>4. Pc(t) \notin {"entered", "read"}
    BY <2>1 DEF NoCall
  <2>5. \A k \in Tokens : call[t].token = k => runs[k] = 0 /\ \A u \in Threads : ~ Carries(u, k)'
    BY <2>1, <2>2, <2>4
  <2>6. \A k \in Tokens : call[t].token # k => runs'[k] = runs[k]
    BY <2>3
  <2>7. \A k \in Tokens : call[t].token = k => runs'[k] = 1 /\ confirmations[k].status \notin {"none", "unused"}
    BY <2>1, <2>3, <2>5
  <2> QED BY <2>1, <2>2, <2>5, <2>6, <2>7
<1>11. ASSUME NEW t \in Threads, Refuse(t) PROVE TokenInv'
  BY <1>11 DEF Refuse, NoCall, Free
<1>12. ASSUME NEW t \in Threads, Reply(t) PROVE TokenInv'
  BY <1>12 DEF Reply, NoCall, Free
<1>13. ASSUME NEW t \in Threads, GiveUp(t) PROVE TokenInv'
  BY <1>13 DEF GiveUp, Happens, NoCall, Free
<1>14. ASSUME NEW t \in Threads, AuthStat(t) PROVE TokenInv'
  BY <1>14 DEF AuthStat, Free
<1>15. ASSUME NEW t \in Threads, AuthLock(t) PROVE TokenInv'
  <2>1. UNCHANGED <<confirmations, call, runs>>
    BY <1>15 DEF AuthLock
  <2>2. \A u \in Threads, k \in Tokens : Carries(u, k)' => Carries(u, k)
    <3>1. CASE thread' = [thread EXCEPT ![t] = [thread[t] EXCEPT !.pc = "known", !.read = cache.users]]
      BY <2>1, <3>1
    <3>2. CASE thread' = [thread EXCEPT ![t].pc = "loading"]
      BY <2>1, <3>2
    <3> QED BY <1>15, <3>1, <3>2 DEF AuthLock
  <2> QED BY <2>1, <2>2
<1>16. ASSUME NEW t \in Threads, AuthRead(t) PROVE TokenInv'
  BY <1>16 DEF AuthRead
<1>17. ASSUME NEW t \in Threads, AuthStore(t) PROVE TokenInv'
  BY <1>17 DEF AuthStore
<1>18. ASSUME NEW t \in Threads, AuthAnswer(t) PROVE TokenInv'
  BY <1>18 DEF AuthAnswer, Free
<1>19. CASE Cleanup
  BY <1>19 DEF Cleanup
<1>20. CASE BlockEnds
  BY <1>20 DEF BlockEnds
<1>21. CASE WorkerRestarts
  BY <1>21 DEF WorkerRestarts, NoCall, Free
<1>22. CASE OtherChange
  BY <1>22 DEF OtherChange
<1>23. ASSUME NEW s \in Sessions, SessionExpires(s) PROVE TokenInv'
  BY <1>23 DEF SessionExpires
<1>24. ASSUME NEW k \in Tokens, ConfirmationExpires(k) PROVE TokenInv'
  BY <1>24 DEF ConfirmationExpires
<1>25. CASE UNCHANGED vars
  BY <1>25 DEF vars
<1>26. ASSUME NEW t \in Threads, RenderAll(t) PROVE TokenInv'
  BY <1>26 DEF RenderAll, Answers, NoCall
<1>27. ASSUME NEW t \in Threads, NothingRendered(t) PROVE TokenInv'
  BY <1>27 DEF NothingRendered, Answers, NoCall
<1>28. CASE CountAges
  BY <1>28 DEF CountAges
<1>29. CASE OtherCopies
  BY <1>29 DEF OtherCopies
<1>30. CASE OtherDies
  BY <1>30 DEF OtherDies
<1> QED
  BY <1>1, <1>2, <1>3, <1>4, <1>5, <1>6, <1>7, <1>8, <1>9, <1>10, <1>11, <1>12,
     <1>13, <1>14, <1>15, <1>16, <1>17, <1>18, <1>19, <1>20, <1>21, <1>22, <1>23, <1>24, <1>25,
     <1>26, <1>27, <1>28, <1>29, <1>30
  DEF Next

\* Ask sends what the request holds.
LEMMA FormStep == TypeOK /\ FormInv /\ [Next]_vars => FormInv'
<1> SUFFICES ASSUME TypeOK, FormInv, [Next]_vars PROVE FormInv'
  OBVIOUS
<1> USE PortalAssumption DEF TypeOK, Thread, Call, FormInv, Edits, Handles, Pc, Idle, Goto, Reads, Ends, History
<1>1. ASSUME NEW t \in Threads, LoginBegins(t) PROVE FormInv'
  BY <1>1 DEF LoginBegins
<1>2. ASSUME NEW t \in Threads, RecordFailure(t) PROVE FormInv'
  BY <1>2 DEF RecordFailure, Free
<1>3. ASSUME NEW t \in Threads, ClearFailures(t) PROVE FormInv'
  BY <1>3 DEF ClearFailures
<1>4. ASSUME NEW t \in Threads, CreateSession(t) PROVE FormInv'
  BY <1>4 DEF CreateSession, Free
<1>5. ASSUME NEW t \in Threads, logout(t) PROVE FormInv'
  BY <1>5 DEF logout
<1>6. ASSUME NEW t \in Threads, NEW h \in Handlers, NEW s \in Sessions, NEW k \in Tokens \cup {Nothing},
            NEW f \in 0..MaxRevision, RequestBegins(t, h, s, k, f)
     PROVE  FormInv'
  BY <1>6 DEF RequestBegins
<1>7. ASSUME NEW t \in Threads, Consume(t) PROVE FormInv'
  <2>1. CASE thread' = [thread EXCEPT ![t].pc = "entered"]
    BY <1>7, <2>1 DEF Consume
  <2>2. CASE thread' = [thread EXCEPT ![t] = Free]
    BY <1>7, <2>2 DEF Consume, Free
  <2> QED BY <1>7, <2>1, <2>2 DEF Consume
<1>8. ASSUME NEW t \in Threads, ReadState(t) PROVE FormInv'
  BY <1>8 DEF ReadState
<1>9. ASSUME NEW t \in Threads, Ask(t) PROVE FormInv'
  <2>1. thread[t].handler \in AllHandlers /\ thread[t].form \in Nat
    OBVIOUS
  <2>2. thread[t].handler.confirm = "no" /\ thread[t].handler.effect = "change" => thread[t].handler.sends # "read"
    BY <2>1, HandlerFacts
  <2>3. thread[t].handler.sends \in Revisions
    BY <2>1, HandlerFacts
  <2>4. (thread[t].handler.confirm = "no") = (thread[t].token = Nothing)
    BY <1>9 DEF Ask
  <2> QED BY <1>9, <2>2, <2>3, <2>4 DEF Ask, Sent, Revisions
<1>10. ASSUME NEW t \in Threads, Execute(t) PROVE FormInv'
  <2>1. thread' = thread /\ call'[t].pc # "asked" /\ \A u \in Threads \ {t} : call'[u] = call[u]
    BY <1>10, ExecuteEffect DEF Execute
  <2> QED BY <2>1
<1>11. ASSUME NEW t \in Threads, Refuse(t) PROVE FormInv'
  BY <1>11 DEF Refuse, NoCall, Free
<1>12. ASSUME NEW t \in Threads, Reply(t) PROVE FormInv'
  BY <1>12 DEF Reply, NoCall, Free
<1>13. ASSUME NEW t \in Threads, GiveUp(t) PROVE FormInv'
  BY <1>13 DEF GiveUp, Happens, NoCall, Free
<1>14. ASSUME NEW t \in Threads, AuthStat(t) PROVE FormInv'
  BY <1>14 DEF AuthStat, Free
<1>15. ASSUME NEW t \in Threads, AuthLock(t) PROVE FormInv'
  <2>1. CASE cache.signature = thread[t].read
    <3>1. thread' = [thread EXCEPT ![t] = [thread[t] EXCEPT !.pc = "known", !.read = cache.users]] /\ cache' = cache
      BY <1>15, <2>1 DEF AuthLock
    <3> QED BY <1>15, <2>1, <3>1 DEF AuthLock
  <2>2. CASE cache.signature # thread[t].read
    <3>1. thread' = [thread EXCEPT ![t].pc = "loading"] /\ cache' = [cache EXCEPT !.lock = t]
      BY <1>15, <2>2 DEF AuthLock
    <3> QED BY <1>15, <2>2, <3>1 DEF AuthLock
  <2> QED BY <2>1, <2>2
<1>16. ASSUME NEW t \in Threads, AuthRead(t) PROVE FormInv'
  BY <1>16 DEF AuthRead
<1>17. ASSUME NEW t \in Threads, AuthStore(t) PROVE FormInv'
  BY <1>17 DEF AuthStore
<1>18. ASSUME NEW t \in Threads, AuthAnswer(t) PROVE FormInv'
  BY <1>18 DEF AuthAnswer, Free
<1>19. CASE Cleanup
  BY <1>19 DEF Cleanup
<1>20. CASE BlockEnds
  BY <1>20 DEF BlockEnds
<1>21. CASE WorkerRestarts
  BY <1>21 DEF WorkerRestarts, NoCall, Free
<1>22. CASE OtherChange
  BY <1>22 DEF OtherChange
<1>23. ASSUME NEW s \in Sessions, SessionExpires(s) PROVE FormInv'
  BY <1>23 DEF SessionExpires
<1>24. ASSUME NEW k \in Tokens, ConfirmationExpires(k) PROVE FormInv'
  BY <1>24 DEF ConfirmationExpires
<1>25. CASE UNCHANGED vars
  BY <1>25 DEF vars
<1>26. ASSUME NEW t \in Threads, RenderAll(t) PROVE FormInv'
  BY <1>26 DEF RenderAll, Answers, NoCall
<1>27. ASSUME NEW t \in Threads, NothingRendered(t) PROVE FormInv'
  BY <1>27 DEF NothingRendered, Answers, NoCall
<1>28. CASE CountAges
  BY <1>28 DEF CountAges
<1>29. CASE OtherCopies
  BY <1>29 DEF OtherCopies
<1>30. CASE OtherDies
  BY <1>30 DEF OtherDies
<1> QED
  BY <1>1, <1>2, <1>3, <1>4, <1>5, <1>6, <1>7, <1>8, <1>9, <1>10, <1>11, <1>12,
     <1>13, <1>14, <1>15, <1>16, <1>17, <1>18, <1>19, <1>20, <1>21, <1>22, <1>23, <1>24, <1>25,
     <1>26, <1>27, <1>28, <1>29, <1>30
  DEF Next

\* How many threads are past lock_status, and how many when one of them has gone.
LEMMA LoginsCounted ==
    /\ IsFiniteSet(Logins) /\ Cardinality(Logins) \in Nat /\ Cardinality(Threads) \in Nat
    /\ \A S \in SUBSET Logins : Cardinality(S) \in Nat /\ Cardinality(S) <= Cardinality(Logins)
    /\ \A t \in Threads : \A S \in SUBSET (Threads \ {t}) :
          Cardinality(S) \in Nat /\ Cardinality(S) <= Cardinality(Threads) - 1
    /\ \A t \in Logins : \A S \in SUBSET (Logins \ {t}) :
          Cardinality(S) \in Nat /\ Cardinality(S) <= Cardinality(Logins) - 1
<1>1. Logins \subseteq Threads
  BY DEF Logins
<1>2. IsFiniteSet(Logins) /\ IsFiniteSet(Threads)
  BY <1>1, FS_Subset, PortalAssumption DEF PortalAssumption
<1>3. ASSUME NEW T, IsFiniteSet(T), NEW t \in T, NEW S \in SUBSET (T \ {t})
      PROVE  Cardinality(S) \in Nat /\ Cardinality(S) <= Cardinality(T) - 1
  <2>1. IsFiniteSet(T \ {t}) /\ Cardinality(T \ {t}) = Cardinality(T) - 1
    BY <1>3, FS_RemoveElement
  <2> QED BY <2>1, FS_Subset, FS_CardinalityType
<1> QED BY <1>2, <1>3, FS_Subset, FS_CardinalityType

\* What does not count keeps the invariant.
LEMMA LockoutKept ==
    ASSUME LockoutInv, Logins' \subseteq Logins, UNCHANGED <<failures, denied>>, denied \in Nat
    PROVE  LockoutInv'
BY LoginsCounted, PortalAssumption DEF LockoutInv, PortalAssumption

\* Every denial takes its thread out of Logins.
LEMMA LockoutStep == TypeOK /\ LockoutInv /\ [Next]_vars => LockoutInv'
<1> SUFFICES ASSUME TypeOK, LockoutInv, [Next]_vars PROVE LockoutInv'
  OBVIOUS
<1>0. denied \in Nat /\ failures.count \in Nat /\ failures.blocked \in {"no", "old", "yes", "over"}
  BY DEF TypeOK
<1> USE PortalAssumption DEF TypeOK, Thread, Logins, Pc, Idle, Goto, Reads, Ends, History
<1>1. ASSUME NEW t \in Threads, LoginBegins(t) PROVE LockoutInv'
  BY <1>1 DEF LoginBegins, LockoutInv
<1>2. ASSUME NEW t \in Threads, RecordFailure(t) PROVE LockoutInv'
  <2>1. t \in Logins /\ Logins' \subseteq Logins \ {t}
    BY <1>2 DEF RecordFailure, Free
  <2>2. failures' = [count |-> Recorded, blocked |-> IF Recorded >= LOCKOUT_FAILURES THEN "yes" ELSE "no"] /\ denied' = denied + 1
    BY <1>2 DEF RecordFailure
  <2>3. /\ Cardinality(Logins') \in Nat /\ Cardinality(Logins') <= Cardinality(Logins) - 1
        /\ Cardinality(Logins') <= Cardinality(Threads) - 1
    <3>1. Logins' \subseteq Threads \ {t}
      BY <2>1
    <3> QED BY <2>1, <3>1, LoginsCounted
  <2>4. Cardinality(Logins) \in Nat /\ Cardinality(Threads) \in Nat /\ LOCKOUT_FAILURES \in Nat \ {0}
    BY LoginsCounted DEF PortalAssumption
  <2> HIDE DEF TypeOK, Logins
  <2>5. CASE failures.blocked = "yes"
    BY <1>0, <2>2, <2>3, <2>4, <2>5 DEF Recorded, LockoutInv
  <2>6. CASE failures.blocked = "over"
    BY <1>0, <2>2, <2>3, <2>4, <2>6 DEF Recorded, LockoutInv
  <2>7. CASE failures.blocked \in {"no", "old"}
    BY <1>0, <2>2, <2>3, <2>4, <2>7 DEF Recorded, LockoutInv
  <2> QED BY <1>0, <2>5, <2>6, <2>7
<1>3. ASSUME NEW t \in Threads, ClearFailures(t) PROVE LockoutInv'
  BY <1>3, <1>0 DEF ClearFailures, NoFailures, LockoutInv, PortalAssumption
<1>4. ASSUME NEW t \in Threads, CreateSession(t) PROVE LockoutInv'
  <2>1. Logins' \subseteq Logins /\ UNCHANGED <<failures, denied>>
    BY <1>4 DEF CreateSession, Free
  <2> QED BY <1>0, <2>1, LockoutKept
<1>5. ASSUME NEW t \in Threads, logout(t) PROVE LockoutInv'
  <2>1. Logins' \subseteq Logins /\ UNCHANGED <<failures, denied>>
    BY <1>5 DEF logout
  <2> QED BY <1>0, <2>1, LockoutKept
<1>6. ASSUME NEW t \in Threads, NEW h \in Handlers, NEW s \in Sessions, NEW k \in Tokens \cup {Nothing},
            NEW f \in 0..MaxRevision, RequestBegins(t, h, s, k, f)
     PROVE  LockoutInv'
  <2>1. Logins' \subseteq Logins /\ UNCHANGED <<failures, denied>>
    BY <1>6 DEF RequestBegins
  <2> QED BY <1>0, <2>1, LockoutKept
<1>7. ASSUME NEW t \in Threads, Consume(t) PROVE LockoutInv'
  <2>1. UNCHANGED <<failures, denied>>
    BY <1>7 DEF Consume
  <2>2. CASE thread' = [thread EXCEPT ![t].pc = "entered"]
    <3>1. Logins' \subseteq Logins
      BY <2>2
    <3> QED BY <1>0, <2>1, <3>1, LockoutKept
  <2>3. CASE thread' = [thread EXCEPT ![t] = Free]
    <3>1. Logins' \subseteq Logins
      BY <2>3 DEF Free
    <3> QED BY <1>0, <2>1, <3>1, LockoutKept
  <2> QED BY <1>7, <2>2, <2>3 DEF Consume
<1>8. ASSUME NEW t \in Threads, ReadState(t) PROVE LockoutInv'
  <2>1. Logins' \subseteq Logins /\ UNCHANGED <<failures, denied>>
    BY <1>8 DEF ReadState
  <2> QED BY <1>0, <2>1, LockoutKept
<1>9. ASSUME NEW t \in Threads, Ask(t) PROVE LockoutInv'
  <2>1. Logins' \subseteq Logins /\ UNCHANGED <<failures, denied>>
    BY <1>9 DEF Ask
  <2> QED BY <1>0, <2>1, LockoutKept
<1>10. ASSUME NEW t \in Threads, Execute(t) PROVE LockoutInv'
  <2>1. Logins' \subseteq Logins /\ UNCHANGED <<failures, denied>>
    BY <1>10 DEF Execute
  <2> QED BY <1>0, <2>1, LockoutKept
<1>11. ASSUME NEW t \in Threads, Refuse(t) PROVE LockoutInv'
  <2>1. Logins' \subseteq Logins /\ UNCHANGED <<failures, denied>>
    BY <1>11 DEF Refuse, Free
  <2> QED BY <1>0, <2>1, LockoutKept
<1>12. ASSUME NEW t \in Threads, Reply(t) PROVE LockoutInv'
  <2>1. Logins' \subseteq Logins /\ UNCHANGED <<failures, denied>>
    BY <1>12 DEF Reply, Free
  <2> QED BY <1>0, <2>1, LockoutKept
<1>13. ASSUME NEW t \in Threads, GiveUp(t) PROVE LockoutInv'
  <2>1. Logins' \subseteq Logins /\ UNCHANGED <<failures, denied>>
    BY <1>13 DEF GiveUp, Happens, Free
  <2> QED BY <1>0, <2>1, LockoutKept
<1>14. ASSUME NEW t \in Threads, AuthStat(t) PROVE LockoutInv'
  <2>1. Logins' \subseteq Logins /\ UNCHANGED <<failures, denied>>
    BY <1>14 DEF AuthStat, Free
  <2> QED BY <1>0, <2>1, LockoutKept
<1>15. ASSUME NEW t \in Threads, AuthLock(t) PROVE LockoutInv'
  <2>1. UNCHANGED <<failures, denied>>
    BY <1>15 DEF AuthLock
  <2>2. CASE thread' = [thread EXCEPT ![t] = [thread[t] EXCEPT !.pc = "known", !.read = cache.users]]
    <3>1. Logins' \subseteq Logins
      BY <2>2
    <3> QED BY <1>0, <2>1, <3>1, LockoutKept
  <2>3. CASE thread' = [thread EXCEPT ![t].pc = "loading"]
    <3>1. Logins' \subseteq Logins
      BY <2>3
    <3> QED BY <1>0, <2>1, <3>1, LockoutKept
  <2> QED BY <1>15, <2>2, <2>3 DEF AuthLock
<1>16. ASSUME NEW t \in Threads, AuthRead(t) PROVE LockoutInv'
  <2>1. Logins' \subseteq Logins /\ UNCHANGED <<failures, denied>>
    BY <1>16 DEF AuthRead
  <2> QED BY <1>0, <2>1, LockoutKept
<1>17. ASSUME NEW t \in Threads, AuthStore(t) PROVE LockoutInv'
  <2>1. Logins' \subseteq Logins /\ UNCHANGED <<failures, denied>>
    BY <1>17 DEF AuthStore
  <2> QED BY <1>0, <2>1, LockoutKept
<1>18. ASSUME NEW t \in Threads, AuthAnswer(t) PROVE LockoutInv'
  <2>1. Logins' \subseteq Logins /\ UNCHANGED <<failures, denied>>
    BY <1>18 DEF AuthAnswer, Free
  <2> QED BY <1>0, <2>1, LockoutKept
<1>19. CASE Cleanup
  <2>1. Logins' = Logins /\ denied' = denied
    BY <1>19 DEF Cleanup
  <2>2. failures' = IF failures.blocked \in {"old", "over"} THEN NoFailures ELSE failures
    BY <1>19 DEF Cleanup
  <2>3. CASE failures.blocked \in {"old", "over"}
    BY <1>0, <2>1, <2>2, <2>3 DEF LockoutInv, NoFailures, PortalAssumption
  <2>4. CASE failures.blocked \notin {"old", "over"}
    BY <1>0, <2>1, <2>2, <2>4, LockoutKept
  <2> QED BY <2>3, <2>4
<1>20. CASE BlockEnds
  BY <1>20 DEF BlockEnds, LockoutInv
<1>21. CASE WorkerRestarts
  <2>1. Logins' \subseteq Logins /\ UNCHANGED <<failures, denied>>
    BY <1>21 DEF WorkerRestarts, Happens, Free
  <2> QED BY <1>0, <2>1, LockoutKept
<1>22. CASE OtherChange
  <2>1. Logins' \subseteq Logins /\ UNCHANGED <<failures, denied>>
    BY <1>22 DEF OtherChange, Happens
  <2> QED BY <1>0, <2>1, LockoutKept
<1>23. ASSUME NEW s \in Sessions, SessionExpires(s) PROVE LockoutInv'
  <2>1. Logins' \subseteq Logins /\ UNCHANGED <<failures, denied>>
    BY <1>23 DEF SessionExpires, Happens
  <2> QED BY <1>0, <2>1, LockoutKept
<1>24. ASSUME NEW k \in Tokens, ConfirmationExpires(k) PROVE LockoutInv'
  <2>1. Logins' \subseteq Logins /\ UNCHANGED <<failures, denied>>
    BY <1>24 DEF ConfirmationExpires, Happens
  <2> QED BY <1>0, <2>1, LockoutKept
<1>25. CASE UNCHANGED vars
  <2>1. Logins' \subseteq Logins /\ UNCHANGED <<failures, denied>>
    BY <1>25 DEF vars
  <2> QED BY <1>0, <2>1, LockoutKept
<1>26. ASSUME NEW t \in Threads, RenderAll(t) PROVE LockoutInv'
  <2>1. Logins' \subseteq Logins /\ UNCHANGED <<failures, denied>>
    BY <1>26 DEF RenderAll
  <2> QED BY <1>0, <2>1, LockoutKept
<1>27. ASSUME NEW t \in Threads, NothingRendered(t) PROVE LockoutInv'
  <2>1. Logins' \subseteq Logins /\ UNCHANGED <<failures, denied>>
    BY <1>27 DEF NothingRendered
  <2> QED BY <1>0, <2>1, LockoutKept
<1>28. CASE CountAges
  BY <1>28, <1>0 DEF CountAges, LockoutInv
<1>29. CASE OtherCopies
  <2>1. Logins' \subseteq Logins /\ UNCHANGED <<failures, denied>>
    BY <1>29 DEF OtherCopies
  <2> QED BY <1>0, <2>1, LockoutKept
<1>30. CASE OtherDies
  <2>1. Logins' \subseteq Logins /\ UNCHANGED <<failures, denied>>
    BY <1>30 DEF OtherDies
  <2> QED BY <1>0, <2>1, LockoutKept
<1> QED
  BY <1>1, <1>2, <1>3, <1>4, <1>5, <1>6, <1>7, <1>8, <1>9, <1>10, <1>11, <1>12,
     <1>13, <1>14, <1>15, <1>16, <1>17, <1>18, <1>19, <1>20, <1>21, <1>22, <1>23, <1>24, <1>25,
     <1>26, <1>27, <1>28, <1>29, <1>30
  DEF Next

\* A render that is under way holds at least what is served.
LEMMA CopyStep == TypeOK /\ CopyInv /\ [Next]_vars => CopyInv'
<1> SUFFICES ASSUME TypeOK, CopyInv, [Next]_vars PROVE CopyInv'
  OBVIOUS
<1> USE DEF TypeOK, Call, CopyInv, History
<1>1. ASSUME NEW t \in Threads, LoginBegins(t) PROVE CopyInv'
  BY <1>1 DEF LoginBegins
<1>2. ASSUME NEW t \in Threads, RecordFailure(t) PROVE CopyInv'
  BY <1>2 DEF RecordFailure, Copies
<1>3. ASSUME NEW t \in Threads, ClearFailures(t) PROVE CopyInv'
  BY <1>3 DEF ClearFailures, Copies
<1>4. ASSUME NEW t \in Threads, CreateSession(t) PROVE CopyInv'
  BY <1>4 DEF CreateSession
<1>5. ASSUME NEW t \in Threads, logout(t) PROVE CopyInv'
  BY <1>5 DEF logout
<1>6. ASSUME NEW t \in Threads, NEW h \in Handlers, NEW s \in Sessions, NEW k \in Tokens \cup {Nothing},
            NEW f \in 0..MaxRevision, RequestBegins(t, h, s, k, f)
     PROVE  CopyInv'
  BY <1>6 DEF RequestBegins
<1>7. ASSUME NEW t \in Threads, Consume(t) PROVE CopyInv'
  BY <1>7 DEF Consume
<1>8. ASSUME NEW t \in Threads, ReadState(t) PROVE CopyInv'
  BY <1>8 DEF ReadState
<1>9. ASSUME NEW t \in Threads, Ask(t) PROVE CopyInv'
  BY <1>9 DEF Ask
<1>10. ASSUME NEW t \in Threads, Execute(t) PROVE CopyInv'
  <2>1. revision' \in Nat /\ revision <= revision' /\ UNCHANGED <<copy, served, kvn>>
    BY <1>10 DEF Execute, Copies
  <2>2. \A u \in Threads : call'[u].pc = "rendering" => call'[u] = call[u] \/ call'[u].answer = revision'
    BY <1>10, ExecuteEffect
  <2> QED BY <2>1, <2>2
<1>11. ASSUME NEW t \in Threads, Refuse(t) PROVE CopyInv'
  BY <1>11 DEF Refuse, NoCall
<1>12. ASSUME NEW t \in Threads, Reply(t) PROVE CopyInv'
  BY <1>12 DEF Reply, NoCall
<1>13. ASSUME NEW t \in Threads, GiveUp(t) PROVE CopyInv'
  BY <1>13 DEF GiveUp, NoCall
<1>14. ASSUME NEW t \in Threads, AuthStat(t) PROVE CopyInv'
  BY <1>14 DEF AuthStat
<1>15. ASSUME NEW t \in Threads, AuthLock(t) PROVE CopyInv'
  BY <1>15 DEF AuthLock
<1>16. ASSUME NEW t \in Threads, AuthRead(t) PROVE CopyInv'
  BY <1>16 DEF AuthRead
<1>17. ASSUME NEW t \in Threads, AuthStore(t) PROVE CopyInv'
  BY <1>17 DEF AuthStore
<1>18. ASSUME NEW t \in Threads, AuthAnswer(t) PROVE CopyInv'
  BY <1>18 DEF AuthAnswer
<1>19. CASE Cleanup
  BY <1>19 DEF Cleanup
<1>20. CASE BlockEnds
  BY <1>20 DEF BlockEnds, Copies
<1>21. CASE WorkerRestarts
  BY <1>21 DEF WorkerRestarts, NoCall
<1>22. CASE OtherChange
  BY <1>22 DEF OtherChange
<1>23. ASSUME NEW s \in Sessions, SessionExpires(s) PROVE CopyInv'
  BY <1>23 DEF SessionExpires
<1>24. ASSUME NEW k \in Tokens, ConfirmationExpires(k) PROVE CopyInv'
  BY <1>24 DEF ConfirmationExpires
<1>25. CASE UNCHANGED vars
  BY <1>25 DEF vars
<1>26. ASSUME NEW t \in Threads, RenderAll(t) PROVE CopyInv'
  <2>1. CopyWritten(call[t].answer) /\ UNCHANGED <<kvn, revision>>
    BY <1>26 DEF RenderAll
  <2>2. \A u \in Threads : call'[u].pc = "rendering" => u # t /\ call'[u] = call[u]
    BY <1>26 DEF RenderAll, Answers, NoCall
  <2>3. /\ \A u \in Threads : call[u].pc = "rendering" => call[u].answer \in Underway
        /\ kvn # 0 => kvn \in Underway
    BY DEF Underway
  <2>4. call[t].pc = "rendering"
    BY <1>26 DEF RenderAll
  <2> QED BY <2>1, <2>2, <2>3, <2>4 DEF CopyWritten
<1>27. ASSUME NEW t \in Threads, NothingRendered(t) PROVE CopyInv'
  BY <1>27 DEF NothingRendered, Answers, NoCall
<1>28. CASE CountAges
  BY <1>28 DEF CountAges, Copies
<1>29. CASE OtherCopies
  <2>1. CopyWritten(kvn) /\ kvn # 0 /\ kvn' = 0 /\ UNCHANGED <<call, revision>>
    BY <1>29 DEF OtherCopies
  <2>2. /\ \A u \in Threads : call[u].pc = "rendering" => call[u].answer \in Underway
    BY DEF Underway
  <2> QED BY <2>1, <2>2 DEF CopyWritten
<1>30. CASE OtherDies
  BY <1>30 DEF OtherDies
<1> QED
  BY <1>1, <1>2, <1>3, <1>4, <1>5, <1>6, <1>7, <1>8, <1>9, <1>10, <1>11, <1>12,
     <1>13, <1>14, <1>15, <1>16, <1>17, <1>18, <1>19, <1>20, <1>21, <1>22, <1>23, <1>24, <1>25,
     <1>26, <1>27, <1>28, <1>29, <1>30
  DEF Next

\* What neither asks who a client is, nor copies, keeps the invariant.
LEMMA AuthKept ==
    ASSUME AuthInv, UNCHANGED <<cache, copy, served>>,
           \A t \in Threads :
              /\ Pc(t) \in {"stat", "loading", "loaded"} => thread'[t] = thread[t]
              /\ Pc(t)' \in {"stat", "loading", "loaded", "known"} => thread'[t] = thread[t]
    PROVE  AuthInv'
BY DEF AuthInv, Pc

\* A copy that changes has a signature that nobody has found yet.
LEMMA AuthCopied ==
    ASSUME TypeOK, AuthInv, NEW r \in Nat, served <= r, CopyWritten(r), UNCHANGED <<thread, cache>>
    PROVE  AuthInv'
<1>1. CASE copy' = copy
  BY <1>1 DEF TypeOK, Thread, CopyWritten, AuthInv, Pc
<1>2. CASE copy' = [stamp |-> copy.stamp + 1, revision |-> r]
  BY <1>2 DEF TypeOK, Thread, CopyWritten, AuthInv, Pc
<1> QED BY <1>1, <1>2 DEF CopyWritten

\* The signature is taken before the users are read, and both under the lock.
LEMMA AuthStep == TypeOK /\ CopyInv /\ AuthInv /\ [Next]_vars => AuthInv'
<1> SUFFICES ASSUME TypeOK, CopyInv, AuthInv, [Next]_vars PROVE AuthInv'
  OBVIOUS
<1> DEFINE Same == \A t \in Threads :
              /\ Pc(t) \in {"stat", "loading", "loaded"} => thread'[t] = thread[t]
              /\ Pc(t)' \in {"stat", "loading", "loaded", "known"} => thread'[t] = thread[t]
<1> USE PortalAssumption DEF TypeOK, Thread, Pc, Idle, Goto, Reads, Ends, History
<1>1. ASSUME NEW t \in Threads, LoginBegins(t) PROVE AuthInv'
  <2>1. UNCHANGED <<cache, copy, served>> /\ Same
    BY <1>1 DEF LoginBegins, Free
  <2> QED BY <2>1, AuthKept
<1>2. ASSUME NEW t \in Threads, RecordFailure(t) PROVE AuthInv'
  <2>1. UNCHANGED <<cache, copy, served>> /\ Same
    BY <1>2 DEF RecordFailure, Free, Copies
  <2> QED BY <2>1, AuthKept
<1>3. ASSUME NEW t \in Threads, ClearFailures(t) PROVE AuthInv'
  <2>1. UNCHANGED <<cache, copy, served>> /\ Same
    BY <1>3 DEF ClearFailures, Copies
  <2> QED BY <2>1, AuthKept
<1>4. ASSUME NEW t \in Threads, CreateSession(t) PROVE AuthInv'
  <2>1. UNCHANGED <<cache, copy, served>> /\ Same
    BY <1>4 DEF CreateSession, Free
  <2> QED BY <2>1, AuthKept
<1>5. ASSUME NEW t \in Threads, logout(t) PROVE AuthInv'
  <2>1. UNCHANGED <<cache, copy, served>> /\ Same
    BY <1>5 DEF logout
  <2> QED BY <2>1, AuthKept
<1>6. ASSUME NEW t \in Threads, NEW h \in Handlers, NEW s \in Sessions, NEW k \in Tokens \cup {Nothing},
            NEW f \in 0..MaxRevision, RequestBegins(t, h, s, k, f)
     PROVE  AuthInv'
  <2>1. UNCHANGED <<cache, copy, served>> /\ Same
    BY <1>6 DEF RequestBegins, Free
  <2> QED BY <2>1, AuthKept
<1>7. ASSUME NEW t \in Threads, Consume(t) PROVE AuthInv'
  <2>1. UNCHANGED <<cache, copy, served>> /\ Same
    BY <1>7 DEF Consume, Free
  <2> QED BY <2>1, AuthKept
<1>8. ASSUME NEW t \in Threads, ReadState(t) PROVE AuthInv'
  <2>1. UNCHANGED <<cache, copy, served>> /\ Same
    BY <1>8 DEF ReadState
  <2> QED BY <2>1, AuthKept
<1>9. ASSUME NEW t \in Threads, Ask(t) PROVE AuthInv'
  <2>1. UNCHANGED <<cache, copy, served>> /\ Same
    BY <1>9 DEF Ask, Free
  <2> QED BY <2>1, AuthKept
<1>10. ASSUME NEW t \in Threads, Execute(t) PROVE AuthInv'
  <2>1. UNCHANGED <<cache, copy, served>> /\ Same
    BY <1>10 DEF Execute, Copies
  <2> QED BY <2>1, AuthKept
<1>11. ASSUME NEW t \in Threads, Refuse(t) PROVE AuthInv'
  <2>1. UNCHANGED <<cache, copy, served>> /\ Same
    BY <1>11 DEF Refuse, Free
  <2> QED BY <2>1, AuthKept
<1>12. ASSUME NEW t \in Threads, Reply(t) PROVE AuthInv'
  <2>1. UNCHANGED <<cache, copy, served>> /\ Same
    BY <1>12 DEF Reply, Free
  <2> QED BY <2>1, AuthKept
<1>13. ASSUME NEW t \in Threads, GiveUp(t) PROVE AuthInv'
  <2>1. UNCHANGED <<cache, copy, served>> /\ Same
    BY <1>13 DEF GiveUp, Free
  <2> QED BY <2>1, AuthKept
<1>14. ASSUME NEW t \in Threads, AuthStat(t) PROVE AuthInv'
  BY <1>14 DEF AuthStat, Free, CopyInv, AuthInv
<1>15. ASSUME NEW t \in Threads, AuthLock(t) PROVE AuthInv'
  <2>1. \A u \in Threads : Pc(u) # "loaded"
    BY <1>15 DEF AuthLock, AuthInv
  <2>2. CASE cache.signature = thread[t].read
    <3>1. thread' = [thread EXCEPT ![t] = [thread[t] EXCEPT !.pc = "known", !.read = cache.users]] /\ cache' = cache
      BY <1>15, <2>2 DEF AuthLock
    <3> QED BY <1>15, <2>1, <2>2, <3>1 DEF AuthLock, AuthInv
  <2>3. CASE cache.signature # thread[t].read
    <3>1. thread' = [thread EXCEPT ![t].pc = "loading"] /\ cache' = [cache EXCEPT !.lock = t]
      BY <1>15, <2>3 DEF AuthLock
    <3> QED BY <1>15, <2>1, <3>1 DEF AuthLock, AuthInv
  <2> QED BY <2>2, <2>3
<1>16. ASSUME NEW t \in Threads, AuthRead(t) PROVE AuthInv'
  BY <1>16 DEF AuthRead, CopyInv, AuthInv
<1>17. ASSUME NEW t \in Threads, AuthStore(t) PROVE AuthInv'
  <2>1. \A u \in Threads : Pc(u) = "loaded" => u = t
    BY <1>17 DEF AuthStore, AuthInv
  <2> QED BY <1>17, <2>1 DEF AuthStore, Signature, AuthInv
<1>18. ASSUME NEW t \in Threads, AuthAnswer(t) PROVE AuthInv'
  <2>1. UNCHANGED <<cache, copy, served>> /\ Same
    BY <1>18 DEF AuthAnswer, Free
  <2> QED BY <2>1, AuthKept
<1>19. CASE Cleanup
  <2>1. UNCHANGED <<cache, copy, served>> /\ Same
    BY <1>19 DEF Cleanup
  <2> QED BY <2>1, AuthKept
<1>20. CASE BlockEnds
  <2>1. UNCHANGED <<cache, copy, served>> /\ Same
    BY <1>20 DEF BlockEnds, Copies
  <2> QED BY <2>1, AuthKept
<1>21. CASE WorkerRestarts
  BY <1>21 DEF WorkerRestarts, EmptyCache, Free, AuthInv
<1>22. CASE OtherChange
  <2>1. UNCHANGED <<cache, copy, served>> /\ Same
    BY <1>22 DEF OtherChange
  <2> QED BY <2>1, AuthKept
<1>23. ASSUME NEW s \in Sessions, SessionExpires(s) PROVE AuthInv'
  <2>1. UNCHANGED <<cache, copy, served>> /\ Same
    BY <1>23 DEF SessionExpires
  <2> QED BY <2>1, AuthKept
<1>24. ASSUME NEW k \in Tokens, ConfirmationExpires(k) PROVE AuthInv'
  <2>1. UNCHANGED <<cache, copy, served>> /\ Same
    BY <1>24 DEF ConfirmationExpires
  <2> QED BY <2>1, AuthKept
<1>25. CASE UNCHANGED vars
  <2>1. UNCHANGED <<cache, copy, served>> /\ Same
    BY <1>25 DEF vars
  <2> QED BY <2>1, AuthKept
<1>26. ASSUME NEW t \in Threads, RenderAll(t) PROVE AuthInv'
  <2>1. UNCHANGED <<thread, cache>> /\ CopyWritten(call[t].answer)
    BY <1>26 DEF RenderAll
  <2>2. call[t].answer \in Nat /\ served <= call[t].answer
    BY <1>26 DEF RenderAll, CopyInv, Call
  <2> QED BY <2>1, <2>2, AuthCopied
<1>27. ASSUME NEW t \in Threads, NothingRendered(t) PROVE AuthInv'
  <2>1. UNCHANGED <<cache, copy, served>> /\ Same
    BY <1>27 DEF NothingRendered
  <2> QED BY <2>1, AuthKept
<1>28. CASE CountAges
  <2>1. UNCHANGED <<cache, copy, served>> /\ Same
    BY <1>28 DEF CountAges, Copies
  <2> QED BY <2>1, AuthKept
<1>29. CASE OtherCopies
  <2>1. UNCHANGED <<thread, cache>> /\ CopyWritten(kvn) /\ served <= kvn
    BY <1>29 DEF OtherCopies, CopyInv
  <2> QED BY <2>1, AuthCopied
<1>30. CASE OtherDies
  <2>1. UNCHANGED <<cache, copy, served>> /\ Same
    BY <1>30 DEF OtherDies
  <2> QED BY <2>1, AuthKept
<1> QED
  BY <1>1, <1>2, <1>3, <1>4, <1>5, <1>6, <1>7, <1>8, <1>9, <1>10, <1>11, <1>12,
     <1>13, <1>14, <1>15, <1>16, <1>17, <1>18, <1>19, <1>20, <1>21, <1>22, <1>23, <1>24, <1>25,
     <1>26, <1>27, <1>28, <1>29, <1>30
  DEF Next

\* Every variable has its type.
THEOREM TypeCorrect == Spec => []TypeOK
BY TypeInit, TypeStep, PTL DEF Spec

\* The invariants hold at the start.
LEMMA CallInit == Init => CallInv /\ TokenInv
BY DEF Init, CallInv, TokenInv, Carries, Pc, Free, NoCall

\* They hold from then on.
LEMMA TokenCorrect == Spec => []TokenInv
<1>1. TypeOK /\ CallInv /\ [Next]_vars => CallInv'
  BY CallStep
<1> QED BY TypeCorrect, CallInit, <1>1, TokenStep, PTL DEF Spec

\* However often a confirmation is submitted, the agent does once what it confirms.
THEOREM OnceCorrect == Spec => []ConfirmedOnce
<1>1. TokenInv => ConfirmedOnce
  BY DEF TokenInv, ConfirmedOnce
<1> QED BY TokenCorrect, <1>1, PTL

\* No row, no denial.
LEMMA LockoutInit == Init => LockoutInv
BY PortalAssumption DEF Init, LockoutInv, NoFailures, PortalAssumption

\* The lockout refuses a bounded number of wrong passwords.
THEOREM DenialsCorrect == Spec => []DenialsAreBounded
<1>1. TypeOK /\ LockoutInv => DenialsAreBounded
  BY LoginsCounted, PortalAssumption DEF TypeOK, LockoutInv, DenialsAreBounded, PortalAssumption
<1> QED BY TypeCorrect, LockoutInit, LockoutStep, <1>1, PTL DEF Spec

\* The cache of a new worker is empty.
LEMMA AuthInit == Init => CopyInv /\ AuthInv
BY DEF Init, CopyInv, AuthInv, EmptyCache, Pc, Free, NoCall

\* No client of hysteria is looked up in users older than what was served when it asked.
THEOREM AuthCorrect == Spec => []AuthIsCurrent
<1>1. TypeOK /\ AuthInv => AuthIsCurrent
  BY DEF TypeOK, Thread, AuthInv, AuthIsCurrent
<1> QED BY TypeCorrect, AuthInit, CopyStep, AuthStep, <1>1, PTL DEF Spec

\* No request, no call.
LEMMA FormInit == Init => FormInv
BY DEF Init, FormInv, Pc, Free, NoCall

\* A form changes users.json as it was when the form was shown.
THEOREM FormsCorrect == Spec => FormsSawTheState
<1>1. FormInv /\ [Next]_vars =>
          [\A t \in Threads : Execute(t) /\ Edits(call[t], call[t].token) => call[t].form = revision]_vars
  BY DEF FormInv, Execute, Edits, Conflicts
<1> QED BY TypeCorrect, FormInit, FormStep, <1>1, PTL DEF Spec, FormsSawTheState
==============================================================================
