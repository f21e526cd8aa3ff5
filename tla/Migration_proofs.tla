--------------------------- MODULE Migration_proofs ---------------------------
(***************************************************************************)
(* What the transfer of users guarantees for any number of wizards and     *)
(* requests, any archives and any limits: a commit makes of users.json     *)
(* what its preview showed, once; users stay apart; what is replaced is    *)
(* in the backups; the directory and the previews are bounded.             *)
(***************************************************************************)
EXTENDS Migration, FiniteSetTheorems, TLAPS

\* Whoever does more than wait holds the mutation lock, so there is one at a time.
Busy == {"preview", "take", "update", "apply", "cancel", "export", "create", "write"}
ActiveInv == \A r \in Requests : request[r].pc \in Busy => mutating = r

\* What an entry was made for is what its preview showed.
Shows(i, e) ==
    /\ i \in DOMAIN history.shown \ history.committed
    /\ e.base = history.shown[i].base
    /\ Planned(e.base, e.archive, e.mode) = history.shown[i].result

\* An entry is in the previews or taken by a commit, never both.
ShownInv ==
    /\ history.committed \subseteq DOMAIN history.shown
    /\ DOMAIN history.shown \subseteq 1..made.previews
    /\ \A i \in DOMAIN previews : Shows(i, previews[i])
    /\ \A r \in Requests : request[r].pc = "update" =>
         Shows(request[r].preview, request[r].entry) /\ request[r].preview \notin DOMAIN previews

\* Everything that users.json was or is can be its content.
Fit(c) == Unique(c.people) /\ Addressable(c)
ContentInv == Fit(users) /\ (\A c \in backups : Fit(c)) /\ ReplacedIsBackedUp

\* Who creates or fills a file holds the flock, and who is about to create one has
\* found room for it.
Filling == {"uploading", "receiving"}
Writing == {"create", "write"}
Creating == (\E t \in Tabs : tab[t].pc = "uploading") \/ (\E r \in Requests : request[r].pc = "create")

LockInv ==
    /\ \A t \in Tabs : tab[t].pc \in Filling => lock = t
    /\ \A r \in Requests : request[r].pc \in Writing => lock = r

RoomInv == StagedIsBounded /\ (Creating => Cardinality(DOMAIN files) < MaxStaged)

\* The steps of a request, on its record.
At(q, pc) == [q EXCEPT !.pc = pc]
Asks(t, kind, mode, file, preview) ==
    [NoRequest EXCEPT !.pc = "waiting", !.kind = kind, !.owner = t, !.tab = t,
                      !.mode = mode, !.file = file, !.preview = preview]
Takes(q, e) == [q EXCEPT !.pc = "update", !.entry = e]
Exports(q, archive) == [q EXCEPT !.pc = "create", !.entry = [NoEntry EXCEPT !.archive = archive]]
Creates(q, file) == [q EXCEPT !.pc = "write", !.file = file]
Unheard(q) == [q EXCEPT !.tab = Nobody]

Pcs == Busy \cup {"free", "waiting"}

\* What the model is built from has its type.
LEMMA Constants ==
    /\ NoArchive \in Archive /\ NoEntry \in Entry /\ NoTab \in Wizard /\ NoRequest \in Request
    /\ NoTab.pc = "ready" /\ NoRequest.pc = "free" /\ Start \in Contents
    /\ MaxPreviews \in Nat /\ MaxFiles \in Nat /\ MaxEdits \in Nat /\ MaxStaged \in Nat /\ Capacity \in Nat
    /\ Archives \subseteq Archive
<1> USE MigrationAssumption DEF MigrationAssumption
<1>1. NoArchive \in Archive
  <2>1. (CHOOSE s \in Sites : TRUE) \in Sites
    OBVIOUS
  <2> QED BY <2>1 DEF NoArchive, Archive
<1>2. NoEntry \in Entry
  BY <1>1 DEF NoEntry, Entry, Modes, Contents
<1>3. NoTab \in Wizard /\ NoTab.pc = "ready"
  BY DEF NoTab, Wizard
<1>4. NoRequest \in Request /\ NoRequest.pc = "free"
  BY <1>2 DEF NoRequest, Request, Modes
<1> QED BY <1>1, <1>2, <1>3, <1>4 DEF Contents, Archive

\* The fields of the records.
LEMMA RequestFields ==
    ASSUME NEW q \in Request
    PROVE  /\ q.pc \in Pcs /\ q.owner \in Tabs \cup {Nobody} /\ q.tab \in Tabs \cup {Nobody}
           /\ q.file \in FileIds \cup {0} /\ q.mode \in Modes /\ q.preview \in PreviewIds \cup {0}
           /\ q.entry \in Entry
BY DEF Request, Pcs, Busy

LEMMA EntryFields ==
    ASSUME NEW e \in Entry
    PROVE  e.archive \in Archive /\ e.base \in Contents /\ e.mode \in Modes
BY DEF Entry

LEMMA WizardFields ==
    ASSUME NEW w \in Wizard
    PROVE  w.file \in FileIds \cup {0} /\ w.preview \in PreviewIds \cup {0} /\ w.ticket \in BOOLEAN
BY DEF Wizard

\* What each step assigns and what it keeps.
LEMMA AtFields ==
    ASSUME NEW q \in Request, NEW pc \in Pcs, NEW p, p = At(q, pc)
    PROVE  /\ p \in Request /\ p.pc = pc /\ p.preview = q.preview /\ p.entry = q.entry
           /\ p.tab = q.tab
BY DEF Request, At, Pcs, Busy

LEMMA AsksFields ==
    ASSUME NEW t \in Tabs, NEW kind \in {"preview", "commit", "cancel", "export"}, NEW mode \in Modes,
           NEW file \in FileIds \cup {0}, NEW preview \in PreviewIds \cup {0},
           NEW p, p = Asks(t, kind, mode, file, preview)
    PROVE  p \in Request /\ p.pc = "waiting"
BY Constants DEF Request, Asks

LEMMA TakesFields ==
    ASSUME NEW q \in Request, NEW e \in Entry, NEW p, p = Takes(q, e)
    PROVE  p \in Request /\ p.pc = "update" /\ p.preview = q.preview /\ p.entry = e
BY DEF Request, Takes

LEMMA ExportsFields ==
    ASSUME NEW q \in Request, NEW archive \in Archive, NEW p, p = Exports(q, archive)
    PROVE  p \in Request /\ p.pc = "create"
<1>1. [NoEntry EXCEPT !.archive = archive] \in Entry
  BY Constants DEF Entry
<1> QED BY <1>1 DEF Request, Exports

LEMMA CreatesFields ==
    ASSUME NEW q \in Request, NEW file \in FileIds, NEW p, p = Creates(q, file)
    PROVE  p \in Request /\ p.pc = "write"
BY DEF Request, Creates

LEMMA UnheardFields ==
    ASSUME NEW q \in Request, NEW p, p = Unheard(q)
    PROVE  p \in Request /\ p.pc = q.pc /\ p.preview = q.preview /\ p.entry = q.entry
BY DEF Request, Unheard

\* With and Without, on functions whose values are in a set.
LEMMA WithFields ==
    ASSUME NEW S, NEW D, NEW f \in [D -> S], NEW x, NEW y \in S
    PROVE  /\ With(f, x, y) \in [D \cup {x} -> S]
           /\ With(f, x, y)[x] = y /\ \A z \in D \ {x} : With(f, x, y)[z] = f[z]
BY DEF With

LEMMA WithoutFields ==
    ASSUME NEW S, NEW D, NEW f \in [D -> S], NEW X
    PROVE  /\ Without(f, X) \in [D \ X -> S]
           /\ \A z \in D \ X : Without(f, X)[z] = f[z]
BY DEF Without, Restrict

LEMMA KeptFields ==
    ASSUME TypeOK
    PROVE  DOMAIN Kept \subseteq DOMAIN files /\ Kept \in [DOMAIN Kept -> File]
<1>1. files \in [DOMAIN files -> File]
  BY DEF TypeOK
<1> DEFINE old == Outdated(files)
<1>2. Kept = Without(files, old)
  BY DEF Kept
<1>3. Without(files, old) \in [DOMAIN files \ old -> File]
  BY <1>1, WithoutFields
<1> HIDE DEF old
<1> QED BY <1>2, <1>3

\* A request changes its own record.
Moves(r) == request' \in [Requests -> Request] /\ \A q \in Requests \ {r} : request'[q] = request[q]

LEMMA Now ==
    ASSUME TypeOK
    PROVE  /\ \A r \in Requests : request[r] \in Request
           /\ \A t \in Tabs : tab[t] \in Wizard
BY DEF TypeOK

LEMMA Others ==
    ASSUME TypeOK, NEW r \in Requests, NEW p \in Request, Becomes(r, p)
    PROVE  Moves(r) /\ request'[r] = p
BY DEF TypeOK, Becomes, Moves

LEMMA OtherTabs ==
    ASSUME TypeOK, NEW t \in Tabs, NEW w \in Wizard, Move(t, w)
    PROVE  tab' \in [Tabs -> Wizard] /\ tab'[t] = w /\ \A u \in Tabs \ {t} : tab'[u] = tab[u]
BY DEF TypeOK, Move

\* What a step leaves as it was, as far as the invariants look at it.
TabsStay == \A t \in Tabs : tab'[t].pc \in Filling => tab'[t].pc = tab[t].pc
HoldersStay == \A r \in Requests : request'[r].pc \in Writing => request'[r].pc = request[r].pc
FilesStay == DOMAIN files' \subseteq DOMAIN files
EntriesStay == \A i \in DOMAIN previews' :
    /\ i \in DOMAIN previews /\ previews'[i].base = previews[i].base
    /\ previews'[i].archive = previews[i].archive /\ previews'[i].mode = previews[i].mode
CommitsStay == \A r \in Requests :
    /\ request'[r].pc = "update" => /\ request[r].pc = "update" /\ request'[r].preview = request[r].preview
                                    /\ request'[r].entry = request[r].entry
    /\ request[r].pc = "update" => request'[r].pc # "apply"
ShownStays ==
    /\ history'.shown = history.shown /\ history'.committed = history.committed
    /\ made'.previews = made.previews

\* Nothing the flock protects.
HoldStays == TabsStay /\ HoldersStay /\ FilesStay /\ EntriesStay /\ lock' = lock
\* Nothing of the previews and commits.
PlansStay == EntriesStay /\ CommitsStay /\ ShownStays

\* Two ways to change one's own record.
LEMMA AlmostAt ==
    ASSUME TypeOK, NEW r \in Requests, NEW pc \in Pcs, Becomes(r, At(request[r], pc))
    PROVE  Moves(r) /\ request'[r].pc = pc /\ request'[r].preview = request[r].preview
           /\ request'[r].entry = request[r].entry
BY Now, AtFields, Others

\* What the wizard makes of an answer.
LEMMA ToldFields ==
    ASSUME TypeOK, NEW t \in Tabs, NEW ok \in BOOLEAN, NEW id \in PreviewIds \cup {0},
           NEW w, w = Told(t, ok, id)
    PROVE  w \in Wizard /\ w.pc \notin Filling
BY Constants, Now DEF Told, Wizard, Filling

LEMMA Answered ==
    ASSUME TypeOK, NEW r \in Requests, NEW ok \in BOOLEAN, NEW id \in PreviewIds \cup {0}, Answer(r, ok, id)
    PROVE  /\ Moves(r) /\ request'[r].pc = "free" /\ mutating' = Nobody
           /\ tab' \in [Tabs -> Wizard] /\ TabsStay /\ HoldersStay /\ CommitsStay
<1>1. Moves(r) /\ request'[r].pc = "free" /\ mutating' = Nobody
  BY Constants, Others DEF Answer
<1>2. tab' \in [Tabs -> Wizard] /\ TabsStay
  <2>1. CASE request[r].tab = Nobody
    BY <2>1 DEF Answer, TypeOK, TabsStay
  <2>2. CASE request[r].tab # Nobody
    <3> DEFINE t == request[r].tab
               w == Told(t, ok, id)
    <3>1. t \in Tabs
      BY <2>2, Now, RequestFields
    <3>2. w \in Wizard /\ w.pc \notin Filling
      BY <3>1, ToldFields
    <3>3. Move(t, w)
      BY <2>2 DEF Answer
    <3> HIDE DEF t, w
    <3> QED BY <3>1, <3>2, <3>3, OtherTabs DEF TabsStay
  <2> QED BY <2>1, <2>2
<1> QED BY <1>1, <1>2 DEF Moves, HoldersStay, CommitsStay, Writing

\* The four ways the directory changes.
FilesTyped == DOMAIN files' \subseteq FileIds /\ files' \in [DOMAIN files' -> File]

LEMMA Created ==
    ASSUME TypeOK, CreateFile
    PROVE  /\ FilesTyped /\ DOMAIN files' = DOMAIN files \cup {made.files + 1}
           /\ made.files + 1 \in FileIds /\ made' = [made EXCEPT !.files = made.files + 1]
           /\ made' \in [previews : 0..MaxPreviews, files : 0..MaxFiles, edits : 0..MaxEdits]
           /\ made'.previews = made.previews
<1> DEFINE n == made.files + 1
           f == [archive |-> NoArchive, old |-> FALSE]
<1>1. files \in [DOMAIN files -> File] /\ f \in File /\ DOMAIN files \subseteq FileIds
  BY Constants DEF TypeOK, File
<1>2. n \in FileIds /\ made' = [made EXCEPT !.files = n] /\ n \in 0..MaxFiles
  BY Constants DEF CreateFile, TypeOK, FileIds
<1>3. files' = With(files, n, f)
  BY DEF CreateFile
<1>4. made \in [previews : 0..MaxPreviews, files : 0..MaxFiles, edits : 0..MaxEdits]
  BY DEF TypeOK
<1>5. made' \in [previews : 0..MaxPreviews, files : 0..MaxFiles, edits : 0..MaxEdits]
      /\ made'.previews = made.previews
  <2> HIDE DEF n
  <2> QED BY <1>2, <1>4
<1>6. With(files, n, f) \in [DOMAIN files \cup {n} -> File]
  <2> HIDE DEF n, f
  <2> QED BY <1>1, WithFields
<1> HIDE DEF f
<1>7. DOMAIN files' = DOMAIN files \cup {n} /\ FilesTyped
  <2> HIDE DEF n
  <2> QED BY <1>1, <1>2, <1>3, <1>6 DEF FilesTyped
<1> QED BY <1>2, <1>5, <1>7

LEMMA WasFilled ==
    ASSUME TypeOK, NEW f \in DOMAIN files, NEW archive \in Archive, Filled(f, archive)
    PROVE  FilesTyped /\ DOMAIN files' = DOMAIN files
<1> DEFINE g == [files[f] EXCEPT !.archive = archive]
<1>1. files \in [DOMAIN files -> File] /\ DOMAIN files \subseteq FileIds
  BY DEF TypeOK
<1>2. g \in File
  BY <1>1 DEF File
<1>3. files' = [files EXCEPT ![f] = g]
  BY DEF Filled
<1> HIDE DEF g
<1> QED BY <1>1, <1>2, <1>3 DEF FilesTyped

LEMMA Dropped ==
    ASSUME TypeOK, NEW X, files' = Without(files, X)
    PROVE  FilesTyped /\ FilesStay
<1>1. files \in [DOMAIN files -> File] /\ DOMAIN files \subseteq FileIds
  BY DEF TypeOK
<1>2. Without(files, X) \in [DOMAIN files \ X -> File]
  BY <1>1, WithoutFields
<1> QED BY <1>1, <1>2 DEF FilesTyped, FilesStay

LEMMA WasKept == ASSUME TypeOK, files' = Kept PROVE FilesTyped /\ FilesStay
<1> DEFINE old == Outdated(files)
<1>1. files' = Without(files, old)
  BY DEF Kept
<1> HIDE DEF old
<1> QED BY <1>1, Dropped

\* Previews are dropped in the same way.
PreviewsTyped == DOMAIN previews' \subseteq PreviewIds /\ previews' \in [DOMAIN previews' -> Entry]

LEMMA Forgotten ==
    ASSUME TypeOK, NEW X
    PROVE  /\ DOMAIN Without(previews, X) = DOMAIN previews \ X
           /\ Without(previews, X) \in [DOMAIN previews \ X -> Entry] /\ DOMAIN previews \subseteq PreviewIds
           /\ \A i \in DOMAIN previews \ X : Without(previews, X)[i] = previews[i]
<1>1. previews \in [DOMAIN previews -> Entry] /\ DOMAIN previews \subseteq PreviewIds
  BY DEF TypeOK
<1>2. Without(previews, X) \in [DOMAIN previews \ X -> Entry]
      /\ \A z \in DOMAIN previews \ X : Without(previews, X)[z] = previews[z]
  BY <1>1 DEF Without, Restrict
<1> QED BY <1>1, <1>2

\* A wizard moves on.
LEMMA MovedOn ==
    ASSUME TypeOK, NEW t \in Tabs, NEW w \in Wizard, w.pc \notin Filling, Move(t, w)
    PROVE  tab' \in [Tabs -> Wizard] /\ TabsStay
BY OtherTabs DEF TabsStay

\* What the steps of the wizards do.
LEMMA UploadBeginsEffect ==
    ASSUME TypeOK, NEW t \in Tabs, UploadBegins(t)
    PROVE  /\ TypeOK' /\ tab'[t].pc = "uploading" /\ \A u \in Tabs \ {t} : tab'[u] = tab[u]
           /\ lock = Nobody /\ lock' = t /\ FilesStay /\ Cardinality(DOMAIN files') < MaxStaged
<1> DEFINE w == [NoTab EXCEPT !.pc = "uploading"]
<1>1. w \in Wizard /\ w.pc = "uploading"
  BY Constants DEF Wizard
<1>2. Move(t, w) /\ files' = Kept /\ lock = Nobody /\ lock' = t /\ Cardinality(DOMAIN Kept) < MaxStaged
  BY DEF UploadBegins, TakeDirectory
<1> HIDE DEF w
<1>3. tab' \in [Tabs -> Wizard] /\ tab'[t] = w /\ \A u \in Tabs \ {t} : tab'[u] = tab[u]
  BY <1>1, <1>2, OtherTabs
<1>4. FilesTyped /\ FilesStay
  BY <1>2, WasKept
<1> QED BY <1>1, <1>2, <1>3, <1>4 DEF UploadBegins, TypeOK, FilesTyped, agentVars

LEMMA UploadCreatesEffect ==
    ASSUME TypeOK, NEW t \in Tabs, UploadCreates(t)
    PROVE  /\ TypeOK' /\ tab[t].pc = "uploading" /\ tab'[t].pc = "receiving"
           /\ \A u \in Tabs \ {t} : tab'[u] = tab[u]
           /\ DOMAIN files' = DOMAIN files \cup {made.files + 1} /\ made'.previews = made.previews
<1> DEFINE n == made.files + 1
           w == [NoTab EXCEPT !.pc = "receiving", !.file = n]
<1>1. CreateFile /\ Move(t, w)
  BY DEF UploadCreates
<1>2. n \in FileIds /\ FilesTyped /\ DOMAIN files' = DOMAIN files \cup {n}
      /\ made' \in [previews : 0..MaxPreviews, files : 0..MaxFiles, edits : 0..MaxEdits]
      /\ made'.previews = made.previews
  BY <1>1, Created
<1> HIDE DEF n
<1>3. w \in Wizard /\ w.pc = "receiving"
  BY <1>2, Constants DEF Wizard
<1> HIDE DEF w
<1>4. tab' \in [Tabs -> Wizard] /\ tab'[t] = w /\ \A u \in Tabs \ {t} : tab'[u] = tab[u]
  BY <1>1, <1>3, OtherTabs
<1>5. tab[t].pc = "uploading" /\ UNCHANGED <<users, backups, previews, request, mutating, lock, history>>
  BY DEF UploadCreates, agentVars
<1> USE DEF n
<1> QED BY <1>2, <1>3, <1>4, <1>5 DEF TypeOK, FilesTyped

LEMMA UploadEndsEffect ==
    ASSUME TypeOK, NEW t \in Tabs, NEW archive \in Archives, UploadEnds(t, archive)
    PROVE  TypeOK' /\ tab[t].pc = "receiving" /\ TabsStay /\ tab'[t].pc = "uploaded"
           /\ DOMAIN files' = DOMAIN files
<1> DEFINE f == tab[t].file
           w == [tab[t] EXCEPT !.pc = "uploaded", !.ticket = TRUE]
<1>1. w \in Wizard /\ w.pc = "uploaded"
  BY Now DEF Wizard
<1>2. tab[t].pc = "receiving" /\ f \in DOMAIN files /\ Filled(f, archive) /\ Move(t, w) /\ lock' = Nobody
      /\ UNCHANGED <<users, backups, previews, request, mutating, made, history>>
  BY DEF UploadEnds, agentVars
<1> HIDE DEF w, f
<1>3. tab' \in [Tabs -> Wizard] /\ tab'[t] = w /\ TabsStay
  BY <1>1, <1>2, OtherTabs, MovedOn DEF Filling
<1>4. FilesTyped /\ DOMAIN files' = DOMAIN files
  BY <1>2, WasFilled, Constants
<1> QED BY <1>1, <1>2, <1>3, <1>4 DEF TypeOK, FilesTyped

LEMMA UploadFailsEffect ==
    ASSUME TypeOK, NEW t \in Tabs, UploadFails(t)
    PROVE  TypeOK' /\ tab[t].pc \in Filling /\ TabsStay /\ tab'[t].pc = "ready" /\ FilesStay
<1> DEFINE X == {tab[t].file}
<1>1. tab[t].pc \in Filling /\ Move(t, NoTab) /\ files' = Without(files, X) /\ lock' = Nobody
      /\ UNCHANGED <<users, backups, previews, request, mutating, made, history>>
  BY DEF UploadFails, agentVars, Filling
<1> HIDE DEF X
<1>2. tab' \in [Tabs -> Wizard] /\ tab'[t] = NoTab /\ TabsStay
  BY <1>1, Constants, OtherTabs, MovedOn DEF Filling
<1>3. FilesTyped /\ FilesStay
  BY <1>1, Dropped
<1> QED BY <1>1, <1>2, <1>3, Constants DEF TypeOK, FilesTyped

\* What the steps look at besides: who is busy.
BusyStays == mutating' = mutating /\ \A r \in Requests : request'[r].pc \in Busy => request[r].pc \in Busy
\* A step that touches nothing but its own record, which it does not use to change anything.
Quiet == HoldStays /\ PlansStay /\ BusyStays

LEMMA SendEffect ==
    ASSUME TypeOK, NEW t \in Tabs, NEW r \in Requests,
           NEW kind \in {"preview", "commit", "cancel", "export"}, NEW mode \in Modes,
           NEW waiting \in {"previewing", "committing", "cancelling", "exporting"},
           Send(t, r, kind, mode, waiting)
    PROVE  TypeOK' /\ Quiet
<1> DEFINE q == Asks(t, kind, mode, tab[t].file, tab[t].preview)
           w == [tab[t] EXCEPT !.pc = waiting]
<1>1. w \in Wizard /\ w.pc \notin Filling
  BY Now DEF Wizard, Filling
<1>2. q \in Request /\ q.pc = "waiting"
  <2>1. tab[t].file \in FileIds \cup {0} /\ tab[t].preview \in PreviewIds \cup {0}
    BY Now, WizardFields
  <2> QED BY <2>1, AsksFields
<1>3. Becomes(r, q) /\ Move(t, w)
      /\ UNCHANGED <<users, backups, previews, files, lock, mutating, made, history>>
  BY DEF Send, Asks
<1> HIDE DEF q, w
<1>4. tab' \in [Tabs -> Wizard] /\ TabsStay
  BY <1>1, <1>3, MovedOn
<1>5. Moves(r) /\ request'[r].pc = "waiting"
  BY <1>2, <1>3, Others
<1>6. TypeOK'
  BY <1>3, <1>4, <1>5 DEF TypeOK, Moves
<1>7. HoldersStay /\ CommitsStay /\ BusyStays
  BY <1>3, <1>5 DEF Moves, HoldersStay, CommitsStay, BusyStays, Writing, Busy
<1> QED
  BY <1>3, <1>4, <1>6, <1>7 DEF Quiet, HoldStays, PlansStay, FilesStay, EntriesStay, ShownStays

\* A wizard that only moves on.
LEMMA WizardQuiet ==
    ASSUME TypeOK, NEW t \in Tabs, NEW w \in Wizard, w.pc \notin Filling \/ w.pc = tab[t].pc, Move(t, w),
           FilesTyped, FilesStay, UNCHANGED <<users, backups, previews, request, mutating, lock, made, history>>
    PROVE  TypeOK' /\ Quiet
<1>1. tab' \in [Tabs -> Wizard] /\ TabsStay
  BY OtherTabs DEF TabsStay
<1> QED
  BY <1>1 DEF TypeOK, FilesTyped, Quiet, HoldStays, HoldersStay, CommitsStay, BusyStays, PlansStay,
     EntriesStay, ShownStays

LEMMA WizardEffect ==
    ASSUME TypeOK, NEW t \in Tabs,
           TicketRefused(t) \/ TicketExpires(t) \/ CancelTicket(t) \/ FinishCancel(t) \/ Reload(t)
    PROVE  TypeOK' /\ Quiet
<1>1. ASSUME files' = files PROVE FilesTyped /\ FilesStay
  BY <1>1 DEF TypeOK, FilesTyped, FilesStay
<1>2. NoTab \in Wizard /\ NoTab.pc \notin Filling
  BY Constants DEF Filling
<1>3. CASE TicketRefused(t)
  BY <1>1, <1>2, <1>3, WizardQuiet DEF TicketRefused, agentVars
<1>4. CASE Reload(t)
  BY <1>1, <1>2, <1>4, WizardQuiet DEF Reload, agentVars
<1>5. CASE TicketExpires(t)
  <2> DEFINE w == [tab[t] EXCEPT !.ticket = FALSE]
  <2>1. w \in Wizard /\ w.pc = tab[t].pc
    BY Now DEF Wizard
  <2>2. Move(t, w) /\ UNCHANGED <<users, backups, previews, request, mutating, files, lock, made, history>>
    BY <1>5 DEF TicketExpires, agentVars
  <2> HIDE DEF w
  <2> QED BY <1>1, <2>1, <2>2, WizardQuiet
<1>6. CASE CancelTicket(t)
  <2> DEFINE X == Removed(t)
  <2>1. files' = Without(files, X) /\ Move(t, NoTab)
        /\ UNCHANGED <<users, backups, previews, request, mutating, lock, made, history>>
    BY <1>6 DEF CancelTicket, agentVars
  <2> HIDE DEF X
  <2> QED BY <1>2, <2>1, Dropped, WizardQuiet
<1>7. CASE FinishCancel(t)
  <2> DEFINE X == Removed(t)
             w == IF tab[t].pc = "removing" /\ X # {} THEN NoTab ELSE [tab[t] EXCEPT !.pc = "pending"]
  <2>1. w \in Wizard /\ w.pc \notin Filling
    BY <1>2, Now DEF Wizard, Filling
  <2>2. files' = Without(files, X) /\ Move(t, w)
        /\ UNCHANGED <<users, backups, previews, request, mutating, lock, made, history>>
    BY <1>7 DEF FinishCancel, agentVars
  <2> HIDE DEF X, w
  <2> QED BY <2>1, <2>2, Dropped, WizardQuiet
<1> QED BY <1>3, <1>4, <1>5, <1>6, <1>7

\* Requests that nobody waits for any more go on.
LEMMA Unwaited ==
    ASSUME TypeOK, NEW X, request' = [r \in Requests |-> IF r \in X THEN Unheard(request[r]) ELSE request[r]]
    PROVE  /\ request' \in [Requests -> Request]
           /\ \A r \in Requests : /\ request'[r].pc = request[r].pc /\ request'[r].preview = request[r].preview
                                  /\ request'[r].entry = request[r].entry
BY Now, UnheardFields

LEMMA GiveUpEffect == ASSUME TypeOK, NEW t \in Tabs, GiveUp(t) PROVE TypeOK' /\ Quiet
<1> DEFINE X == {r \in Requests : request[r].tab = t}
           w == Told(t, FALSE, 0)
<1>1. request' = [r \in Requests |-> IF r \in X THEN Unheard(request[r]) ELSE request[r]]
  BY DEF GiveUp, Unheard
<1>2. Move(t, w) /\ UNCHANGED <<users, backups, previews, files, lock, mutating, made, history>>
  BY DEF GiveUp
<1>3. w \in Wizard /\ w.pc \notin Filling
  BY ToldFields
<1> HIDE DEF X, w
<1>4. /\ request' \in [Requests -> Request]
      /\ \A r \in Requests : /\ request'[r].pc = request[r].pc /\ request'[r].preview = request[r].preview
                             /\ request'[r].entry = request[r].entry
  BY <1>1, Unwaited
<1>5. tab' \in [Tabs -> Wizard] /\ TabsStay
  BY <1>2, <1>3, MovedOn
<1>6. TypeOK'
  BY <1>2, <1>4, <1>5 DEF TypeOK
<1>7. HoldersStay /\ CommitsStay /\ BusyStays
  BY <1>2, <1>4 DEF HoldersStay, CommitsStay, BusyStays
<1> QED
  BY <1>2, <1>5, <1>6, <1>7 DEF Quiet, HoldStays, PlansStay, FilesStay, EntriesStay, ShownStays

LEMMA PortalDiesEffect ==
    ASSUME TypeOK, PortalDies
    PROVE  /\ TypeOK' /\ PlansStay /\ BusyStays /\ HoldersStay /\ FilesStay
           /\ \A t \in Tabs : tab'[t].pc \notin Filling
           /\ lock' = IF lock \in Tabs THEN Nobody ELSE lock
<1> DEFINE X == {r \in Requests : request[r].pc # "free"}
<1>1. request' = [r \in Requests |-> IF r \in X THEN Unheard(request[r]) ELSE request[r]]
  BY DEF PortalDies, Unheard
<1>2. UNCHANGED <<users, backups, previews, files, mutating, made, history>>
      /\ lock' = IF lock \in Tabs THEN Nobody ELSE lock
  BY DEF PortalDies
<1> HIDE DEF X
<1>3. /\ request' \in [Requests -> Request]
      /\ \A r \in Requests : /\ request'[r].pc = request[r].pc /\ request'[r].preview = request[r].preview
                             /\ request'[r].entry = request[r].entry
  BY <1>1, Unwaited
<1>4. tab' \in [Tabs -> Wizard] /\ \A t \in Tabs : tab'[t].pc \notin Filling
  BY Now, Constants DEF PortalDies, Filling
<1>5. TypeOK'
  BY <1>2, <1>3, <1>4 DEF TypeOK
<1>6. HoldersStay /\ CommitsStay /\ BusyStays
  BY <1>2, <1>3 DEF HoldersStay, CommitsStay, BusyStays
<1> QED BY <1>2, <1>4, <1>5, <1>6 DEF PlansStay, FilesStay, EntriesStay, ShownStays

\* What the handlers do.
LEMMA BeginEffect ==
    ASSUME TypeOK, NEW r \in Requests, Begin(r)
    PROVE  TypeOK' /\ HoldStays /\ PlansStay /\ Moves(r) /\ mutating = Nobody /\ mutating' = r
<1> DEFINE pc == IF request[r].kind = "commit" THEN "take" ELSE request[r].kind
<1>1. Becomes(r, At(request[r], pc)) /\ mutating = Nobody /\ mutating' = r
      /\ UNCHANGED <<users, backups, previews, files, lock, tab, made, history>>
  BY DEF Begin, At
<1>2. pc \in {"preview", "take", "cancel", "export"}
  BY Now DEF Request
<1> HIDE DEF pc
<1>3. Moves(r) /\ request'[r].pc = pc
  BY <1>1, <1>2, AlmostAt DEF Pcs, Busy
<1>4. TypeOK'
  BY <1>1, <1>3 DEF TypeOK, Moves
<1>5. HoldersStay /\ CommitsStay
  BY <1>2, <1>3 DEF Moves, HoldersStay, CommitsStay, Writing
<1> QED
  BY <1>1, <1>3, <1>4, <1>5 DEF HoldStays, PlansStay, TabsStay, FilesStay, EntriesStay, ShownStays

\* A request ends, and the next one may begin.
Ended(r) ==
    /\ request[r].pc \in Busy /\ Moves(r) /\ request'[r].pc = "free" /\ mutating' = Nobody
    /\ TabsStay /\ HoldersStay /\ CommitsStay

LEMMA EndedEffect ==
    ASSUME TypeOK, NEW r \in Requests, NEW ok \in BOOLEAN, NEW id \in PreviewIds \cup {0},
           Answer(r, ok, id), request[r].pc \in Busy
    PROVE  Ended(r) /\ request' \in [Requests -> Request] /\ tab' \in [Tabs -> Wizard]
           /\ mutating' \in Requests \cup {Nobody}
BY Answered DEF Ended, Moves

LEMMA RefuseEffect ==
    ASSUME TypeOK, NEW r \in Requests, Refuse(r)
    PROVE  TypeOK' /\ HoldStays /\ PlansStay /\ Ended(r) /\ users' = users /\ history' = history
           /\ backups' \in {backups, BackedUp}
<1>1. Ended(r) /\ request' \in [Requests -> Request] /\ tab' \in [Tabs -> Wizard]
      /\ mutating' \in Requests \cup {Nobody}
  BY EndedEffect DEF Refuse, Busy
<1>2. backups' \in {backups, BackedUp} /\ UNCHANGED <<users, previews, files, lock, made, history>>
  BY DEF Refuse
<1>3. BackedUp \subseteq Contents
  BY DEF BackedUp, TypeOK
<1> QED
  BY <1>1, <1>2, <1>3 DEF TypeOK, Ended, HoldStays, PlansStay, FilesStay, EntriesStay, ShownStays

\* What a plan makes of a content is a content.
LEMMA PlannedType ==
    ASSUME NEW c \in Contents, NEW archive \in Archive, NEW mode
    PROVE  Planned(c, archive, mode) \in Contents
BY DEF Contents, Archive, Planned

LEMMA StagedType == ASSUME TypeOK, NEW r \in Requests PROVE Staged(r) \in Archive
BY Constants DEF Staged, TypeOK, File

LEMMA PreviewEffect ==
    ASSUME TypeOK, NEW r \in Requests, Preview(r)
    PROVE  \E X \in SUBSET PreviewIds, id \in PreviewIds, e \in Entry :
             /\ TypeOK' /\ Ended(r) /\ FilesStay /\ UNCHANGED <<users, backups, lock>>
             /\ id = made.previews + 1 /\ made'.previews = id
             /\ Cardinality(DOMAIN previews \ X) < Capacity
             /\ DOMAIN previews' = (DOMAIN previews \ X) \cup {id} /\ previews'[id] = e
             /\ \A i \in (DOMAIN previews \ X) \ {id} : previews'[i] = previews[i]
             /\ history'.committed = history.committed /\ history'.replaced = history.replaced
             /\ DOMAIN history'.shown = DOMAIN history.shown \cup {id}
             /\ history'.shown[id] = [base |-> e.base, result |-> Planned(e.base, e.archive, e.mode)]
             /\ \A i \in DOMAIN history.shown \ {id} : history'.shown[i] = history.shown[i]
<1> DEFINE X == Outdated(previews)
           kept == Without(previews, X)
           id == made.previews + 1
           e == NewEntry(r)
           s == [base |-> users, result |-> Planned(users, Staged(r), request[r].mode)]
           shown == With(history.shown, id, s)
<1>1. /\ request[r].pc = "preview" /\ Cardinality(DOMAIN kept) < Capacity /\ id <= MaxPreviews
      /\ previews' = With(kept, id, e) /\ made' = [made EXCEPT !.previews = id]
      /\ history' = [history EXCEPT !.shown = shown]
      /\ Answer(r, TRUE, id) /\ UNCHANGED <<users, backups, files, lock>>
  BY DEF Preview
<1>2. id \in PreviewIds /\ id \in 0..MaxPreviews
  BY <1>1, Constants DEF TypeOK, PreviewIds
<1>3. e \in Entry /\ s \in [base : Contents, result : Contents]
      /\ s = [base |-> e.base, result |-> Planned(e.base, e.archive, e.mode)]
  <2>1. request[r].owner \in Tabs \cup {Nobody} /\ request[r].mode \in Modes /\ users \in Contents
    BY Now, RequestFields DEF TypeOK
  <2>2. e = [owner |-> request[r].owner, archive |-> Staged(r), base |-> users,
             mode |-> request[r].mode, old |-> FALSE]
    BY DEF NewEntry
  <2>3. e \in Entry /\ e.base = users /\ e.archive = Staged(r) /\ e.mode = request[r].mode
    BY <2>1, <2>2, StagedType DEF Entry
  <2>4. Planned(users, Staged(r), request[r].mode) \in Contents
    BY <2>1, StagedType, PlannedType
  <2> HIDE DEF e
  <2> QED BY <2>1, <2>3, <2>4
<1>4. kept \in [DOMAIN previews \ X -> Entry] /\ DOMAIN previews \subseteq PreviewIds
      /\ \A i \in DOMAIN previews \ X : kept[i] = previews[i]
  BY Forgotten DEF TypeOK
<1>0. X \subseteq PreviewIds
  BY DEF TypeOK, Outdated
<1> HIDE DEF X, e
<1>5. With(kept, id, e) \in [(DOMAIN previews \ X) \cup {id} -> Entry]
      /\ With(kept, id, e)[id] = e /\ \A i \in (DOMAIN previews \ X) \ {id} : With(kept, id, e)[i] = kept[i]
  <2> DEFINE D == DOMAIN previews \ X
  <2>1. kept \in [D -> Entry]
    BY <1>4
  <2> HIDE DEF kept, id, D
  <2>2. /\ With(kept, id, e) \in [D \cup {id} -> Entry] /\ With(kept, id, e)[id] = e
        /\ \A i \in D \ {id} : With(kept, id, e)[i] = kept[i]
    BY <1>3, <2>1 DEF With
  <2> QED BY <2>2 DEF D
<1>6. history.shown \in [DOMAIN history.shown -> [base : Contents, result : Contents]]
      /\ DOMAIN history.shown \subseteq PreviewIds
  BY DEF TypeOK
<1> HIDE DEF s
<1>7. shown \in [DOMAIN history.shown \cup {id} -> [base : Contents, result : Contents]]
      /\ shown[id] = s /\ \A i \in DOMAIN history.shown \ {id} : shown[i] = history.shown[i]
  <2> DEFINE f == history.shown
             D == DOMAIN history.shown
             S == [base : Contents, result : Contents]
  <2>1. f \in [D -> S] /\ s \in S
    BY <1>3, <1>6
  <2> HIDE DEF id, f, D, S
  <2>2. /\ With(f, id, s) \in [D \cup {id} -> S] /\ With(f, id, s)[id] = s
        /\ \A i \in D \ {id} : With(f, id, s)[i] = f[i]
    BY <2>1 DEF With
  <2> QED BY <2>2 DEF f, D, S
<1>8. made' \in [previews : 0..MaxPreviews, files : 0..MaxFiles, edits : 0..MaxEdits] /\ made'.previews = id
  <2> HIDE DEF id
  <2> QED BY <1>1, <1>2 DEF TypeOK
<1>9. history'.shown = shown /\ history'.committed = history.committed /\ history'.replaced = history.replaced
  <2> HIDE DEF shown
  <2> QED BY <1>1 DEF TypeOK
<1>10. Ended(r) /\ request' \in [Requests -> Request] /\ tab' \in [Tabs -> Wizard]
      /\ mutating' \in Requests \cup {Nobody}
  BY <1>1, <1>2, EndedEffect DEF Busy
<1>11. Cardinality(DOMAIN previews \ X) < Capacity
  BY <1>1, <1>4
<1> HIDE DEF kept, id, shown
<1>12. TypeOK'
  BY <1>1, <1>2, <1>4, <1>5, <1>6, <1>7, <1>8, <1>9, <1>10 DEF TypeOK
<1>13. DOMAIN previews' = (DOMAIN previews \ X) \cup {id} /\ previews'[id] = e
       /\ \A i \in (DOMAIN previews \ X) \ {id} : previews'[i] = previews[i]
  <2>1. previews' = With(kept, id, e)
    BY <1>1
  <2> QED BY <2>1, <1>4, <1>5
<1>14. DOMAIN history'.shown = DOMAIN history.shown \cup {id} /\ history'.shown[id] = s
       /\ \A i \in DOMAIN history.shown \ {id} : history'.shown[i] = history.shown[i]
  BY <1>7, <1>9
<1>15. FilesStay
  BY <1>1 DEF FilesStay
<1>16. id = made.previews + 1
  BY DEF id
<1>17. X \in SUBSET PreviewIds /\ id \in PreviewIds /\ e \in Entry
  BY <1>0, <1>2, <1>3
<1> USE <1>17
<1> WITNESS X \in SUBSET PreviewIds, id \in PreviewIds, e \in Entry
<1> QED BY <1>1, <1>3, <1>8, <1>9, <1>10, <1>11, <1>12, <1>13, <1>14, <1>15, <1>16

\* A commit takes an entry, or ends.
Took(r) ==
    /\ mutating' = mutating /\ request[r].pc = "take" /\ Moves(r) /\ TabsStay /\ HoldersStay
    /\ request'[r].pc = "update" /\ request'[r].preview = request[r].preview
    /\ request[r].preview \in DOMAIN previews /\ request[r].preview \notin DOMAIN previews'
    /\ request'[r].entry = previews[request[r].preview]

LEMMA TakeEffect ==
    ASSUME TypeOK, NEW r \in Requests, Take(r)
    PROVE  /\ TypeOK' /\ EntriesStay /\ (Took(r) \/ Ended(r))
           /\ UNCHANGED <<users, backups, files, lock, made, history>>
<1> DEFINE X == Outdated(previews)
           kept == Without(previews, X)
           id == request[r].preview
           e == kept[id]
<1>1. request[r].pc = "take" /\ UNCHANGED <<users, backups, files, lock, made, history>>
  BY DEF Take
<1>2. DOMAIN kept \subseteq DOMAIN previews /\ kept \in [DOMAIN kept -> Entry]
      /\ DOMAIN kept \subseteq PreviewIds
      /\ \A i \in DOMAIN kept : kept[i] = previews[i]
  <2> HIDE DEF X
  <2> QED BY Forgotten
<1>3. CASE previews' = kept /\ Answer(r, FALSE, 0)
  <2> HIDE DEF X, kept
  <2>1. Ended(r) /\ request' \in [Requests -> Request] /\ tab' \in [Tabs -> Wizard]
        /\ mutating' \in Requests \cup {Nobody}
    BY <1>1, <1>3, EndedEffect DEF Busy
  <2>2. TypeOK'
    BY <1>1, <1>2, <1>3, <2>1 DEF TypeOK
  <2> QED BY <1>1, <1>2, <1>3, <2>1, <2>2 DEF EntriesStay
<1>4. CASE /\ id \in DOMAIN kept /\ previews' = Without(kept, {id}) /\ UNCHANGED <<tab, mutating>>
           /\ Becomes(r, Takes(request[r], e))
  <2>1. Without(kept, {id}) \in [DOMAIN kept \ {id} -> Entry]
        /\ \A i \in DOMAIN kept \ {id} : Without(kept, {id})[i] = kept[i]
    <3> HIDE DEF kept, id
    <3> QED BY <1>2 DEF Without, Restrict
  <2>2. DOMAIN previews' = DOMAIN kept \ {id} /\ previews' \in [DOMAIN previews' -> Entry]
        /\ \A i \in DOMAIN previews' : i \in DOMAIN previews /\ previews'[i] = previews[i]
    <3> HIDE DEF kept, id
    <3> QED BY <1>2, <1>4, <2>1
  <2>3. e \in Entry /\ e = previews[id]
    <3> HIDE DEF kept, id
    <3> QED BY <1>2, <1>4
  <2> HIDE DEF e
  <2>4. Takes(request[r], e) \in Request /\ Takes(request[r], e).pc = "update"
        /\ Takes(request[r], e).preview = id /\ Takes(request[r], e).entry = e
    BY <2>3, Now, TakesFields
  <2>5. Moves(r) /\ request'[r] = Takes(request[r], e)
    BY <1>4, <2>4, Others
  <2> HIDE DEF kept
  <2>6. TypeOK'
    BY <1>1, <1>2, <1>4, <2>2, <2>5 DEF TypeOK, Moves
  <2>7. Took(r)
    BY <1>1, <1>2, <1>4, <2>2, <2>3, <2>4, <2>5 DEF Took, TabsStay, HoldersStay, Moves, Writing
  <2> QED BY <1>1, <2>2, <2>6, <2>7 DEF EntriesStay
<1> QED BY <1>3, <1>4 DEF Take, Takes

\* A commit replaces users.json.
LEMMA UpdateEffect ==
    ASSUME TypeOK, NEW r \in Requests, Update(r)
    PROVE  /\ TypeOK' /\ HoldStays /\ request[r].pc = "update" /\ Moves(r) /\ request'[r].pc = "apply"
           /\ mutating' = mutating /\ previews' = previews /\ made' = made
           /\ users = request[r].entry.base
           /\ users' = Planned(users, request[r].entry.archive, request[r].entry.mode)
           /\ Plannable(users, request[r].entry.archive, request[r].entry.mode)
           /\ backups' = BackedUp /\ history'.shown = history.shown
           /\ history'.committed = history.committed \cup {request[r].preview}
           /\ history'.replaced = history.replaced \cup {users}
<1> DEFINE e == request[r].entry
           i == request[r].preview
<1>1. /\ request[r].pc = "update" /\ users = e.base /\ Plannable(users, e.archive, e.mode)
      /\ users' = Planned(users, e.archive, e.mode) /\ backups' = BackedUp
      /\ Becomes(r, At(request[r], "apply")) /\ UNCHANGED <<tab, mutating, previews, files, lock, made>>
  BY DEF Update, Step, At
<1>2. history' = [history EXCEPT !.committed = history.committed \cup {i}, !.replaced = history.replaced
        \cup {users}]
  BY DEF Update, Replaced
<1>3. history'.shown = history.shown /\ history'.committed = history.committed \cup {i}
      /\ history'.replaced = history.replaced \cup {users}
  <2> HIDE DEF i
  <2> QED BY <1>2 DEF TypeOK
<1>4. e \in Entry
  BY Now, RequestFields
<1>5. users' \in Contents /\ backups' \subseteq Contents /\ users \in Contents
  <2>1. users \in Contents /\ e.archive \in Archive
    BY <1>4, EntryFields DEF TypeOK
  <2> HIDE DEF e
  <2> QED BY <1>1, <2>1, PlannedType DEF BackedUp, TypeOK
<1>6. Moves(r) /\ request'[r].pc = "apply"
  BY <1>1, AlmostAt DEF Pcs, Busy
<1>7. i \in PreviewIds \cup {0}
  BY Now, RequestFields
<1> HIDE DEF i
<1>8. TypeOK'
  BY <1>1, <1>3, <1>5, <1>6, <1>7 DEF TypeOK, Moves
<1>9. HoldStays
  BY <1>1, <1>6 DEF HoldStays, TabsStay, HoldersStay, FilesStay, EntriesStay, Moves, Writing
<1> USE DEF i
<1> QED BY <1>1, <1>3, <1>6, <1>8, <1>9

\* A request that ends without a plan.
LEMMA LastEffect ==
    ASSUME TypeOK, NEW r \in Requests, NEW ok \in BOOLEAN, Apply(r, ok) \/ Cancel(r)
    PROVE  /\ TypeOK' /\ HoldStays /\ PlansStay /\ Ended(r) /\ UNCHANGED <<users, backups, history>>
<1>1. CASE Apply(r, ok)
  <2>1. Ended(r) /\ request' \in [Requests -> Request] /\ tab' \in [Tabs -> Wizard]
        /\ mutating' \in Requests \cup {Nobody}
    BY <1>1, EndedEffect DEF Apply, Busy
  <2>2. UNCHANGED <<users, backups, previews, files, lock, made, history>>
    BY <1>1 DEF Apply
  <2>3. TypeOK'
    BY <2>1, <2>2 DEF TypeOK
  <2> QED BY <2>1, <2>2, <2>3 DEF Ended, HoldStays, PlansStay, FilesStay, EntriesStay, ShownStays
<1>2. CASE Cancel(r)
  <2> DEFINE X == Outdated(previews)
             kept == Without(previews, X)
             id == request[r].preview
  <2>1. /\ request[r].pc = "cancel" /\ previews' = Without(kept, {id})
        /\ Answer(r, id \in DOMAIN kept, 0) /\ UNCHANGED <<users, backups, files, lock, made, history>>
    BY <1>2 DEF Cancel
  <2>2. Ended(r) /\ request' \in [Requests -> Request] /\ tab' \in [Tabs -> Wizard]
        /\ mutating' \in Requests \cup {Nobody}
    <3>1. Answer(r, TRUE, 0) \/ Answer(r, FALSE, 0)
      <4>1. CASE id \in DOMAIN kept
        BY <2>1, <4>1 DEF Answer, Told
      <4>2. CASE id \notin DOMAIN kept
        BY <2>1, <4>2 DEF Answer, Told
      <4> QED BY <4>1, <4>2
    <3> QED BY <2>1, <3>1, EndedEffect DEF Busy
  <2>3. DOMAIN kept \subseteq DOMAIN previews /\ kept \in [DOMAIN kept -> Entry]
        /\ DOMAIN kept \subseteq PreviewIds
        /\ \A i \in DOMAIN kept : kept[i] = previews[i]
    <3> HIDE DEF X
    <3> QED BY Forgotten
  <2>4. Without(kept, {id}) \in [DOMAIN kept \ {id} -> Entry]
        /\ \A i \in DOMAIN kept \ {id} : Without(kept, {id})[i] = kept[i]
    <3> HIDE DEF kept, id
    <3> QED BY <2>3 DEF Without, Restrict
  <2>5. PreviewsTyped /\ \A i \in DOMAIN previews' : i \in DOMAIN previews /\ previews'[i] = previews[i]
    <3> HIDE DEF kept, id
    <3> QED BY <2>1, <2>3, <2>4 DEF PreviewsTyped
  <2> HIDE DEF kept, id
  <2>6. TypeOK'
    BY <2>1, <2>2, <2>5 DEF TypeOK, PreviewsTyped
  <2> QED BY <2>1, <2>2, <2>5, <2>6 DEF Ended, HoldStays, PlansStay, FilesStay, EntriesStay, ShownStays
<1> QED BY <1>1, <1>2

\* An export puts an archive into the directory.
LEMMA ExportBeginsEffect ==
    ASSUME TypeOK, NEW r \in Requests, ExportBegins(r)
    PROVE  /\ TypeOK' /\ PlansStay /\ BusyStays /\ Moves(r) /\ request'[r].pc = "create" /\ tab' = tab
           /\ lock = Nobody /\ lock' = r /\ FilesStay /\ Cardinality(DOMAIN files') < MaxStaged
           /\ UNCHANGED <<users, backups, previews, history>>
<1> DEFINE q == Exports(request[r], Exported)
<1>1. /\ request[r].pc = "export" /\ Becomes(r, q) /\ files' = Kept /\ lock = Nobody /\ lock' = r
      /\ Cardinality(DOMAIN Kept) < MaxStaged
      /\ UNCHANGED <<users, backups, previews, tab, mutating, made, history>>
  BY DEF ExportBegins, Exports, TakeDirectory
<1>2. Exported \in Archive
  BY DEF Exported, Archive, TypeOK, Contents
<1>3. q \in Request /\ q.pc = "create"
  BY <1>2, Now, ExportsFields
<1> HIDE DEF q
<1>4. Moves(r) /\ request'[r] = q
  BY <1>1, <1>3, Others
<1>5. FilesTyped /\ FilesStay
  BY <1>1, WasKept
<1>6. TypeOK'
  BY <1>1, <1>4, <1>5 DEF TypeOK, Moves, FilesTyped
<1>7. PlansStay /\ BusyStays
  BY <1>1, <1>3, <1>4 DEF PlansStay, BusyStays, EntriesStay, CommitsStay, ShownStays, Moves, Busy
<1> QED BY <1>1, <1>3, <1>4, <1>5, <1>6, <1>7

LEMMA ExportCreatesEffect ==
    ASSUME TypeOK, NEW r \in Requests, ExportCreates(r)
    PROVE  /\ TypeOK' /\ PlansStay /\ BusyStays /\ Moves(r) /\ request[r].pc = "create"
           /\ request'[r].pc = "write" /\ tab' = tab /\ lock' = lock
           /\ DOMAIN files' = DOMAIN files \cup {made.files + 1}
           /\ UNCHANGED <<users, backups, previews, history>>
<1> DEFINE n == made.files + 1
           q == Creates(request[r], n)
<1>1. /\ request[r].pc = "create" /\ CreateFile /\ Becomes(r, q)
      /\ UNCHANGED <<users, backups, previews, lock, tab, mutating, history>>
  BY DEF ExportCreates, Creates
<1>2. n \in FileIds /\ FilesTyped /\ DOMAIN files' = DOMAIN files \cup {n}
      /\ made' \in [previews : 0..MaxPreviews, files : 0..MaxFiles, edits : 0..MaxEdits]
      /\ made'.previews = made.previews
  BY <1>1, Created
<1> HIDE DEF n
<1>3. q \in Request /\ q.pc = "write"
  BY <1>2, Now, CreatesFields
<1> HIDE DEF q
<1>4. Moves(r) /\ request'[r] = q
  BY <1>1, <1>3, Others
<1>5. TypeOK'
  BY <1>1, <1>2, <1>4 DEF TypeOK, Moves, FilesTyped
<1>6. PlansStay /\ BusyStays
  BY <1>1, <1>2, <1>3, <1>4 DEF PlansStay, BusyStays, EntriesStay, CommitsStay, ShownStays, Moves, Busy
<1> USE DEF n
<1> QED BY <1>1, <1>2, <1>3, <1>4, <1>5, <1>6

LEMMA ExportLastEffect ==
    ASSUME TypeOK, NEW r \in Requests, ExportEnds(r) \/ ExportFails(r)
    PROVE  /\ TypeOK' /\ PlansStay /\ Ended(r) /\ request[r].pc \in Writing /\ FilesStay
           /\ UNCHANGED <<users, backups, previews, history>>
<1>1. /\ request[r].pc \in Writing /\ lock' = Nobody /\ (Answer(r, TRUE, 0) \/ Answer(r, FALSE, 0))
      /\ UNCHANGED <<users, backups, previews, made, history>>
  BY DEF ExportEnds, ExportFails, Writing
<1>2. Ended(r) /\ request' \in [Requests -> Request] /\ tab' \in [Tabs -> Wizard]
      /\ mutating' \in Requests \cup {Nobody}
  BY <1>1, EndedEffect DEF Busy, Writing
<1>3. FilesTyped /\ FilesStay
  <2>1. CASE ExportEnds(r)
    <3> DEFINE f == request[r].file
               archive == request[r].entry.archive
    <3>1. f \in DOMAIN files /\ Filled(f, archive)
      BY <2>1 DEF ExportEnds
    <3>2. archive \in Archive
      BY Now, RequestFields, EntryFields
    <3> HIDE DEF f, archive
    <3> QED BY <3>1, <3>2, WasFilled DEF FilesStay
  <2>2. CASE ExportFails(r)
    <3> DEFINE X == {request[r].file}
    <3>1. files' = Without(files, X)
      BY <2>2 DEF ExportFails
    <3> HIDE DEF X
    <3> QED BY <3>1, Dropped
  <2> QED BY <2>1, <2>2
<1>4. TypeOK'
  BY <1>1, <1>2, <1>3 DEF TypeOK, FilesTyped
<1> QED BY <1>1, <1>2, <1>3, <1>4 DEF Ended, PlansStay, EntriesStay, ShownStays

\* Time passes.
LEMMA TimeEffect ==
    ASSUME TypeOK, (\E f \in FileIds : FileAges(f)) \/ Cleanup
                   \/ (\E i \in PreviewIds : PreviewExpires(i) \/ TimerFires(i))
    PROVE  TypeOK' /\ Quiet /\ UNCHANGED <<users, backups, history>>
<1>1. UNCHANGED <<users, backups, lock, tab, request, mutating, made, history>>
  BY DEF FileAges, Cleanup, PreviewExpires, TimerFires, agentVars
<1>2. FilesTyped /\ FilesStay
  <2>1. ASSUME NEW f \in FileIds, FileAges(f) PROVE FilesTyped /\ FilesStay
    <3> DEFINE g == [files[f] EXCEPT !.old = TRUE]
    <3>1. f \in DOMAIN files /\ files' = [files EXCEPT ![f] = g]
      BY <2>1 DEF FileAges
    <3>2. files \in [DOMAIN files -> File] /\ DOMAIN files \subseteq FileIds
      BY DEF TypeOK
    <3>3. g \in File
      BY <3>1, <3>2 DEF File
    <3> HIDE DEF g
    <3> QED BY <3>1, <3>2, <3>3 DEF FilesTyped, FilesStay
  <2>2. CASE Cleanup
    BY <2>2, WasKept DEF Cleanup
  <2>3. ASSUME NEW i \in PreviewIds, PreviewExpires(i) \/ TimerFires(i) PROVE FilesTyped /\ FilesStay
    BY <2>3 DEF PreviewExpires, TimerFires, TypeOK, FilesTyped, FilesStay
  <2> QED BY <2>1, <2>2, <2>3
<1>3. PreviewsTyped /\ EntriesStay
  <2>1. ASSUME NEW f \in FileIds, FileAges(f) PROVE PreviewsTyped /\ EntriesStay
    BY <2>1 DEF FileAges, TypeOK, PreviewsTyped, EntriesStay, agentVars
  <2>2. CASE Cleanup
    BY <2>2 DEF Cleanup, TypeOK, PreviewsTyped, EntriesStay, agentVars
  <2>3. ASSUME NEW i \in PreviewIds, PreviewExpires(i) PROVE PreviewsTyped /\ EntriesStay
    <3> DEFINE e == [previews[i] EXCEPT !.old = TRUE]
    <3>1. i \in DOMAIN previews /\ previews' = [previews EXCEPT ![i] = e]
      BY <2>3 DEF PreviewExpires
    <3>2. previews \in [DOMAIN previews -> Entry] /\ DOMAIN previews \subseteq PreviewIds
      BY DEF TypeOK
    <3>3. e \in Entry /\ e.base = previews[i].base /\ e.archive = previews[i].archive
          /\ e.mode = previews[i].mode
      BY <3>1, <3>2 DEF Entry
    <3> HIDE DEF e
    <3> QED BY <3>1, <3>2, <3>3 DEF PreviewsTyped, EntriesStay
  <2>4. ASSUME NEW i \in PreviewIds, TimerFires(i) PROVE PreviewsTyped /\ EntriesStay
    <3> DEFINE X == {i}
    <3>1. previews' = Without(previews, X)
      BY <2>4 DEF TimerFires
    <3> HIDE DEF X
    <3>2. DOMAIN previews' = DOMAIN previews \ X /\ PreviewsTyped
          /\ \A j \in DOMAIN previews' : previews'[j] = previews[j]
      BY <3>1, Forgotten, ZenonT(30) DEF PreviewsTyped
    <3> QED BY <3>2 DEF EntriesStay
  <2> QED BY <2>1, <2>2, <2>3, <2>4
<1>4. TypeOK'
  BY <1>1, <1>2, <1>3 DEF TypeOK, FilesTyped, PreviewsTyped
<1> QED
  BY <1>1, <1>2, <1>3, <1>4 DEF Quiet, HoldStays, PlansStay, BusyStays, TabsStay, HoldersStay, CommitsStay,
     ShownStays

\* The agent is restarted.
LEMMA AgentDiesEffect ==
    ASSUME TypeOK, AgentDies
    PROVE  /\ TypeOK' /\ PlansStay /\ TabsStay /\ FilesStay /\ \A r \in Requests : request'[r].pc = "free"
           /\ lock' = IF lock \in Requests THEN Nobody ELSE lock
           /\ UNCHANGED <<users, backups, history>> /\ DOMAIN previews' = {}
<1>1. /\ previews' = <<>> /\ mutating' = Nobody /\ request' = [r \in Requests |-> NoRequest]
      /\ lock' = IF lock \in Requests THEN Nobody ELSE lock
      /\ tab' = [t \in Tabs |-> IF tab[t].pc \in Waiting THEN Told(t, FALSE, 0) ELSE tab[t]]
      /\ UNCHANGED <<users, backups, files, made, history>>
  BY DEF AgentDies
<1>2. tab' \in [Tabs -> Wizard] /\ TabsStay
  <2>1. \A t \in Tabs : Told(t, FALSE, 0) \in Wizard /\ Told(t, FALSE, 0).pc \notin Filling
    BY ToldFields
  <2> QED BY <1>1, <2>1, Now DEF TabsStay
<1>3. request' \in [Requests -> Request] /\ \A r \in Requests : request'[r].pc = "free"
  BY <1>1, Constants
<1>4. DOMAIN previews' = {} /\ PreviewsTyped
  BY <1>1 DEF PreviewsTyped
<1>5. TypeOK'
  BY <1>1, <1>2, <1>3, <1>4 DEF TypeOK, PreviewsTyped
<1> QED
  BY <1>1, <1>2, <1>3, <1>4, <1>5 DEF PlansStay, FilesStay, EntriesStay, CommitsStay, ShownStays

\* Others change users.json.
LEMMA EditEffect ==
    ASSUME TypeOK, NEW p \in Persons, Edit(p)
    PROVE  TypeOK' /\ Quiet /\ UNCHANGED <<backups, history>> /\ Fit(users')
<1> DEFINE people == IF p \in users.people THEN users.people \ {p} ELSE users.people \cup {p}
<1>1. /\ users' = [users EXCEPT !.people = people] /\ made.edits < MaxEdits
      /\ made' = [made EXCEPT !.edits = made.edits + 1] /\ Fit(users')
      /\ UNCHANGED <<backups, previews, request, mutating, files, lock, tab, history>>
  BY DEF Edit, Fit, agentVars
<1>2. users' \in Contents
  <2>1. users \in Contents /\ people \in SUBSET Persons
    BY DEF TypeOK, Contents
  <2> HIDE DEF people
  <2> QED BY <1>1, <2>1 DEF Contents
<1>3. made' \in [previews : 0..MaxPreviews, files : 0..MaxFiles, edits : 0..MaxEdits]
      /\ made'.previews = made.previews
  BY <1>1, Constants DEF TypeOK
<1> HIDE DEF people
<1>4. TypeOK'
  BY <1>1, <1>2, <1>3 DEF TypeOK
<1> QED
  BY <1>1, <1>3, <1>4 DEF Quiet, HoldStays, PlansStay, BusyStays, TabsStay, HoldersStay, CommitsStay,
     ShownStays, FilesStay, EntriesStay

LEMMA RestoreBackupEffect ==
    ASSUME TypeOK, NEW c \in backups, RestoreBackup(c)
    PROVE  /\ TypeOK' /\ Quiet /\ users' = c /\ backups' = BackedUp
           /\ history'.replaced = history.replaced \cup {users}
<1>1. /\ users' = c /\ backups' = BackedUp /\ made.edits < MaxEdits
      /\ made' = [made EXCEPT !.edits = made.edits + 1]
      /\ UNCHANGED <<previews, request, mutating, files, lock, tab>>
      /\ history' = [history EXCEPT !.replaced = history.replaced \cup {users}]
  BY DEF RestoreBackup, agentVars
<1>2. users' \in Contents /\ users \in Contents /\ backups' \subseteq Contents
  BY <1>1 DEF TypeOK, BackedUp
<1>3. made' \in [previews : 0..MaxPreviews, files : 0..MaxFiles, edits : 0..MaxEdits]
      /\ made'.previews = made.previews
  BY <1>1, Constants DEF TypeOK
<1>4. history'.shown = history.shown /\ history'.committed = history.committed
      /\ history'.replaced = history.replaced \cup {users}
  BY <1>1 DEF TypeOK
<1>5. TypeOK'
  BY <1>1, <1>2, <1>3, <1>4 DEF TypeOK
<1> QED
  BY <1>1, <1>3, <1>4, <1>5 DEF Quiet, HoldStays, PlansStay, BusyStays, TabsStay, HoldersStay, CommitsStay,
     ShownStays, FilesStay, EntriesStay

\* A step that changes neither users.json nor anything of the others.
Still == Quiet /\ UNCHANGED <<users, backups, history>>

\* Steps of the operators' wizards, of time, and of nobody.
StillStep ==
    \/ UNCHANGED vars \/ Cleanup
    \/ (\E f \in FileIds : FileAges(f)) \/ (\E i \in PreviewIds : PreviewExpires(i) \/ TimerFires(i))
    \/ \E t \in Tabs :
        \/ \E r \in Requests : (\E mode \in Modes : AskPreview(t, r, mode))
                               \/ AskCommit(t, r) \/ AskCancel(t, r) \/ AskExport(t, r)
        \/ TicketRefused(t) \/ TicketExpires(t) \/ GiveUp(t) \/ CancelTicket(t) \/ FinishCancel(t) \/ Reload(t)

LEMMA StillSteps == ASSUME TypeOK, StillStep PROVE TypeOK' /\ Still
<1>1. CASE UNCHANGED vars
  BY <1>1 DEF vars, TypeOK, Still, Quiet, HoldStays, PlansStay, BusyStays, TabsStay, HoldersStay, FilesStay,
     EntriesStay, CommitsStay, ShownStays
<1>2. CASE \/ Cleanup \/ \E f \in FileIds : FileAges(f)
           \/ \E i \in PreviewIds : PreviewExpires(i) \/ TimerFires(i)
  BY <1>2, TimeEffect DEF Still
<1>3. ASSUME NEW t \in Tabs, NEW r \in Requests,
             (\E mode \in Modes : AskPreview(t, r, mode)) \/ AskCommit(t, r) \/ AskCancel(t, r) \/ AskExport(t, r)
      PROVE  TypeOK' /\ Still
  <2>1. "merge" \in Modes
    BY DEF Modes
  <2>2. PICK kind \in {"preview", "commit", "cancel", "export"}, mode \in Modes,
             waiting \in {"previewing", "committing", "cancelling", "exporting"} :
                 Send(t, r, kind, mode, waiting)
    BY <1>3, <2>1 DEF AskPreview, AskCommit, AskCancel, AskExport
  <2>3. UNCHANGED <<users, backups, history>>
    BY <2>2 DEF Send
  <2> QED BY <2>2, <2>3, SendEffect DEF Still
<1>4. ASSUME NEW t \in Tabs,
             TicketRefused(t) \/ TicketExpires(t) \/ CancelTicket(t) \/ FinishCancel(t) \/ Reload(t)
      PROVE  TypeOK' /\ Still
  <2>1. UNCHANGED <<users, backups, history>>
    BY <1>4 DEF TicketRefused, TicketExpires, CancelTicket, FinishCancel, Reload
  <2> QED BY <1>4, <2>1, WizardEffect DEF Still
<1>5. ASSUME NEW t \in Tabs, GiveUp(t) PROVE TypeOK' /\ Still
  <2>1. UNCHANGED <<users, backups, history>>
    BY <1>5 DEF GiveUp
  <2> QED BY <1>5, <2>1, GiveUpEffect DEF Still
<1> QED BY <1>1, <1>2, <1>3, <1>4, <1>5 DEF StillStep

\* The types hold at the start.
LEMMA TypeInit == Init => TypeOK
BY Constants DEF Init, TypeOK, Filling

\* Every step keeps the types.
LEMMA TypeStep == TypeOK /\ [Next]_vars => TypeOK'
<1> SUFFICES ASSUME TypeOK, [Next]_vars PROVE TypeOK'
  OBVIOUS
<1>1. CASE StillStep
  BY <1>1, StillSteps
<1>2. ASSUME NEW t \in Tabs, UploadBegins(t) PROVE TypeOK'
  BY <1>2, UploadBeginsEffect
<1>3. ASSUME NEW t \in Tabs, UploadCreates(t) PROVE TypeOK'
  BY <1>3, UploadCreatesEffect
<1>4. ASSUME NEW t \in Tabs, NEW archive \in Archives, UploadEnds(t, archive) PROVE TypeOK'
  BY <1>4, UploadEndsEffect
<1>5. ASSUME NEW t \in Tabs, UploadFails(t) PROVE TypeOK'
  BY <1>5, UploadFailsEffect
<1>6. ASSUME NEW r \in Requests, Begin(r) PROVE TypeOK'
  BY <1>6, BeginEffect
<1>7. ASSUME NEW r \in Requests, Refuse(r) PROVE TypeOK'
  BY <1>7, RefuseEffect
<1>8. ASSUME NEW r \in Requests, Preview(r) PROVE TypeOK'
  BY <1>8, PreviewEffect
<1>9. ASSUME NEW r \in Requests, Take(r) PROVE TypeOK'
  BY <1>9, TakeEffect
<1>10. ASSUME NEW r \in Requests, Update(r) PROVE TypeOK'
  BY <1>10, UpdateEffect
<1>11. ASSUME NEW r \in Requests, NEW ok \in BOOLEAN, Apply(r, ok) \/ Cancel(r) PROVE TypeOK'
  BY <1>11, LastEffect
<1>12. ASSUME NEW r \in Requests, ExportBegins(r) PROVE TypeOK'
  BY <1>12, ExportBeginsEffect
<1>13. ASSUME NEW r \in Requests, ExportCreates(r) PROVE TypeOK'
  BY <1>13, ExportCreatesEffect
<1>14. ASSUME NEW r \in Requests, ExportEnds(r) \/ ExportFails(r) PROVE TypeOK'
  BY <1>14, ExportLastEffect
<1>15. CASE PortalDies
  BY <1>15, PortalDiesEffect
<1>16. CASE AgentDies
  BY <1>16, AgentDiesEffect
<1>17. ASSUME NEW p \in Persons, Edit(p) PROVE TypeOK'
  BY <1>17, EditEffect
<1>18. ASSUME NEW c \in backups, RestoreBackup(c) PROVE TypeOK'
  BY <1>18, RestoreBackupEffect
<1> QED
  BY <1>1, <1>2, <1>3, <1>4, <1>5, <1>6, <1>7, <1>8, <1>9, <1>10, <1>11, <1>12, <1>13, <1>14, <1>15, <1>16,
     <1>17, <1>18
  DEF Next, StillStep, Upload, Serve

\* No request does anything at the start.
LEMMA ActiveInit == Init => ActiveInv
BY Constants DEF Init, ActiveInv, Busy

LEMMA ActiveStays == ASSUME ActiveInv, BusyStays PROVE ActiveInv'
BY DEF ActiveInv, BusyStays

LEMMA ActiveEnds == ASSUME ActiveInv, NEW r \in Requests, Ended(r) PROVE ActiveInv'
BY DEF ActiveInv, Ended, Moves, Busy

LEMMA ActiveGoes ==
    ASSUME ActiveInv, NEW r \in Requests, request[r].pc \in Busy, Moves(r), mutating' = mutating
    PROVE  ActiveInv'
BY DEF ActiveInv, Moves

\* Every step keeps one request at work.
LEMMA ActiveStep == TypeOK /\ ActiveInv /\ [Next]_vars => ActiveInv'
<1> SUFFICES ASSUME TypeOK, ActiveInv, [Next]_vars PROVE ActiveInv'
  OBVIOUS
<1>1. CASE StillStep
  BY <1>1, StillSteps, ActiveStays DEF Still, Quiet
<1>2. ASSUME NEW t \in Tabs, UploadBegins(t) PROVE ActiveInv'
  <2>1. UNCHANGED <<request, mutating>>
    BY <1>2 DEF UploadBegins, agentVars
  <2> QED BY <2>1 DEF ActiveInv
<1>3. ASSUME NEW t \in Tabs, UploadCreates(t) PROVE ActiveInv'
  <2>1. UNCHANGED <<request, mutating>>
    BY <1>3 DEF UploadCreates, agentVars
  <2> QED BY <2>1 DEF ActiveInv
<1>4. ASSUME NEW t \in Tabs, NEW archive \in Archives, UploadEnds(t, archive) PROVE ActiveInv'
  <2>1. UNCHANGED <<request, mutating>>
    BY <1>4 DEF UploadEnds, agentVars
  <2> QED BY <2>1 DEF ActiveInv
<1>5. ASSUME NEW t \in Tabs, UploadFails(t) PROVE ActiveInv'
  <2>1. UNCHANGED <<request, mutating>>
    BY <1>5 DEF UploadFails, agentVars
  <2> QED BY <2>1 DEF ActiveInv
<1>6. ASSUME NEW r \in Requests, Begin(r) PROVE ActiveInv'
  <2>1. Moves(r) /\ mutating = Nobody /\ mutating' = r
    BY <1>6, BeginEffect
  <2> QED BY <2>1, MigrationAssumption DEF MigrationAssumption, ActiveInv, Moves
<1>7. ASSUME NEW r \in Requests, Refuse(r) PROVE ActiveInv'
  BY <1>7, RefuseEffect, ActiveEnds
<1>8. ASSUME NEW r \in Requests, Preview(r) PROVE ActiveInv'
  BY <1>8, PreviewEffect, ActiveEnds
<1>9. ASSUME NEW r \in Requests, Take(r) PROVE ActiveInv'
  BY <1>9, TakeEffect, ActiveEnds, ActiveGoes DEF Took, Busy
<1>10. ASSUME NEW r \in Requests, Update(r) PROVE ActiveInv'
  BY <1>10, UpdateEffect, ActiveGoes DEF Busy
<1>11. ASSUME NEW r \in Requests, NEW ok \in BOOLEAN, Apply(r, ok) \/ Cancel(r) PROVE ActiveInv'
  BY <1>11, LastEffect, ActiveEnds
<1>12. ASSUME NEW r \in Requests, ExportBegins(r) PROVE ActiveInv'
  BY <1>12, ExportBeginsEffect, ActiveStays
<1>13. ASSUME NEW r \in Requests, ExportCreates(r) PROVE ActiveInv'
  BY <1>13, ExportCreatesEffect, ActiveStays
<1>14. ASSUME NEW r \in Requests, ExportEnds(r) \/ ExportFails(r) PROVE ActiveInv'
  BY <1>14, ExportLastEffect, ActiveEnds
<1>15. CASE PortalDies
  BY <1>15, PortalDiesEffect, ActiveStays
<1>16. CASE AgentDies
  BY <1>16, AgentDiesEffect DEF ActiveInv, Busy
<1>17. ASSUME NEW p \in Persons, Edit(p) PROVE ActiveInv'
  BY <1>17, EditEffect, ActiveStays DEF Quiet
<1>18. ASSUME NEW c \in backups, RestoreBackup(c) PROVE ActiveInv'
  BY <1>18, RestoreBackupEffect, ActiveStays DEF Quiet
<1> QED
  BY <1>1, <1>2, <1>3, <1>4, <1>5, <1>6, <1>7, <1>8, <1>9, <1>10, <1>11, <1>12, <1>13, <1>14, <1>15, <1>16,
     <1>17, <1>18
  DEF Next, StillStep, Upload, Serve

\* What a migration takes out of an archive is validated, and so is every edit; what is
\* restored was there before.
LEMMA ContentInit == Init => ContentInv
BY StartAssumption DEF StartAssumption, Init, ContentInv, Fit, ReplacedIsBackedUp

\* Every step keeps users apart and what it replaces.
LEMMA ContentStep == TypeOK /\ ContentInv /\ [Next]_vars => ContentInv'
<1> SUFFICES ASSUME TypeOK, ContentInv, [Next]_vars PROVE ContentInv'
  OBVIOUS
<1>1. CASE StillStep
  <2>1. UNCHANGED <<users, backups, history>>
    BY <1>1, StillSteps DEF Still
  <2> QED BY <2>1 DEF ContentInv, ReplacedIsBackedUp
<1>2. ASSUME NEW t \in Tabs, UploadBegins(t) PROVE ContentInv'
  <2>1. UNCHANGED <<users, backups, history>>
    BY <1>2 DEF UploadBegins, agentVars
  <2> QED BY <2>1 DEF ContentInv, ReplacedIsBackedUp
<1>3. ASSUME NEW t \in Tabs, UploadCreates(t) PROVE ContentInv'
  <2>1. UNCHANGED <<users, backups, history>>
    BY <1>3 DEF UploadCreates, agentVars
  <2> QED BY <2>1 DEF ContentInv, ReplacedIsBackedUp
<1>4. ASSUME NEW t \in Tabs, NEW archive \in Archives, UploadEnds(t, archive) PROVE ContentInv'
  <2>1. UNCHANGED <<users, backups, history>>
    BY <1>4 DEF UploadEnds, agentVars
  <2> QED BY <2>1 DEF ContentInv, ReplacedIsBackedUp
<1>5. ASSUME NEW t \in Tabs, UploadFails(t) PROVE ContentInv'
  <2>1. UNCHANGED <<users, backups, history>>
    BY <1>5 DEF UploadFails, agentVars
  <2> QED BY <2>1 DEF ContentInv, ReplacedIsBackedUp
<1>6. ASSUME NEW r \in Requests, Begin(r) PROVE ContentInv'
  <2>1. UNCHANGED <<users, backups, history>>
    BY <1>6 DEF Begin
  <2> QED BY <2>1 DEF ContentInv, ReplacedIsBackedUp
<1>7. ASSUME NEW r \in Requests, Refuse(r) PROVE ContentInv'
  <2>1. users' = users /\ history' = history /\ backups' \in {backups, backups \cup {users}}
    BY <1>7, RefuseEffect DEF BackedUp
  <2> QED BY <2>1 DEF ContentInv, ReplacedIsBackedUp
<1>8. ASSUME NEW r \in Requests, Preview(r) PROVE ContentInv'
  <2>1. UNCHANGED <<users, backups>> /\ history'.replaced = history.replaced
    BY <1>8, PreviewEffect
  <2> QED BY <2>1 DEF ContentInv, ReplacedIsBackedUp
<1>9. ASSUME NEW r \in Requests, Take(r) PROVE ContentInv'
  <2>1. UNCHANGED <<users, backups, history>>
    BY <1>9, TakeEffect
  <2> QED BY <2>1 DEF ContentInv, ReplacedIsBackedUp
<1>10. ASSUME NEW r \in Requests, Update(r) PROVE ContentInv'
  <2>1. Fit(users')
    BY <1>10, UpdateEffect DEF Plannable, Fit
  <2>2. backups' = backups \cup {users} /\ history'.replaced = history.replaced \cup {users}
    BY <1>10, UpdateEffect DEF BackedUp
  <2> QED BY <2>1, <2>2 DEF ContentInv, ReplacedIsBackedUp
<1>11. ASSUME NEW r \in Requests, NEW ok \in BOOLEAN, Apply(r, ok) \/ Cancel(r) PROVE ContentInv'
  <2>1. UNCHANGED <<users, backups, history>>
    BY <1>11, LastEffect
  <2> QED BY <2>1 DEF ContentInv, ReplacedIsBackedUp
<1>12. ASSUME NEW r \in Requests, ExportBegins(r) PROVE ContentInv'
  <2>1. UNCHANGED <<users, backups, history>>
    BY <1>12, ExportBeginsEffect
  <2> QED BY <2>1 DEF ContentInv, ReplacedIsBackedUp
<1>13. ASSUME NEW r \in Requests, ExportCreates(r) PROVE ContentInv'
  <2>1. UNCHANGED <<users, backups, history>>
    BY <1>13, ExportCreatesEffect
  <2> QED BY <2>1 DEF ContentInv, ReplacedIsBackedUp
<1>14. ASSUME NEW r \in Requests, ExportEnds(r) \/ ExportFails(r) PROVE ContentInv'
  <2>1. UNCHANGED <<users, backups, history>>
    BY <1>14, ExportLastEffect
  <2> QED BY <2>1 DEF ContentInv, ReplacedIsBackedUp
<1>15. CASE PortalDies
  <2>1. UNCHANGED <<users, backups, history>>
    BY <1>15 DEF PortalDies
  <2> QED BY <2>1 DEF ContentInv, ReplacedIsBackedUp
<1>16. CASE AgentDies
  <2>1. UNCHANGED <<users, backups, history>>
    BY <1>16, AgentDiesEffect
  <2> QED BY <2>1 DEF ContentInv, ReplacedIsBackedUp
<1>17. ASSUME NEW p \in Persons, Edit(p) PROVE ContentInv'
  <2>1. Fit(users') /\ backups' = backups /\ history' = history
    BY <1>17, EditEffect
  <2> QED BY <2>1 DEF ContentInv, ReplacedIsBackedUp
<1>18. ASSUME NEW c \in backups, RestoreBackup(c) PROVE ContentInv'
  <2>1. users' = c /\ backups' = backups \cup {users} /\ history'.replaced = history.replaced \cup {users}
    BY <1>18, RestoreBackupEffect DEF BackedUp
  <2> QED BY <2>1 DEF ContentInv, ReplacedIsBackedUp
<1> QED
  BY <1>1, <1>2, <1>3, <1>4, <1>5, <1>6, <1>7, <1>8, <1>9, <1>10, <1>11, <1>12, <1>13, <1>14, <1>15, <1>16,
     <1>17, <1>18
  DEF Next, StillStep, Upload, Serve

\* What has been shown stays what was shown.
LEMMA ShownInit == Init => ShownInv
BY Constants DEF Init, ShownInv

\* An entry that shows what it did.
LEMMA StillShows ==
    ASSUME NEW i, NEW e, Shows(i, e), ShownStays
    PROVE  /\ i \in DOMAIN history'.shown \ history'.committed /\ e.base = history'.shown[i].base
           /\ Planned(e.base, e.archive, e.mode) = history'.shown[i].result
BY DEF ShownStays, Shows

LEMMA PlansKept == ASSUME ShownInv, PlansStay PROVE ShownInv'
<1>1. history'.committed \subseteq DOMAIN history'.shown /\ DOMAIN history'.shown \subseteq 1..made'.previews
  BY DEF ShownInv, PlansStay, ShownStays
<1>2. ASSUME NEW i \in DOMAIN previews' PROVE Shows(i, previews[i])' /\ i \in DOMAIN previews
  <2>1. i \in DOMAIN previews /\ previews'[i].base = previews[i].base
        /\ previews'[i].archive = previews[i].archive /\ previews'[i].mode = previews[i].mode
    BY DEF PlansStay, EntriesStay
  <2>2. Shows(i, previews[i]) /\ ShownStays
    BY <2>1 DEF ShownInv, PlansStay
  <2> QED BY <2>1, <2>2, StillShows DEF Shows
<1>3. ASSUME NEW r \in Requests, request'[r].pc = "update"
      PROVE  Shows(request[r].preview, request[r].entry)' /\ request'[r].preview \notin DOMAIN previews'
  <2>1. request[r].pc = "update" /\ request'[r].preview = request[r].preview
        /\ request'[r].entry = request[r].entry
    BY <1>3 DEF PlansStay, CommitsStay
  <2>2. Shows(request[r].preview, request[r].entry) /\ request[r].preview \notin DOMAIN previews /\ ShownStays
    BY <2>1 DEF ShownInv, PlansStay
  <2>3. request[r].preview \notin DOMAIN previews'
    BY <2>2, <1>2
  <2> QED BY <2>1, <2>2, <2>3, StillShows DEF Shows
<1> QED BY <1>1, <1>2, <1>3 DEF ShownInv

\* Every step keeps what was shown and who takes it.
LEMMA ShownStep == TypeOK /\ ActiveInv /\ ShownInv /\ [Next]_vars => ShownInv'
<1> SUFFICES ASSUME TypeOK, ActiveInv, ShownInv, [Next]_vars PROVE ShownInv'
  OBVIOUS
<1>1. CASE StillStep
  BY <1>1, StillSteps, PlansKept DEF Still, Quiet
<1>2. ASSUME NEW t \in Tabs, UploadBegins(t) PROVE ShownInv'
  <2>1. PlansStay
    BY <1>2, UploadBeginsEffect DEF UploadBegins, agentVars, PlansStay, EntriesStay, CommitsStay, ShownStays
  <2> QED BY <2>1, PlansKept
<1>3. ASSUME NEW t \in Tabs, UploadCreates(t) PROVE ShownInv'
  <2>1. PlansStay
    BY <1>3, UploadCreatesEffect DEF UploadCreates, agentVars, PlansStay, EntriesStay, CommitsStay, ShownStays
  <2> QED BY <2>1, PlansKept
<1>4. ASSUME NEW t \in Tabs, NEW archive \in Archives, UploadEnds(t, archive) PROVE ShownInv'
  <2>1. PlansStay
    BY <1>4, UploadEndsEffect DEF UploadEnds, agentVars, PlansStay, EntriesStay, CommitsStay, ShownStays
  <2> QED BY <2>1, PlansKept
<1>5. ASSUME NEW t \in Tabs, UploadFails(t) PROVE ShownInv'
  <2>1. PlansStay
    BY <1>5, UploadFailsEffect DEF UploadFails, agentVars, PlansStay, EntriesStay, CommitsStay, ShownStays
  <2> QED BY <2>1, PlansKept
<1>6. ASSUME NEW r \in Requests, Begin(r) PROVE ShownInv'
  BY <1>6, BeginEffect, PlansKept
<1>7. ASSUME NEW r \in Requests, Refuse(r) PROVE ShownInv'
  BY <1>7, RefuseEffect, PlansKept
<1>8. ASSUME NEW r \in Requests, Preview(r) PROVE ShownInv'
  <2>1. PICK X \in SUBSET PreviewIds, id \in PreviewIds, e \in Entry :
          /\ TypeOK' /\ Ended(r) /\ FilesStay /\ UNCHANGED <<users, backups, lock>>
          /\ id = made.previews + 1 /\ made'.previews = id
          /\ Cardinality(DOMAIN previews \ X) < Capacity
          /\ DOMAIN previews' = (DOMAIN previews \ X) \cup {id} /\ previews'[id] = e
          /\ \A i \in (DOMAIN previews \ X) \ {id} : previews'[i] = previews[i]
          /\ history'.committed = history.committed /\ history'.replaced = history.replaced
          /\ DOMAIN history'.shown = DOMAIN history.shown \cup {id}
          /\ history'.shown[id] = [base |-> e.base, result |-> Planned(e.base, e.archive, e.mode)]
          /\ \A i \in DOMAIN history.shown \ {id} : history'.shown[i] = history.shown[i]
    BY <1>8, PreviewEffect
  <2>2. made.previews \in Nat /\ id \notin DOMAIN history.shown /\ id \notin history.committed
    <3>1. made.previews \in Nat
      BY DEF TypeOK
    <3> QED BY <2>1, <3>1 DEF ShownInv
  <2>3. ASSUME NEW i, NEW d, Shows(i, d) PROVE Shows(i, d)' /\ i # id
    BY <2>1, <2>2, <2>3 DEF Shows
  <2>4. Shows(id, e)'
    BY <2>1, <2>2 DEF Shows
  <2>5. ASSUME NEW i \in DOMAIN previews' PROVE Shows(i, previews[i])'
    BY <2>1, <2>3, <2>4 DEF ShownInv, Shows
  <2>6. ASSUME NEW q \in Requests PROVE request'[q].pc # "update"
    BY <2>1 DEF Ended, ActiveInv, Moves, Busy
  <2>7. history'.committed \subseteq DOMAIN history'.shown /\ DOMAIN history'.shown \subseteq 1..made'.previews
    BY <2>1, <2>2 DEF ShownInv
  <2> QED BY <2>5, <2>6, <2>7 DEF ShownInv
<1>9. ASSUME NEW r \in Requests, Take(r) PROVE ShownInv'
  <2>1. EntriesStay /\ ShownStays /\ (Took(r) \/ Ended(r))
    BY <1>9, TakeEffect DEF ShownStays
  <2>2. CASE Ended(r)
    BY <2>1, <2>2, PlansKept DEF Ended, PlansStay
  <2>3. CASE Took(r)
    <3> DEFINE i == request[r].preview
               e == previews[i]
    <3>1. i \in DOMAIN previews /\ i \notin DOMAIN previews' /\ request'[r].preview = i /\ request'[r].entry = e
          /\ request'[r].pc = "update"
      BY <2>3 DEF Took
    <3>2. Shows(i, e)
      BY <3>1 DEF ShownInv
    <3> HIDE DEF i, e
    <3>3. Shows(request[r].preview, request[r].entry)' /\ request'[r].preview \notin DOMAIN previews'
      BY <2>1, <3>1, <3>2, StillShows DEF Shows
    <3>4. ASSUME NEW q \in Requests \ {r} PROVE request'[q].pc # "update"
      BY <2>3 DEF Took, ActiveInv, Moves, Busy
    <3>5. ASSUME NEW j \in DOMAIN previews' PROVE Shows(j, previews[j])'
      <4>1. j \in DOMAIN previews /\ previews'[j].base = previews[j].base
            /\ previews'[j].archive = previews[j].archive /\ previews'[j].mode = previews[j].mode
        BY <2>1 DEF EntriesStay
      <4>2. Shows(j, previews[j])
        BY <4>1 DEF ShownInv
      <4> QED BY <2>1, <4>1, <4>2, StillShows DEF Shows
    <3>6. history'.committed \subseteq DOMAIN history'.shown
          /\ DOMAIN history'.shown \subseteq 1..made'.previews
      BY <2>1 DEF ShownInv, ShownStays
    <3> QED BY <3>3, <3>4, <3>5, <3>6 DEF ShownInv
  <2> QED BY <2>1, <2>2, <2>3
<1>10. ASSUME NEW r \in Requests, Update(r) PROVE ShownInv'
  <2> DEFINE i == request[r].preview
  <2>1. /\ request[r].pc = "update" /\ Moves(r) /\ request'[r].pc = "apply" /\ previews' = previews
        /\ made' = made
        /\ history'.shown = history.shown /\ history'.committed = history.committed \cup {i}
    BY <1>10, UpdateEffect
  <2>2. i \in DOMAIN history.shown /\ i \notin DOMAIN previews
    BY <2>1 DEF ShownInv, Shows
  <2>3. ASSUME NEW j \in DOMAIN previews' PROVE Shows(j, previews[j])'
    BY <2>1, <2>2 DEF ShownInv, Shows
  <2>4. ASSUME NEW q \in Requests PROVE request'[q].pc # "update"
    BY <2>1 DEF ActiveInv, Moves, Busy
  <2>5. history'.committed \subseteq DOMAIN history'.shown /\ DOMAIN history'.shown \subseteq 1..made'.previews
    BY <2>1, <2>2 DEF ShownInv
  <2> QED BY <2>3, <2>4, <2>5 DEF ShownInv
<1>11. ASSUME NEW r \in Requests, NEW ok \in BOOLEAN, Apply(r, ok) \/ Cancel(r) PROVE ShownInv'
  BY <1>11, LastEffect, PlansKept
<1>12. ASSUME NEW r \in Requests, ExportBegins(r) PROVE ShownInv'
  BY <1>12, ExportBeginsEffect, PlansKept
<1>13. ASSUME NEW r \in Requests, ExportCreates(r) PROVE ShownInv'
  BY <1>13, ExportCreatesEffect, PlansKept
<1>14. ASSUME NEW r \in Requests, ExportEnds(r) \/ ExportFails(r) PROVE ShownInv'
  BY <1>14, ExportLastEffect, PlansKept
<1>15. CASE PortalDies
  BY <1>15, PortalDiesEffect, PlansKept
<1>16. CASE AgentDies
  BY <1>16, AgentDiesEffect, PlansKept
<1>17. ASSUME NEW p \in Persons, Edit(p) PROVE ShownInv'
  BY <1>17, EditEffect, PlansKept DEF Quiet
<1>18. ASSUME NEW c \in backups, RestoreBackup(c) PROVE ShownInv'
  BY <1>18, RestoreBackupEffect, PlansKept DEF Quiet
<1> QED
  BY <1>1, <1>2, <1>3, <1>4, <1>5, <1>6, <1>7, <1>8, <1>9, <1>10, <1>11, <1>12, <1>13, <1>14, <1>15, <1>16,
     <1>17, <1>18
  DEF Next, StillStep, Upload, Serve

\* The flock is free at the start, and the directory empty.
LEMMA Finite ==
    ASSUME TypeOK
    PROVE  /\ IsFiniteSet(DOMAIN files) /\ IsFiniteSet(DOMAIN previews)
           /\ Cardinality(DOMAIN files) \in Nat /\ Cardinality(DOMAIN previews) \in Nat
<1>1. IsFiniteSet(FileIds) /\ IsFiniteSet(PreviewIds)
  BY Constants, FS_Interval DEF FileIds, PreviewIds
<1>2. IsFiniteSet(DOMAIN files) /\ IsFiniteSet(DOMAIN previews)
  BY <1>1, FS_Subset DEF TypeOK
<1> QED BY <1>2, FS_CardinalityType

LEMMA RoomInit == Init => LockInv /\ RoomInv
<1> SUFFICES ASSUME Init PROVE LockInv /\ RoomInv
  OBVIOUS
<1>1. LockInv /\ ~ Creating
  BY Constants DEF Init, LockInv, Creating, Filling, Writing
<1>2. DOMAIN files = {} /\ DOMAIN previews = {}
  BY DEF Init
<1>3. StagedIsBounded
  BY <1>2, FS_EmptySet, Constants DEF StagedIsBounded
<1> QED BY <1>1, <1>3 DEF RoomInv

\* Fewer files and previews are no more than there were.
LEMMA NoMoreFiles ==
    ASSUME TypeOK, FilesStay
    PROVE  Cardinality(DOMAIN files') <= Cardinality(DOMAIN files) /\ Cardinality(DOMAIN files') \in Nat
<1>1. IsFiniteSet(DOMAIN files) /\ DOMAIN files' \subseteq DOMAIN files
  BY Finite DEF FilesStay
<1>2. IsFiniteSet(DOMAIN files') /\ Cardinality(DOMAIN files') <= Cardinality(DOMAIN files)
  BY <1>1, FS_Subset
<1> QED BY <1>2, FS_CardinalityType

LEMMA NoMorePreviews ==
    ASSUME TypeOK, EntriesStay
    PROVE  Cardinality(DOMAIN previews') <= Cardinality(DOMAIN previews)
           /\ Cardinality(DOMAIN previews') \in Nat
<1>1. IsFiniteSet(DOMAIN previews) /\ DOMAIN previews' \subseteq DOMAIN previews
  BY Finite DEF EntriesStay
<1>2. IsFiniteSet(DOMAIN previews') /\ Cardinality(DOMAIN previews') <= Cardinality(DOMAIN previews)
  BY <1>1, FS_Subset
<1> QED BY <1>2, FS_CardinalityType

LEMMA StagedStays ==
    ASSUME TypeOK, RoomInv, FilesStay, EntriesStay
    PROVE  /\ StagedIsBounded'
           /\ Cardinality(DOMAIN files) < MaxStaged => Cardinality(DOMAIN files') < MaxStaged
BY Finite, NoMoreFiles, NoMorePreviews, Constants DEF RoomInv, StagedIsBounded

\* A file more.
LEMMA OneMore ==
    ASSUME TypeOK, NEW n, DOMAIN files' = DOMAIN files \cup {n}, Cardinality(DOMAIN files) < MaxStaged
    PROVE  Cardinality(DOMAIN files') <= MaxStaged
<1> DEFINE D == DOMAIN files
<1>1. IsFiniteSet(D) /\ Cardinality(D) \in Nat
  BY Finite
<1> HIDE DEF D
<1>2. Cardinality(D \cup {n}) = (IF n \in D THEN Cardinality(D) ELSE Cardinality(D) + 1)
  BY <1>1, FS_AddElement
<1>3. DOMAIN files' = D \cup {n} /\ Cardinality(D) < MaxStaged
  BY DEF D
<1> QED BY <1>1, <1>2, <1>3, Constants

\* Whoever holds the flock is alone.
LEMMA TabAlone ==
    ASSUME LockInv, NEW t \in Tabs, tab[t].pc \in Filling \/ lock = Nobody
    PROVE  /\ \A u \in Tabs \ {t} : tab[u].pc \notin Filling
           /\ \A r \in Requests : request[r].pc \notin Writing
BY MigrationAssumption DEF MigrationAssumption, LockInv

LEMMA RequestAlone ==
    ASSUME LockInv, NEW r \in Requests, request[r].pc \in Writing \/ lock = Nobody
    PROVE  /\ \A u \in Tabs : tab[u].pc \notin Filling
           /\ \A q \in Requests \ {r} : request[q].pc \notin Writing
BY MigrationAssumption DEF MigrationAssumption, LockInv

LEMMA HoldKept == ASSUME TypeOK, LockInv, RoomInv, HoldStays PROVE LockInv' /\ RoomInv'
<1>1. LockInv'
  BY DEF HoldStays, TabsStay, HoldersStay, LockInv
<1>2. Creating' => Creating
  BY DEF HoldStays, TabsStay, HoldersStay, Creating, Filling, Writing
<1> QED BY <1>1, <1>2, StagedStays DEF HoldStays, RoomInv

\* Every step keeps the flock and the room it is for.
LEMMA RoomStep == TypeOK /\ LockInv /\ RoomInv /\ [Next]_vars => (LockInv /\ RoomInv)'
<1> SUFFICES ASSUME TypeOK, LockInv, RoomInv, [Next]_vars PROVE (LockInv /\ RoomInv)'
  OBVIOUS
<1>1. CASE StillStep
  BY <1>1, StillSteps, HoldKept DEF Still, Quiet
<1>2. ASSUME NEW t \in Tabs, UploadBegins(t) PROVE (LockInv /\ RoomInv)'
  <2>1. /\ tab'[t].pc = "uploading" /\ (\A u \in Tabs \ {t} : tab'[u] = tab[u]) /\ lock = Nobody /\ lock' = t
        /\ FilesStay /\ Cardinality(DOMAIN files') < MaxStaged /\ UNCHANGED <<request, previews>>
    BY <1>2, UploadBeginsEffect DEF UploadBegins, agentVars
  <2>2. (\A u \in Tabs \ {t} : tab'[u].pc \notin Filling) /\ (\A r \in Requests : request'[r].pc \notin Writing)
    BY <2>1, TabAlone
  <2>3. LockInv'
    BY <2>1, <2>2 DEF LockInv
  <2>4. EntriesStay
    BY <2>1 DEF EntriesStay
  <2> QED BY <2>1, <2>3, <2>4, StagedStays DEF RoomInv
<1>3. ASSUME NEW t \in Tabs, UploadCreates(t) PROVE (LockInv /\ RoomInv)'
  <2>1. /\ tab[t].pc = "uploading" /\ tab'[t].pc = "receiving" /\ (\A u \in Tabs \ {t} : tab'[u] = tab[u])
        /\ DOMAIN files' = DOMAIN files \cup {made.files + 1} /\ UNCHANGED <<request, previews, lock>>
    BY <1>3, UploadCreatesEffect DEF UploadCreates, agentVars
  <2>2. (\A u \in Tabs \ {t} : tab'[u].pc \notin Filling) /\ (\A r \in Requests : request'[r].pc \notin Writing)
    BY <2>1, TabAlone DEF Filling
  <2>3. LockInv' /\ ~ Creating'
    BY <2>1, <2>2 DEF LockInv, Creating, Filling, Writing
  <2>4. Cardinality(DOMAIN files) < MaxStaged /\ Cardinality(DOMAIN previews) <= Capacity
    BY <2>1 DEF RoomInv, Creating, StagedIsBounded
  <2>5. Cardinality(DOMAIN files') <= MaxStaged
    BY <2>1, <2>4, OneMore
  <2> QED BY <2>1, <2>3, <2>4, <2>5 DEF RoomInv, StagedIsBounded
<1>4. ASSUME NEW t \in Tabs, NEW archive \in Archives, UploadEnds(t, archive) PROVE (LockInv /\ RoomInv)'
  <2>1. /\ tab[t].pc \in Filling /\ TabsStay /\ tab'[t].pc \notin Filling /\ FilesStay
        /\ UNCHANGED <<request, previews>>
    BY <1>4, UploadEndsEffect DEF UploadEnds, Filling, FilesStay, agentVars
  <2>2. (\A u \in Tabs : tab'[u].pc \notin Filling) /\ (\A r \in Requests : request'[r].pc \notin Writing)
    BY <2>1, TabAlone DEF TabsStay
  <2>3. LockInv' /\ ~ Creating'
    BY <2>2 DEF LockInv, Creating, Filling, Writing
  <2>4. EntriesStay
    BY <2>1 DEF EntriesStay
  <2> QED BY <2>1, <2>3, <2>4, StagedStays DEF RoomInv
<1>5. ASSUME NEW t \in Tabs, UploadFails(t) PROVE (LockInv /\ RoomInv)'
  <2>1. /\ tab[t].pc \in Filling /\ TabsStay /\ tab'[t].pc \notin Filling /\ FilesStay
        /\ UNCHANGED <<request, previews>>
    BY <1>5, UploadFailsEffect DEF UploadFails, Filling, FilesStay, agentVars
  <2>2. (\A u \in Tabs : tab'[u].pc \notin Filling) /\ (\A r \in Requests : request'[r].pc \notin Writing)
    BY <2>1, TabAlone DEF TabsStay
  <2>3. LockInv' /\ ~ Creating'
    BY <2>2 DEF LockInv, Creating, Filling, Writing
  <2>4. EntriesStay
    BY <2>1 DEF EntriesStay
  <2> QED BY <2>1, <2>3, <2>4, StagedStays DEF RoomInv
<1>6. ASSUME NEW r \in Requests, Begin(r) PROVE (LockInv /\ RoomInv)'
  BY <1>6, BeginEffect, HoldKept
<1>7. ASSUME NEW r \in Requests, Refuse(r) PROVE (LockInv /\ RoomInv)'
  BY <1>7, RefuseEffect, HoldKept
<1>8. ASSUME NEW r \in Requests, Preview(r) PROVE (LockInv /\ RoomInv)'
  <2>1. PICK X \in SUBSET PreviewIds, id \in PreviewIds, e \in Entry :
          /\ TypeOK' /\ Ended(r) /\ FilesStay /\ UNCHANGED <<users, backups, lock>>
          /\ id = made.previews + 1 /\ made'.previews = id
          /\ Cardinality(DOMAIN previews \ X) < Capacity
          /\ DOMAIN previews' = (DOMAIN previews \ X) \cup {id} /\ previews'[id] = e
          /\ \A i \in (DOMAIN previews \ X) \ {id} : previews'[i] = previews[i]
          /\ history'.committed = history.committed /\ history'.replaced = history.replaced
          /\ DOMAIN history'.shown = DOMAIN history.shown \cup {id}
          /\ history'.shown[id] = [base |-> e.base, result |-> Planned(e.base, e.archive, e.mode)]
          /\ \A i \in DOMAIN history.shown \ {id} : history'.shown[i] = history.shown[i]
    BY <1>8, PreviewEffect
  <2>2. Cardinality(DOMAIN previews') <= Capacity
    <3> DEFINE D == DOMAIN previews \ X
    <3>1. IsFiniteSet(D) /\ Cardinality(D) \in Nat
      BY Finite, FS_Subset, FS_CardinalityType
    <3> HIDE DEF D
    <3>2. Cardinality(D \cup {id}) = (IF id \in D THEN Cardinality(D) ELSE Cardinality(D) + 1)
      BY <3>1, FS_AddElement
    <3>3. DOMAIN previews' = D \cup {id} /\ Cardinality(D) < Capacity
      BY <2>1 DEF D
    <3> QED BY <3>1, <3>2, <3>3, Constants
  <2>3. LockInv'
    BY <2>1 DEF Ended, TabsStay, HoldersStay, LockInv
  <2>4. Creating' => Creating
    BY <2>1 DEF Ended, TabsStay, HoldersStay, Creating, Filling, Writing
  <2>5. Cardinality(DOMAIN files') <= Cardinality(DOMAIN files) /\ Cardinality(DOMAIN files') \in Nat
    BY <2>1, NoMoreFiles
  <2> QED BY <2>2, <2>3, <2>4, <2>5, Finite, Constants DEF RoomInv, StagedIsBounded
<1>9. ASSUME NEW r \in Requests, Take(r) PROVE (LockInv /\ RoomInv)'
  <2>1. EntriesStay /\ TabsStay /\ HoldersStay /\ UNCHANGED <<files, lock>>
    BY <1>9, TakeEffect DEF Took, Ended
  <2> QED BY <2>1, HoldKept DEF HoldStays, FilesStay
<1>10. ASSUME NEW r \in Requests, Update(r) PROVE (LockInv /\ RoomInv)'
  BY <1>10, UpdateEffect, HoldKept
<1>11. ASSUME NEW r \in Requests, NEW ok \in BOOLEAN, Apply(r, ok) \/ Cancel(r) PROVE (LockInv /\ RoomInv)'
  BY <1>11, LastEffect, HoldKept
<1>12. ASSUME NEW r \in Requests, ExportBegins(r) PROVE (LockInv /\ RoomInv)'
  <2>1. /\ request'[r].pc = "create" /\ Moves(r) /\ tab' = tab /\ lock = Nobody /\ lock' = r
        /\ FilesStay /\ EntriesStay /\ Cardinality(DOMAIN files') < MaxStaged
    BY <1>12, ExportBeginsEffect DEF PlansStay
  <2>2. (\A u \in Tabs : tab'[u].pc \notin Filling) /\ (\A q \in Requests \ {r} : request'[q].pc \notin Writing)
    BY <2>1, RequestAlone DEF Moves
  <2>3. LockInv'
    BY <2>1, <2>2 DEF LockInv
  <2> QED BY <2>1, <2>3, StagedStays DEF RoomInv
<1>13. ASSUME NEW r \in Requests, ExportCreates(r) PROVE (LockInv /\ RoomInv)'
  <2>1. /\ request[r].pc = "create" /\ request'[r].pc = "write" /\ Moves(r) /\ tab' = tab
        /\ DOMAIN files' = DOMAIN files \cup {made.files + 1} /\ UNCHANGED <<previews, lock>>
    BY <1>13, ExportCreatesEffect
  <2>2. (\A u \in Tabs : tab'[u].pc \notin Filling) /\ (\A q \in Requests \ {r} : request'[q].pc \notin Writing)
    BY <2>1, RequestAlone DEF Moves, Writing
  <2>3. LockInv' /\ ~ Creating'
    BY <2>1, <2>2 DEF LockInv, Creating, Filling, Writing
  <2>4. Cardinality(DOMAIN files) < MaxStaged /\ Cardinality(DOMAIN previews) <= Capacity
    BY <2>1 DEF RoomInv, Creating, StagedIsBounded
  <2>5. Cardinality(DOMAIN files') <= MaxStaged
    BY <2>1, <2>4, OneMore
  <2> QED BY <2>1, <2>3, <2>4, <2>5 DEF RoomInv, StagedIsBounded
<1>14. ASSUME NEW r \in Requests, ExportEnds(r) \/ ExportFails(r) PROVE (LockInv /\ RoomInv)'
  <2>1. /\ request[r].pc \in Writing /\ request'[r].pc = "free" /\ Moves(r) /\ TabsStay /\ FilesStay
        /\ EntriesStay
    BY <1>14, ExportLastEffect DEF Ended, PlansStay
  <2>2. (\A u \in Tabs : tab'[u].pc \notin Filling) /\ (\A q \in Requests : request'[q].pc \notin Writing)
    BY <2>1, RequestAlone DEF Moves, Writing, TabsStay
  <2>3. LockInv' /\ ~ Creating'
    BY <2>2 DEF LockInv, Creating, Filling, Writing
  <2> QED BY <2>1, <2>3, StagedStays DEF RoomInv
<1>15. CASE PortalDies
  <2>1. /\ EntriesStay /\ HoldersStay /\ FilesStay /\ (\A t \in Tabs : tab'[t].pc \notin Filling)
        /\ lock' = IF lock \in Tabs THEN Nobody ELSE lock
    BY <1>15, PortalDiesEffect DEF PlansStay
  <2>2. LockInv'
    BY <2>1, MigrationAssumption DEF MigrationAssumption, LockInv, HoldersStay
  <2>3. Creating' => Creating
    BY <2>1 DEF Creating, HoldersStay, Filling, Writing
  <2> QED BY <2>1, <2>2, <2>3, StagedStays DEF RoomInv
<1>16. CASE AgentDies
  <2>1. /\ EntriesStay /\ TabsStay /\ FilesStay /\ (\A r \in Requests : request'[r].pc = "free")
        /\ lock' = IF lock \in Requests THEN Nobody ELSE lock
    BY <1>16, AgentDiesEffect DEF PlansStay
  <2>2. LockInv'
    BY <2>1, MigrationAssumption DEF MigrationAssumption, LockInv, TabsStay, Writing
  <2>3. Creating' => Creating
    BY <2>1 DEF Creating, TabsStay, Filling
  <2> QED BY <2>1, <2>2, <2>3, StagedStays DEF RoomInv
<1>17. ASSUME NEW p \in Persons, Edit(p) PROVE (LockInv /\ RoomInv)'
  BY <1>17, EditEffect, HoldKept DEF Quiet
<1>18. ASSUME NEW c \in backups, RestoreBackup(c) PROVE (LockInv /\ RoomInv)'
  BY <1>18, RestoreBackupEffect, HoldKept DEF Quiet
<1> QED
  BY <1>1, <1>2, <1>3, <1>4, <1>5, <1>6, <1>7, <1>8, <1>9, <1>10, <1>11, <1>12, <1>13, <1>14, <1>15, <1>16,
     <1>17, <1>18
  DEF Next, StillStep, Upload, Serve

\* The invariants hold together.
Together == TypeOK /\ ActiveInv /\ ShownInv /\ ContentInv /\ LockInv /\ RoomInv

LEMMA Invariants == Spec => []Together
<1>1. Init => Together
  BY TypeInit, ActiveInit, ShownInit, ContentInit, RoomInit DEF Together
<1>2. Together /\ [Next]_vars => Together'
  BY TypeStep, ActiveStep, ShownStep, ContentStep, RoomStep DEF Together
<1> QED BY <1>1, <1>2, PTL DEF Spec

\* Every variable of the migration has its type (control/migration.py and what it calls).
THEOREM TypeCorrect == Spec => []TypeOK
<1>1. Together => TypeOK
  BY DEF Together
<1> QED BY <1>1, Invariants, PTL

\* No migration makes two users share a name, a key or an address
\* (validate_migration, called again for what a merge makes of users.json).
THEOREM UsersCorrect == Spec => []UsersStayApart
<1>1. Together => UsersStayApart
  BY DEF Together, ContentInv, Fit, UsersStayApart
<1> QED BY <1>1, Invariants, PTL

\* Whatever a migration or a restore has replaced is in the backups (_private_backup).
THEOREM BackupsCorrect == Spec => []ReplacedIsBackedUp
<1>1. Together => ReplacedIsBackedUp
  BY DEF Together, ContentInv
<1> QED BY <1>1, Invariants, PTL

\* The directory and the previews never hold more than they may, for any number of
\* wizards and requests (save_upload, export and preview).
THEOREM BoundsCorrect == Spec => []StagedIsBounded
<1>1. Together => StagedIsBounded
  BY DEF Together, RoomInv
<1> QED BY <1>1, Invariants, PTL

\* A commit is one of what its preview showed, for the state it was shown for, and once.
AsShown ==
    \A r \in Requests : request[r].pc = "update" /\ request'[r].pc = "apply" =>
      LET i == request[r].preview IN
      /\ i \in DOMAIN history.shown \ history.committed
      /\ users = history.shown[i].base /\ users' = history.shown[i].result

\* Every step that commits does so as shown.
LEMMA CommitStep == TypeOK /\ ShownInv /\ [Next]_vars => AsShown
<1> SUFFICES ASSUME TypeOK, ShownInv, [Next]_vars PROVE AsShown
  OBVIOUS
<1>1. CASE StillStep
  <2>1. CommitsStay
    BY <1>1, StillSteps DEF Still, Quiet, PlansStay
  <2> QED BY <2>1 DEF CommitsStay, AsShown
<1>2. ASSUME NEW t \in Tabs, UploadBegins(t) PROVE AsShown
  <2>1. request' = request
    BY <1>2 DEF UploadBegins, agentVars
  <2> QED BY <2>1 DEF AsShown
<1>3. ASSUME NEW t \in Tabs, UploadCreates(t) PROVE AsShown
  <2>1. request' = request
    BY <1>3 DEF UploadCreates, agentVars
  <2> QED BY <2>1 DEF AsShown
<1>4. ASSUME NEW t \in Tabs, NEW archive \in Archives, UploadEnds(t, archive) PROVE AsShown
  <2>1. request' = request
    BY <1>4 DEF UploadEnds, agentVars
  <2> QED BY <2>1 DEF AsShown
<1>5. ASSUME NEW t \in Tabs, UploadFails(t) PROVE AsShown
  <2>1. request' = request
    BY <1>5 DEF UploadFails, agentVars
  <2> QED BY <2>1 DEF AsShown
<1>6. ASSUME NEW r \in Requests, Begin(r) PROVE AsShown
  <2>1. CommitsStay
    BY <1>6, BeginEffect DEF PlansStay
  <2> QED BY <2>1 DEF CommitsStay, AsShown
<1>7. ASSUME NEW r \in Requests, Refuse(r) PROVE AsShown
  <2>1. CommitsStay
    BY <1>7, RefuseEffect DEF PlansStay
  <2> QED BY <2>1 DEF CommitsStay, AsShown
<1>8. ASSUME NEW r \in Requests, Preview(r) PROVE AsShown
  <2>1. CommitsStay
    BY <1>8, PreviewEffect DEF Ended
  <2> QED BY <2>1 DEF CommitsStay, AsShown
<1>9. ASSUME NEW r \in Requests, Take(r) PROVE AsShown
  <2>1. CommitsStay \/ Took(r)
    BY <1>9, TakeEffect DEF Ended
  <2>2. CASE Took(r)
    BY <2>2 DEF Took, Moves, AsShown
  <2> QED BY <2>1, <2>2 DEF CommitsStay, AsShown
<1>10. ASSUME NEW r \in Requests, Update(r) PROVE AsShown
  <2>1. /\ request[r].pc = "update" /\ Moves(r) /\ users = request[r].entry.base
        /\ users' = Planned(users, request[r].entry.archive, request[r].entry.mode)
    BY <1>10, UpdateEffect
  <2>2. Shows(request[r].preview, request[r].entry)
    BY <2>1 DEF ShownInv
  <2>3. ASSUME NEW q \in Requests \ {r} PROVE request'[q].pc = request[q].pc
    BY <2>1 DEF Moves
  <2> QED BY <2>1, <2>2, <2>3 DEF Shows, AsShown
<1>11. ASSUME NEW r \in Requests, NEW ok \in BOOLEAN, Apply(r, ok) \/ Cancel(r) PROVE AsShown
  <2>1. CommitsStay
    BY <1>11, LastEffect DEF PlansStay
  <2> QED BY <2>1 DEF CommitsStay, AsShown
<1>12. ASSUME NEW r \in Requests, ExportBegins(r) PROVE AsShown
  <2>1. CommitsStay
    BY <1>12, ExportBeginsEffect DEF PlansStay
  <2> QED BY <2>1 DEF CommitsStay, AsShown
<1>13. ASSUME NEW r \in Requests, ExportCreates(r) PROVE AsShown
  <2>1. CommitsStay
    BY <1>13, ExportCreatesEffect DEF PlansStay
  <2> QED BY <2>1 DEF CommitsStay, AsShown
<1>14. ASSUME NEW r \in Requests, ExportEnds(r) \/ ExportFails(r) PROVE AsShown
  <2>1. CommitsStay
    BY <1>14, ExportLastEffect DEF PlansStay
  <2> QED BY <2>1 DEF CommitsStay, AsShown
<1>15. CASE PortalDies
  <2>1. CommitsStay
    BY <1>15, PortalDiesEffect DEF PlansStay
  <2> QED BY <2>1 DEF CommitsStay, AsShown
<1>16. CASE AgentDies
  <2>1. CommitsStay
    BY <1>16, AgentDiesEffect DEF PlansStay
  <2> QED BY <2>1 DEF CommitsStay, AsShown
<1>17. ASSUME NEW p \in Persons, Edit(p) PROVE AsShown
  <2>1. CommitsStay
    BY <1>17, EditEffect DEF Quiet, PlansStay
  <2> QED BY <2>1 DEF CommitsStay, AsShown
<1>18. ASSUME NEW c \in backups, RestoreBackup(c) PROVE AsShown
  <2>1. CommitsStay
    BY <1>18, RestoreBackupEffect DEF Quiet, PlansStay
  <2> QED BY <2>1 DEF CommitsStay, AsShown
<1> QED
  BY <1>1, <1>2, <1>3, <1>4, <1>5, <1>6, <1>7, <1>8, <1>9, <1>10, <1>11, <1>12, <1>13, <1>14, <1>15, <1>16,
     <1>17, <1>18
  DEF Next, StillStep, Upload, Serve

\* The same of every step of a run (MigrationPreviews.commit and commit_migration).
THEOREM CommitsCorrect == Spec => CommitIsWhatWasShown
<1>1. Together /\ [Next]_vars => [AsShown]_vars
  BY CommitStep DEF Together
<1>2. Spec => [][AsShown]_vars
  BY <1>1, Invariants, PTL DEF Spec
<1> QED BY <1>2 DEF CommitIsWhatWasShown, AsShown
==============================================================================
