------------------------------ MODULE ShellStream ------------------------------
(***************************************************************************)
(* One root shell in the browser: root-shell.js, the WebSocket transports  *)
(* of the portal (shell_stream.py) and the session of the host-agent       *)
(* (RootShellSession), from the keyboard to the PTY and from the PTY to    *)
(* the screen.                                                             *)
(*                                                                         *)
(* Connections break and are replaced: a transport is one WebSocket with   *)
(* its two portal threads, numbered in the order in which the browser      *)
(* opens them, and the number is its stream_id.  A transport that is gone  *)
(* may have left RPC requests behind that the agent still answers.         *)
(* Characters are numbers (TerminalStream); a piece of input or output is  *)
(* an interval of them, the characters from + 1 .. to.                     *)
(***************************************************************************)
EXTENDS Integers, Sequences

CONSTANTS
    MaxTransports,  \* bound on the connections
    MaxTyped,       \* bound on the characters typed
    MaxPrinted,     \* bound on the characters printed
    BufferSize,     \* STREAM_BUFFER_BYTES
    Loads,          \* the numbers of characters typed and printed that occur together
    Endings         \* those at which the shell may exit, or be closed by somebody else

Transports == 1..MaxTransports

ASSUME ShellAssumption ==
    /\ MaxTransports \in Nat /\ MaxTyped \in Nat /\ MaxPrinted \in Nat /\ BufferSize \in Nat \ {0}
    /\ Endings \subseteq Loads /\ Loads \subseteq (0..MaxTyped) \X (0..MaxPrinted)

VARIABLES
    typed, received, printed, shown,    \* the two ends, as in TerminalStream
    browser,        \* the variables of root-shell.js
    up, down,       \* what is on its way on each WebSocket
    portal,         \* main thread of each transport, and its state
    write, read,    \* the RPC request of the main thread and of output_loop
    session,        \* RootShellSession
    mismatch        \* history: a check of sequence numbers or cursors has failed

ends == <<typed, received, printed, shown>>
vars == <<ends, browser, up, down, portal, write, read, session, mismatch>>

Nobody == 0
Nothing == [from |-> 0, to |-> 0]
Interval == [from : Nat, to : Nat]
Characters(i) == [k \in 1..(i.to - i.from) |-> i.from + k]

NoPending == [seq |-> 0, data |-> Nothing]
NoWrite == [state |-> "none", seq |-> 0, data |-> Nothing, ok |-> FALSE, alive |-> FALSE]
NoRead == [state |-> "none", cursor |-> 0, frame |-> Nothing, alive |-> FALSE, inputSeq |-> 0]

UpMessage == [type : {"hello", "ack"}, cursor : Nat] \cup [type : {"input"}, seq : Nat, data : Interval]
DownMessage == [type : {"ready"}, inputSeq : Nat] \cup [type : {"output"}, data : Interval, cursor : Nat]
               \cup [type : {"input_ack"}, seq : Nat, complete : BOOLEAN, alive : BOOLEAN]
               \cup [type : {"exit", "error"}]
Input == [seq : Nat, data : Interval]
Browser == [socket : Transports \cup {Nobody}, last : Transports \cup {Nobody}, connected : BOOLEAN,
            stopped : BOOLEAN, cursor : Nat, nextSeq : Nat, queued : Nat, pending : Input, timer : BOOLEAN,
            rendering : Interval]
MainState == [pc : {"none", "connected", "attaching", "open", "writing", "ended"}, cursor : Nat, sent : Nat]
WriteCall == [state : {"none", "sent", "answered", "refused"}, seq : Nat, data : Interval, ok : BOOLEAN, alive : BOOLEAN]
ReadCall == [state : {"none", "attach", "sent", "waiting", "answered", "refused"}, cursor : Nat, frame : Interval,
             alive : BOOLEAN, inputSeq : Nat]
RootShellSession == [stream : Transports \cup {Nobody}, registered : BOOLEAN, closed : BOOLEAN, exited : BOOLEAN,
                     start : Nat, end : Nat, inputSeq : Nat, inputData : Interval, pending : Input, offset : Nat]

\* Every variable has its type.
TypeOK ==
    /\ typed \in Nat /\ received \in Seq(Nat) /\ printed \in Nat /\ shown \in Seq(Nat)
    /\ browser \in Browser /\ browser.queued <= typed
    /\ up \in [Transports -> Seq(UpMessage)] /\ down \in [Transports -> Seq(DownMessage)]
    /\ portal \in [Transports -> MainState]
    /\ write \in [Transports -> WriteCall] /\ read \in [Transports -> ReadCall]
    /\ session \in RootShellSession /\ mismatch \in BOOLEAN

\* shell.open has succeeded, with stream = true.
Init ==
    /\ typed = 0 /\ received = <<>> /\ printed = 0 /\ shown = <<>>
    /\ browser = [socket |-> Nobody, last |-> Nobody, connected |-> FALSE, stopped |-> FALSE,
                  cursor |-> 0, nextSeq |-> 1, queued |-> 0, pending |-> NoPending,
                  timer |-> FALSE, rendering |-> Nothing]
    /\ up = [t \in Transports |-> <<>>] /\ down = [t \in Transports |-> <<>>]
    /\ portal = [t \in Transports |-> [pc |-> "none", cursor |-> 0, sent |-> 0]]
    /\ write = [t \in Transports |-> NoWrite] /\ read = [t \in Transports |-> NoRead]
    /\ session = [stream |-> Nobody, registered |-> TRUE, closed |-> FALSE, exited |-> FALSE,
                  start |-> 0, end |-> 0, inputSeq |-> 0, inputData |-> Nothing,
                  pending |-> NoPending, offset |-> 0]
    /\ mismatch = FALSE

(***************************************************************************)
(* The browser.                                                            *)
(***************************************************************************)

Stopped(b) == [b EXCEPT !.stopped = TRUE, !.connected = FALSE, !.socket = Nobody,
                        !.pending = NoPending, !.queued = 0, !.timer = FALSE]

Type ==
    /\ ~browser.stopped /\ <<typed + 1, printed>> \in Loads
    /\ typed' = typed + 1
    /\ browser' = [browser EXCEPT !.queued = @ + 1,
                                  !.timer = @ \/ browser.pending = NoPending]
    /\ UNCHANGED <<received, printed, shown, up, down, portal, write, read, session, mismatch>>

\* connect, and hello when the WebSocket opens.
Connect ==
    /\ ~browser.stopped /\ browser.socket = Nobody /\ browser.rendering = Nothing
    /\ browser.last + 1 \in Transports
    /\ LET t == browser.last + 1 IN
       /\ browser' = [browser EXCEPT !.socket = t, !.last = t]
       /\ up' = [up EXCEPT ![t] = <<[type |-> "hello", cursor |-> browser.cursor]>>]
       /\ portal' = [portal EXCEPT ![t].pc = "connected"]
    /\ UNCHANGED <<ends, down, write, read, session, mismatch>>

\* The button that closes the shell, or the page is left.
Stop ==
    /\ ~browser.stopped
    /\ browser' = Stopped(browser)
    /\ UNCHANGED <<ends, up, down, portal, write, read, session, mismatch>>

\* The retries are used up.
GiveUp ==
    /\ ~browser.stopped /\ browser.socket = Nobody /\ browser.last + 1 \notin Transports
    /\ browser' = Stopped(browser)
    /\ UNCHANGED <<ends, up, down, portal, write, read, session, mismatch>>

\* The connection breaks, or its end by the portal is noticed.  What the portal
\* has not read may still reach it.
Disconnect ==
    /\ browser.socket # Nobody
    /\ browser' = [browser EXCEPT !.socket = Nobody, !.connected = FALSE]
    /\ down' = [down EXCEPT ![browser.socket] = <<>>]
    /\ UNCHANGED <<ends, up, portal, write, read, session, mismatch>>

\* What is sent on a WebSocket that the portal has closed is lost.
ToPortal(t, m) == up' = IF portal[t].pc = "ended" THEN up ELSE [up EXCEPT ![t] = Append(@, m)]

ToBrowser(t, m) == down' = IF browser.socket = t THEN [down EXCEPT ![t] = Append(@, m)] ELSE down

InputMessage(p) == [type |-> "input", seq |-> p.seq, data |-> p.data]

\* flush: what is pending is sent, again if need be; else a part of the queue, as
\* much as a message can hold, becomes pending and is sent.
FlushFrom(b) ==
    \/ /\ b.connected /\ b.pending # NoPending
       /\ browser' = [b EXCEPT !.timer = FALSE]
       /\ ToPortal(b.socket, InputMessage(b.pending))
    \/ /\ b.connected /\ b.pending = NoPending
       /\ \E n \in 1..b.queued :
            LET p == [seq |-> b.nextSeq,
                      data |-> [from |-> typed - b.queued, to |-> typed - b.queued + n]]
            IN /\ browser' = [b EXCEPT !.pending = p, !.queued = @ - n, !.timer = FALSE]
               /\ ToPortal(b.socket, InputMessage(p))
    \/ /\ ~b.connected \/ (b.pending = NoPending /\ b.queued = 0)
       /\ browser' = [b EXCEPT !.timer = FALSE] /\ UNCHANGED up

Flush ==
    /\ browser.timer
    /\ FlushFrom(browser)
    /\ UNCHANGED <<ends, down, portal, write, read, session, mismatch>>

Receives == down' = [down EXCEPT ![browser.socket] = Tail(@)]

\* The next message of the portal.
Message == IF browser.socket # Nobody /\ down[browser.socket] # <<>>
           THEN Head(down[browser.socket]) ELSE [type |-> "none"]

OnReady ==
    /\ Message.type = "ready" /\ Receives
    /\ FlushFrom([browser EXCEPT !.connected = TRUE,
                    !.nextSeq = IF browser.pending = NoPending THEN Message.inputSeq + 1 ELSE @])
    /\ UNCHANGED <<ends, portal, write, read, session, mismatch>>

\* Mutant: what the PTY has not taken is not sent again.
OnInputAckOnce ==
    /\ Message.type = "input_ack" /\ Receives
    /\ \/ /\ browser.pending.seq # Message.seq
          /\ browser' = Stopped(browser) /\ mismatch' = TRUE /\ UNCHANGED up
       \/ /\ browser.pending.seq = Message.seq /\ Message.complete
          /\ FlushFrom([browser EXCEPT !.nextSeq = Message.seq + 1, !.pending = NoPending])
          /\ UNCHANGED mismatch
       \/ /\ browser.pending.seq = Message.seq /\ ~Message.complete
          /\ browser' = IF Message.alive THEN [browser EXCEPT !.timer = FALSE] ELSE Stopped(browser)
          /\ UNCHANGED <<up, mismatch>>
    /\ UNCHANGED <<ends, portal, write, read, session>>

OnInputAck ==
    /\ Message.type = "input_ack" /\ Receives
    /\ \/ /\ browser.pending.seq # Message.seq
          /\ browser' = Stopped(browser) /\ mismatch' = TRUE /\ UNCHANGED up
       \/ /\ browser.pending.seq = Message.seq /\ Message.complete
          /\ FlushFrom([browser EXCEPT !.nextSeq = Message.seq + 1, !.pending = NoPending])
          /\ UNCHANGED mismatch
       \/ /\ browser.pending.seq = Message.seq /\ ~Message.complete
          /\ browser' = IF Message.alive THEN [browser EXCEPT !.timer = TRUE] ELSE Stopped(browser)
          /\ UNCHANGED <<up, mismatch>>
    /\ UNCHANGED <<ends, portal, write, read, session>>

Ack(t, cursor) == ToPortal(t, [type |-> "ack", cursor |-> cursor])

\* A frame that was shown before is acknowledged again, one that leaves a gap ends
\* the session, the next one is rendered.
OnOutput ==
    /\ Message.type = "output" /\ Receives
    /\ \/ /\ Message.cursor <= browser.cursor
          /\ Ack(browser.socket, browser.cursor)
          /\ UNCHANGED <<browser, mismatch>>
       \/ /\ Message.cursor > browser.cursor
          /\ Message.cursor - (Message.data.to - Message.data.from) # browser.cursor
          /\ browser' = Stopped(browser) /\ mismatch' = TRUE
          /\ UNCHANGED up
       \/ /\ Message.cursor > browser.cursor
          /\ Message.cursor - (Message.data.to - Message.data.from) = browser.cursor
          /\ browser' = [browser EXCEPT !.rendering = Message.data]
          /\ UNCHANGED <<up, mismatch>>
    /\ UNCHANGED <<ends, portal, write, read, session>>

\* Mutant: what is shown counts only when it can be acknowledged.
RenderedIfConnected ==
    /\ browser.rendering # Nothing
    /\ shown' = shown \o Characters(browser.rendering)
    /\ browser' = [browser EXCEPT !.rendering = Nothing,
                     !.cursor = IF browser.socket = Nobody THEN @
                                ELSE @ + (browser.rendering.to - browser.rendering.from)]
    /\ IF browser.socket # Nobody THEN Ack(browser.socket, browser'.cursor) ELSE UNCHANGED up
    /\ UNCHANGED <<typed, received, printed, down, portal, write, read, session, mismatch>>

\* The write callback of xterm.
Rendered ==
    /\ browser.rendering # Nothing
    /\ shown' = shown \o Characters(browser.rendering)
    /\ browser' = [browser EXCEPT !.rendering = Nothing,
                     !.cursor = IF browser.stopped THEN @
                                ELSE @ + (browser.rendering.to - browser.rendering.from)]
    /\ IF browser.socket # Nobody THEN Ack(browser.socket, browser'.cursor) ELSE UNCHANGED up
    /\ UNCHANGED <<typed, received, printed, down, portal, write, read, session, mismatch>>

OnEnd ==
    /\ Message.type \in {"exit", "error"} /\ Receives
    /\ browser' = Stopped(browser)
    /\ UNCHANGED <<ends, up, portal, write, read, session, mismatch>>

(***************************************************************************)
(* The portal: the main thread of a transport, and output_loop.            *)
(***************************************************************************)

\* The threads end; a request the agent has not answered goes on without them.
End(t) ==
    /\ portal' = [portal EXCEPT ![t].pc = "ended"]
    /\ up' = [up EXCEPT ![t] = <<>>]
    /\ write' = IF write[t].state = "sent" THEN write ELSE [write EXCEPT ![t] = NoWrite]
    /\ read' = IF read[t].state \in {"attach", "sent", "waiting"} THEN read
               ELSE [read EXCEPT ![t] = NoRead]

Next1(t) == Head(up[t])

Hello(t) ==
    /\ portal[t].pc = "connected" /\ up[t] # <<>>
    /\ up' = [up EXCEPT ![t] = Tail(@)]
    /\ portal' = [portal EXCEPT ![t] = [pc |-> "attaching", cursor |-> Next1(t).cursor,
                                        sent |-> Next1(t).cursor]]
    /\ read' = [read EXCEPT ![t] = [NoRead EXCEPT !.state = "attach", !.cursor = Next1(t).cursor]]
    /\ UNCHANGED <<ends, browser, down, write, session, mismatch>>

\* The output that comes with the answer is not used: it was not acknowledged.
Attached(t) ==
    /\ portal[t].pc = "attaching" /\ read[t].state = "answered"
    /\ portal' = [portal EXCEPT ![t].pc = "open"]
    /\ ToBrowser(t, [type |-> "ready", inputSeq |-> read[t].inputSeq])
    /\ read' = [read EXCEPT ![t] = NoRead]
    /\ UNCHANGED <<ends, browser, up, write, session, mismatch>>

OnAck(t) ==
    /\ portal[t].pc = "open" /\ up[t] # <<>> /\ Next1(t).type = "ack"
    /\ \/ /\ Next1(t).cursor \in portal[t].cursor..portal[t].sent
          /\ portal' = [portal EXCEPT ![t].cursor = Next1(t).cursor]
          /\ up' = [up EXCEPT ![t] = Tail(@)]
          /\ UNCHANGED <<write, read, mismatch>>
       \/ /\ Next1(t).cursor \notin portal[t].cursor..portal[t].sent
          /\ End(t) /\ mismatch' = TRUE
    /\ UNCHANGED <<ends, browser, down, session>>

OnInput(t) ==
    /\ portal[t].pc = "open" /\ up[t] # <<>> /\ Next1(t).type = "input"
    /\ up' = [up EXCEPT ![t] = Tail(@)]
    /\ portal' = [portal EXCEPT ![t].pc = "writing"]
    /\ write' = [write EXCEPT ![t] = [NoWrite EXCEPT !.state = "sent", !.seq = Next1(t).seq,
                                                     !.data = Next1(t).data]]
    /\ UNCHANGED <<ends, browser, down, read, session, mismatch>>

Written(t) ==
    /\ portal[t].pc = "writing" /\ write[t].state = "answered"
    /\ portal' = [portal EXCEPT ![t].pc = "open"]
    /\ ToBrowser(t, [type |-> "input_ack", seq |-> write[t].seq, complete |-> write[t].ok,
                alive |-> write[t].alive])
    /\ write' = [write EXCEPT ![t] = NoWrite]
    /\ UNCHANGED <<ends, browser, up, read, session, mismatch>>

\* One read at a time, and none before the last frame is acknowledged.
AskOutput(t) ==
    /\ portal[t].pc \in {"open", "writing"} /\ read[t].state = "none"
    /\ portal[t].cursor = portal[t].sent
    /\ read' = [read EXCEPT ![t] = [NoRead EXCEPT !.state = "sent", !.cursor = portal[t].cursor]]
    /\ UNCHANGED <<ends, browser, up, down, portal, write, session, mismatch>>

GetOutput(t) ==
    /\ portal[t].pc \in {"open", "writing"} /\ read[t].state = "answered"
    /\ LET f == read[t].frame
           cursor == read[t].cursor + (f.to - f.from) IN
       \/ /\ f # Nothing \/ read[t].alive
          /\ read' = [read EXCEPT ![t] = NoRead] /\ UNCHANGED <<up, write>>
          /\ portal' = [portal EXCEPT ![t].sent = cursor]
          /\ IF f = Nothing THEN UNCHANGED down
             ELSE ToBrowser(t, [type |-> "output", data |-> f, cursor |-> cursor])
       \/ f = Nothing /\ ~read[t].alive /\ End(t) /\ ToBrowser(t, [type |-> "exit"])
    /\ UNCHANGED <<ends, browser, session, mismatch>>

Fail(t) ==
    /\ End(t) /\ ToBrowser(t, [type |-> "error"])
    /\ UNCHANGED <<ends, browser, session, mismatch>>

RpcRefused(t) ==
    /\ \/ portal[t].pc = "attaching" /\ read[t].state = "refused"
       \/ portal[t].pc = "writing" /\ write[t].state = "refused"
       \/ portal[t].pc \in {"open", "writing"} /\ read[t].state = "refused"
    /\ Fail(t)

\* The request takes more than 3 s: the agent may still work on it.
RpcTimeout(t) ==
    /\ \/ portal[t].pc = "attaching" /\ read[t].state \in {"attach", "sent", "waiting"}
       \/ portal[t].pc = "writing" /\ write[t].state = "sent"
       \/ portal[t].pc \in {"open", "writing"} /\ read[t].state \in {"sent", "waiting"}
    /\ Fail(t)

\* The WebSocket is found closed, or the worker of the portal is replaced.
TransportEnds(t) ==
    /\ portal[t].pc \notin {"none", "ended"}
    /\ End(t)
    /\ UNCHANGED <<ends, browser, down, session, mismatch>>

(***************************************************************************)
(* The host-agent.                                                         *)
(***************************************************************************)

\* An answer that nobody waits for is lost.
ReadAnswered(t, r) == read' = [read EXCEPT ![t] = IF portal[t].pc = "ended" THEN NoRead ELSE r]
ReadRefused(t) == ReadAnswered(t, [read[t] EXCEPT !.state = "refused"])
WriteReplied(t, w) == write' = [write EXCEPT ![t] = IF portal[t].pc = "ended" THEN NoWrite ELSE w]
WriteRefused(t) == WriteReplied(t, [write[t] EXCEPT !.state = "refused"])

\* start_stream: the lease of the stream goes to this transport.
Attach(t) ==
    /\ read[t].state = "attach" /\ session.registered
    /\ session' = [session EXCEPT !.stream = t]
    /\ read' = [read EXCEPT ![t].state = "sent"]
    /\ UNCHANGED <<ends, browser, up, down, portal, write, mismatch>>

NotFound(t) ==
    /\ ~session.registered
    /\ \/ read[t].state \in {"attach", "sent"} /\ ReadRefused(t) /\ UNCHANGED write
       \/ write[t].state = "sent" /\ WriteRefused(t) /\ UNCHANGED read
    /\ UNCHANGED <<ends, browser, up, down, portal, session, mismatch>>

\* The answer of read_stream, a frame of what is buffered: STREAM_CHUNK_BYTES may
\* cut it anywhere.
Answers(t, s) ==
    \E to \in s.start..s.end :
        /\ to = s.start <=> s.start = s.end
        /\ ReadAnswered(t, [read[t] EXCEPT !.state = "answered", !.alive = ~s.closed, !.inputSeq = s.inputSeq,
                         !.frame = IF to = s.start THEN Nothing ELSE [from |-> s.start, to |-> to]])

\* read_stream: the cursor acknowledges what was shown, which is discarded; without
\* output the call waits.
ReadStream(t) ==
    /\ read[t].state = "sent" /\ session.registered
    /\ \/ /\ session.stream # t
          /\ ReadRefused(t) /\ UNCHANGED <<session, mismatch>>
       \/ /\ session.stream = t /\ read[t].cursor \notin session.start..session.end
          /\ ReadRefused(t) /\ mismatch' = (mismatch \/ t = browser.socket) /\ UNCHANGED session
       \/ /\ session.stream = t /\ read[t].cursor \in session.start..session.end
          /\ session' = [session EXCEPT !.start = read[t].cursor]
          /\ IF session'.start = session'.end /\ ~session'.closed
             THEN read' = [read EXCEPT ![t].state = "waiting"]
             ELSE Answers(t, session')
          /\ UNCHANGED mismatch
    /\ UNCHANGED <<ends, browser, up, down, portal, write>>

\* Mutant: output is discarded when it is read.
ReadWakesConsuming(t) ==
    /\ read[t].state = "waiting"
    /\ IF session.stream = t THEN Answers(t, session) /\ session' = [session EXCEPT !.start = session.end]
       ELSE ReadRefused(t) /\ UNCHANGED session
    /\ UNCHANGED <<ends, browser, up, down, portal, write, mismatch>>

\* Output has come, or the wait is over.
ReadWakes(t) ==
    /\ read[t].state = "waiting"
    /\ IF session.stream = t THEN Answers(t, session) ELSE ReadRefused(t)
    /\ UNCHANGED <<ends, browser, up, down, portal, write, session, mismatch>>

\* write_bytes: the PTY takes some of the characters, none when it is closed.
Taken(i, n) == received' = received \o Characters([from |-> i.from, to |-> i.from + n])

Length(i) == i.to - i.from

WriteAnswered(t, ok) ==
    WriteReplied(t, [write[t] EXCEPT !.state = "answered", !.ok = ok, !.alive = ~session.closed])

\* Mutant: the number of the last input is not recognised.
RepeatedNever(t) == FALSE

\* The seq is the last one: its answer was lost.
Repeated(t) == write[t].seq = session.inputSeq /\ write[t].seq > 0

\* The seq is the next one, and what an earlier call left of it is the same.
InOrder(t) ==
    /\ write[t].seq = session.inputSeq + 1
    /\ session.pending.seq # 0 => session.pending = [seq |-> write[t].seq, data |-> write[t].data]

\* Mutant: the rest of an input is sent with what the PTY has taken of it.
WriteAgain(t) ==
    \E n \in 0..Length(write[t].data) - session.offset :
       /\ session.closed => n = 0
       /\ Taken(write[t].data, n)
       /\ IF session.offset + n = Length(write[t].data)
          THEN /\ session' = [session EXCEPT !.inputSeq = write[t].seq, !.inputData = write[t].data,
                                             !.pending = NoPending, !.offset = 0]
               /\ WriteAnswered(t, TRUE)
          ELSE /\ session' = [session EXCEPT !.offset = @ + n,
                                !.pending = [seq |-> write[t].seq, data |-> write[t].data]]
               /\ WriteAnswered(t, FALSE)

WriteNext(t) ==
    \E n \in 0..Length(write[t].data) - session.offset :
       /\ session.closed => n = 0
       /\ Taken([write[t].data EXCEPT !.from = @ + session.offset], n)
       /\ IF session.offset + n = Length(write[t].data)
          THEN /\ session' = [session EXCEPT !.inputSeq = write[t].seq, !.inputData = write[t].data,
                                             !.pending = NoPending, !.offset = 0]
               /\ WriteAnswered(t, TRUE)
          ELSE /\ session' = [session EXCEPT !.offset = @ + n,
                                !.pending = [seq |-> write[t].seq, data |-> write[t].data]]
               /\ WriteAnswered(t, FALSE)

OrderedWrite(t) ==
    /\ write[t].state = "sent" /\ session.registered
    /\ \/ /\ session.stream # t
          /\ WriteRefused(t) /\ UNCHANGED <<received, session, mismatch>>
       \/ /\ session.stream = t /\ Repeated(t) /\ write[t].data = session.inputData
          /\ WriteAnswered(t, TRUE) /\ UNCHANGED <<received, session, mismatch>>
       \/ /\ session.stream = t /\ ~Repeated(t) /\ InOrder(t)
          /\ WriteNext(t) /\ UNCHANGED mismatch
       \/ /\ session.stream = t
          /\ IF Repeated(t) THEN write[t].data # session.inputData ELSE ~InOrder(t)
          /\ WriteRefused(t) /\ mismatch' = (mismatch \/ t = browser.socket)
          /\ UNCHANGED <<received, session>>
    /\ UNCHANGED <<typed, printed, shown, browser, up, down, portal, read>>

\* _pump, as far as the buffer has room.
Pump ==
    /\ ~session.closed
    /\ \E end \in session.end + 1..printed :
         /\ end - session.start <= BufferSize
         /\ session' = [session EXCEPT !.end = end]
    /\ UNCHANGED <<ends, browser, up, down, portal, write, read, mismatch>>

\* _pump has read all that the shell printed before it exited.
PumpEnds ==
    /\ ~session.closed /\ session.exited /\ session.end = printed
    /\ session' = [session EXCEPT !.closed = TRUE]
    /\ UNCHANGED <<ends, browser, up, down, portal, write, read, mismatch>>

\* close: by the user, the reaper, the end of the portal session, or with the agent.
Close ==
    /\ <<typed, printed>> \in Endings /\ session.registered
    /\ session' = [session EXCEPT !.registered = FALSE, !.closed = TRUE, !.start = session.end]
    /\ UNCHANGED <<ends, browser, up, down, portal, write, read, mismatch>>

(***************************************************************************)
(* The shell.                                                              *)
(***************************************************************************)

PtyPrints ==
    /\ ~session.exited /\ session.registered /\ <<typed, printed + 1>> \in Loads
    /\ printed' = printed + 1
    /\ UNCHANGED <<typed, received, shown, browser, up, down, portal, write, read, session, mismatch>>

Exit ==
    /\ <<typed, printed>> \in Endings /\ ~session.exited
    /\ session' = [session EXCEPT !.exited = TRUE]
    /\ UNCHANGED <<ends, browser, up, down, portal, write, read, mismatch>>

OnMessage == OnReady \/ OnInputAck \/ OnOutput \/ OnEnd

MainThread(t) == Hello(t) \/ Attached(t) \/ OnAck(t) \/ OnInput(t) \/ Written(t)
OutputLoop(t) == AskOutput(t) \/ GetOutput(t)
ServesRead(t) == Attach(t) \/ ReadStream(t) \/ ReadWakes(t)

Next ==
    \/ Type \/ Connect \/ Stop \/ GiveUp \/ Disconnect \/ Flush \/ OnMessage \/ Rendered
    \/ \E t \in Transports :
          \/ MainThread(t) \/ OutputLoop(t) \/ RpcRefused(t) \/ RpcTimeout(t) \/ TransportEnds(t)
          \/ ServesRead(t) \/ OrderedWrite(t) \/ NotFound(t)
    \/ Pump \/ PumpEnds \/ Close \/ PtyPrints \/ Exit

Spec == Init /\ [][Next]_vars

\* The browser sees that the portal has ended the connection.
Noticed == Disconnect /\ portal[browser.socket].pc = "ended" /\ down[browser.socket] = <<>>

\* Threads and timers run, and the programs in the shell go on reading.
FairSpec ==
    /\ Spec
    /\ WF_vars(Connect \/ GiveUp) /\ WF_vars(Noticed) /\ WF_vars(Flush) /\ WF_vars(OnMessage)
    /\ WF_vars(Rendered) /\ WF_vars(Pump)
    /\ \A t \in Transports :
        /\ WF_vars(MainThread(t)) /\ WF_vars(OutputLoop(t)) /\ WF_vars(RpcRefused(t))
        /\ WF_vars(ServesRead(t)) /\ WF_vars(NotFound(t))
        /\ WF_vars(OrderedWrite(t)) /\ SF_vars(OrderedWrite(t) /\ received' # received)

(***************************************************************************)
(* Properties.                                                             *)
(***************************************************************************)

Terminal == INSTANCE TerminalStream

\* What is typed reaches the PTY once and in order, what is printed reaches the
\* screen once and in order, whatever breaks.
ImplementsTerminal == Terminal!Spec

\* The checks of sequence numbers and cursors never end a session that is in order.
NoMismatch == ~mismatch

\* The buffer of the agent is bounded and discards only what the screen shows,
\* until the session is closed.
OutputIsKept ==
    session.registered => /\ session.end - session.start <= BufferSize
                          /\ session.start <= Len(shown)

\* Again and again all that was typed has arrived and all that was printed is shown,
\* unless the terminal says that the session has ended.
EverythingArrives == []<>(\/ browser.stopped
                          \/ Len(received) = typed /\ Len(shown) = printed)

\* The lease goes to the newest connection ("a new transport replaces the lease,
\* not the process", the docstring of start_stream).  No run checks it: it does not
\* hold (README.md, known divergences).
LeaseGoesToNewest == [][session'.stream >= session.stream]_vars
=============================================================================
