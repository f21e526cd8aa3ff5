-------------------------- MODULE ShellStream_proofs --------------------------
(***************************************************************************)
(* A root shell in the browser is a terminal, for any number of            *)
(* connections and of characters and any size of the buffer.               *)
(*                                                                         *)
(* The invariant has three layers, each proved inductive with the ones     *)
(* before it:                                                              *)
(*   BaseInv   the types, the life of a transport, the output;             *)
(*   OrderInv  with it, the numbers of the inputs: what the browser waits  *)
(*             for is the next input of the agent or the last one;         *)
(*   MatchInv  one input and one frame at a time are on their way, and the *)
(*             agent keeps what the newest transport does not know of.     *)
(* The first gives the bounded buffer, the second the refinement of        *)
(* TerminalStream, the third that no check of numbers or cursors fails.    *)
(***************************************************************************)
EXTENDS ShellStream, SequenceTheorems, TLAPS

\* What is on its way on a channel.
Messages(s) == {s[i] : i \in 1..Len(s)}
Has(s, kind) == \E m \in Messages(s) : m.type = kind
Only(s, kind) == \A i, j \in 1..Len(s) : s[i].type = kind /\ s[j].type = kind => i = j

InputOf(m) == [seq |-> m.seq, data |-> m.data]

\* The inputs of a transport on their way to the agent, or in a call it has not served.
Sent(t) == {InputOf(m) : m \in {x \in Messages(up[t]) : x.type = "input"}}
             \cup {InputOf(w) : w \in {x \in {write[t]} : x.state = "sent"}}

\* The inputs the agent has answered as complete.
Acked(t) == {m.seq : m \in {x \in Messages(down[t]) : x.type = "input_ack" /\ x.complete}}
              \cup {w.seq : w \in {x \in {write[t]} : x.state = "answered" /\ x.ok}}

\* No transport holds an input that the agent has not completed.
NothingNew == \A t \in Transports : \A p \in Sent(t) : p.seq <= session.inputSeq

\* d is the next input of the agent, of which it may have written a part.  Whatever
\* the transports still hold is this input, the last one, or older.
NextInput(d) ==
    /\ \A t \in Transports : \A p \in Sent(t) :
        /\ p.seq \in 1..session.inputSeq + 1
        /\ p.seq = session.inputSeq => p.data = session.inputData
        /\ p.seq = session.inputSeq + 1 => p.data = d
    /\ d.from + session.offset = Len(received) /\ Len(received) <= d.to /\ d.to <= typed
    /\ IF session.pending.seq = 0 THEN session.pending = NoPending /\ session.offset = 0
       ELSE session.pending = [seq |-> session.inputSeq + 1, data |-> d]

\* What the browser b has not got an answer for is the next input or the last one.
PendingOf(b, d) ==
    ~b.stopped =>
      IF b.pending = NoPending
      THEN /\ b.nextSeq = session.inputSeq + 1 /\ session.pending = NoPending
           /\ Len(received) = typed - b.queued /\ NothingNew
      ELSE /\ b.pending.seq = b.nextSeq /\ b.pending.data.to = typed - b.queued
           /\ \/ b.nextSeq = session.inputSeq + 1 /\ b.pending.data = d
              \/ /\ b.nextSeq = session.inputSeq /\ b.nextSeq > 0
                 /\ b.pending.data = session.inputData
                 /\ b.pending.data.to = Len(received) /\ session.pending = NoPending /\ NothingNew

PendingInv(d) == PendingOf(browser, d)

\* The PTY has got what was typed, in order, and what is typed next follows it.
InputInv ==
    /\ \A i \in 1..Len(received) : received[i] = i
    /\ \A t \in Transports : \A n \in Acked(t) : n \in 1..session.inputSeq
    /\ \E d \in [from : 0..typed, to : 0..typed] : NextInput(d) /\ PendingInv(d)

New == {"none", "connected"}
Running == {"attaching", "open", "writing"}

\* A transport is new, says hello, runs and ends.
TransportInv(t) ==
    /\ portal[t].pc = "none" <=> t > browser.last
    /\ portal[t].pc = "none" => up[t] = <<>> /\ down[t] = <<>>
    /\ portal[t].pc = "ended" => up[t] = <<>>
    /\ portal[t].pc \in New => read[t] = NoRead /\ write[t] = NoWrite
    /\ portal[t].pc = "connected" => Only(up[t], "hello") /\ \A m \in Messages(up[t]) : m.type = "hello"
    /\ portal[t].pc \in Running => ~Has(up[t], "hello")

SocketInv ==
    /\ browser.stopped => browser.socket = Nobody
    /\ browser.socket = Nobody => ~browser.connected
    /\ browser.socket # Nobody => browser.socket = browser.last
    /\ \A t \in Transports : t = browser.socket /\ portal[t].pc \in {"connected", "attaching"} =>
         down[t] = <<>> /\ ~browser.connected /\ browser.rendering = Nothing

ConnectionInv == (\A t \in Transports : TransportInv(t)) /\ SocketInv

\* The browser learns once what it may send next, and before that sends nothing.
ReadyAt(t) ==
    /\ Only(down[t], "ready")
    /\ IF browser.connected THEN ~Has(down[t], "ready")
       ELSE ~Has(up[t], "input") /\ write[t] = NoWrite /\ ~Has(down[t], "input_ack")
    /\ browser.pending = NoPending =>
         /\ \A m \in Messages(down[t]) : m.type = "ready" => m.inputSeq = session.inputSeq
         /\ portal[t].pc = "attaching" /\ read[t].state = "answered" => read[t].inputSeq = session.inputSeq

ReadyInv == \A t \in Transports : t = browser.socket => ReadyAt(t)

\* What the screen shows, what is rendered and what is buffered.
ScreenInv ==
    /\ \A i \in 1..Len(shown) : shown[i] = i
    /\ Len(shown) <= session.end /\ session.end <= printed
    /\ ~browser.stopped => browser.cursor = Len(shown)
    /\ browser.rendering # Nothing =>
         /\ browser.rendering.from = Len(shown)
         /\ browser.rendering.from < browser.rendering.to /\ browser.rendering.to <= session.end
    /\ session.start <= session.end
    /\ IF session.registered THEN session.start <= Len(shown) /\ session.end - session.start <= BufferSize
       ELSE session.closed /\ session.start = session.end

\* What a transport knows of it.
StreamInv(t) ==
    /\ portal[t].cursor <= Len(shown) /\ read[t].cursor <= Len(shown)
    /\ \A m \in Messages(up[t]) : m.type \in {"hello", "ack"} => m.cursor <= Len(shown)
    /\ \A m \in Messages(down[t]) : m.type = "output" =>
         m.cursor = m.data.to /\ m.data.from < m.data.to /\ m.data.to <= session.end
    /\ read[t].state = "answered" /\ read[t].frame # Nothing =>
         /\ read[t].frame.from = read[t].cursor
         /\ read[t].frame.from < read[t].frame.to /\ read[t].frame.to <= session.end
    /\ read[t].state = "waiting" /\ session.stream = t /\ session.registered =>
         session.start = read[t].cursor

OutputInv == ScreenInv /\ \A t \in Transports : StreamInv(t)

\* An input of the browser is in one place: on its way, in a call of the portal, or
\* on its way back; meanwhile the browser waits.
InputUp(t) == Has(up[t], "input")
InputCall(t) == write[t].state # "none"
InputDown(t) == Has(down[t], "input_ack")

ChainAt(t) ==
    /\ Only(up[t], "input") /\ Only(down[t], "input_ack")
    /\ ~(InputUp(t) /\ InputCall(t)) /\ ~(InputUp(t) /\ InputDown(t)) /\ ~(InputCall(t) /\ InputDown(t))
    /\ InputUp(t) \/ InputCall(t) \/ InputDown(t) => browser.pending # NoPending /\ ~browser.timer
    /\ \A m \in Messages(up[t]) : m.type = "input" => InputOf(m) = browser.pending
    /\ InputCall(t) => InputOf(write[t]) = browser.pending
    /\ \A m \in Messages(down[t]) : m.type = "input_ack" => m.seq = browser.pending.seq

ChainInv == \A t \in Transports : t = browser.socket => ChainAt(t)

\* A transport reads when the browser has acknowledged all that was sent to it.
CursorInv(t) ==
    /\ portal[t].cursor <= portal[t].sent
    /\ read[t].state # "none" => read[t].cursor = portal[t].cursor
    /\ portal[t].pc \in Running =>
         /\ Only(up[t], "ack") /\ \A m \in Messages(up[t]) : m.type = "ack" => m.cursor = portal[t].sent
         /\ IF portal[t].sent = portal[t].cursor THEN ~Has(up[t], "ack") ELSE read[t].state = "none"

\* The transport of the browser knows of more output than the others, and the agent
\* keeps what it does not know of.
Live(t) == portal[t].pc \in Running \/ read[t].state # "none"

FloorAt(t) ==
    /\ session.registered => session.start <= portal[t].cursor
    /\ \A u \in Transports \ {t} :
         /\ portal[u].cursor <= portal[t].cursor /\ read[u].cursor <= portal[t].cursor
         /\ \A m \in Messages(up[u]) : m.type \in {"hello", "ack"} => m.cursor <= portal[t].cursor

FloorInv == \A t \in Transports : t = browser.socket /\ Live(t) => FloorAt(t)

\* One frame is on its way to the browser, is rendered, or is acknowledged.
FrameAt(t) ==
    /\ Only(down[t], "output")
    /\ \A m \in Messages(down[t]) : m.type = "output" => m.data.from = browser.cursor
    /\ Has(down[t], "output") => browser.rendering = Nothing
    /\ \A m \in Messages(up[t]) : m.type = "hello" => m.cursor = browser.cursor
    /\ portal[t].pc \in Running =>
         IF portal[t].sent = portal[t].cursor
         THEN browser.cursor = portal[t].cursor /\ browser.rendering = Nothing /\ ~Has(down[t], "output")
         ELSE IF Has(down[t], "output")
         THEN /\ \A m \in Messages(down[t]) : m.type = "output" => m.cursor = portal[t].sent
              /\ browser.cursor = portal[t].cursor /\ ~Has(up[t], "ack")
         ELSE IF browser.rendering # Nothing
         THEN /\ ~Has(up[t], "ack")
              /\ browser.rendering = [from |-> portal[t].cursor, to |-> portal[t].sent]
         ELSE browser.cursor = portal[t].sent

FrameInv == \A t \in Transports : t = browser.socket => FrameAt(t)

MatchInv == ChainInv /\ (\A t \in Transports : CursorInv(t)) /\ FloorInv /\ FrameInv /\ ~mismatch

(***************************************************************************)
(* Channels.                                                               *)
(***************************************************************************)

LEMMA Appending ==
    ASSUME NEW S, NEW s \in Seq(S), NEW m \in S
    PROVE  /\ Append(s, m) \in Seq(S) /\ Messages(Append(s, m)) = Messages(s) \cup {m}
           /\ \A k : Has(Append(s, m), k) <=> Has(s, k) \/ m.type = k
           /\ \A k : Only(s, k) /\ (m.type = k => ~Has(s, k)) => Only(Append(s, m), k)
<1>1. Append(s, m) \in Seq(S) /\ Len(Append(s, m)) = Len(s) + 1 /\ Len(s) \in Nat
  OBVIOUS
<1>2. \A i \in 1..Len(s) : Append(s, m)[i] = s[i]
  OBVIOUS
<1>3. Append(s, m)[Len(s) + 1] = m
  OBVIOUS
<1>4. Messages(Append(s, m)) = Messages(s) \cup {m}
  <2>1. 1..Len(Append(s, m)) = 1..Len(s) \cup {Len(s) + 1}
    BY <1>1
  <2> QED BY <2>1, <1>2, <1>3 DEF Messages
<1>5. ASSUME NEW k, Only(s, k), m.type = k => ~Has(s, k) PROVE Only(Append(s, m), k)
  <2> SUFFICES ASSUME NEW i \in 1..Len(Append(s, m)), NEW j \in 1..Len(Append(s, m)),
                      Append(s, m)[i].type = k, Append(s, m)[j].type = k
               PROVE  i = j
    BY DEF Only
  <2>1. CASE i \in 1..Len(s) /\ j \in 1..Len(s)
    BY <2>1, <1>2, <1>5 DEF Only
  <2>2. CASE i = Len(s) + 1 /\ j \in 1..Len(s)
    BY <2>2, <1>2, <1>3, <1>5 DEF Has, Messages
  <2>3. CASE j = Len(s) + 1 /\ i \in 1..Len(s)
    BY <2>3, <1>2, <1>3, <1>5 DEF Has, Messages
  <2> QED BY <1>1, <2>1, <2>2, <2>3
<1> QED BY <1>1, <1>4, <1>5 DEF Has

LEMMA Taking ==
    ASSUME NEW S, NEW s \in Seq(S), s # <<>>
    PROVE  /\ Tail(s) \in Seq(S) /\ Messages(Tail(s)) \subseteq Messages(s)
           /\ Head(s) \in Messages(s) /\ Head(s) \in S
           /\ \A k : Has(Tail(s), k) => Has(s, k)
           /\ \A k : Only(s, k) => Only(Tail(s), k)
           /\ \A k : Only(s, k) /\ Head(s).type = k => ~Has(Tail(s), k)
<1>1. /\ Tail(s) \in Seq(S) /\ Len(Tail(s)) = Len(s) - 1 /\ Len(s) \in Nat /\ Len(s) > 0
      /\ Head(s) = s[1]
  OBVIOUS
<1>2. \A i \in 1..Len(Tail(s)) : Tail(s)[i] = s[i + 1] /\ i + 1 \in 1..Len(s)
  BY <1>1
<1>3. Messages(Tail(s)) \subseteq Messages(s)
  BY <1>2 DEF Messages
<1>4. Head(s) \in Messages(s) /\ Head(s) \in S
  BY <1>1 DEF Messages
<1>5. ASSUME NEW k, Only(s, k) PROVE Only(Tail(s), k)
  <2> SUFFICES ASSUME NEW i \in 1..Len(Tail(s)), NEW j \in 1..Len(Tail(s)),
                      Tail(s)[i].type = k, Tail(s)[j].type = k
               PROVE  i = j
    BY DEF Only
  <2>1. i + 1 = j + 1
    BY <1>2, <1>5 DEF Only
  <2> QED BY <2>1
<1>6. ASSUME NEW k, Only(s, k), Head(s).type = k, Has(Tail(s), k) PROVE FALSE
  <2>1. PICK i \in 1..Len(Tail(s)) : Tail(s)[i].type = k
    BY <1>6 DEF Has, Messages
  <2>2. s[i + 1].type = k /\ s[1].type = k /\ 1 \in 1..Len(s) /\ i + 1 \in 1..Len(s)
    BY <2>1, <1>1, <1>2, <1>6
  <2>3. i + 1 = 1
    BY <2>2, <1>6 DEF Only
  <2> QED BY <2>3
<1> QED BY <1>1, <1>3, <1>4, <1>5, <1>6 DEF Has

LEMMA Emptying == Messages(<<>>) = {} /\ (\A k : ~Has(<<>>, k) /\ Only(<<>>, k))
BY DEF Messages, Has, Only

LEMMA Known ==
    ASSUME NEW S, NEW s \in Seq(S)
    PROVE  Messages(s) \subseteq S /\ \A m \in Messages(s) : Has(s, m.type)
BY DEF Messages, Has

(***************************************************************************)
(* What the operators of ShellStream do.                                   *)
(***************************************************************************)

LEMMA Numbers ==
    /\ MaxTransports \in Nat /\ Transports \subseteq Nat /\ Nobody \notin Transports
    /\ \A t \in Transports : t > 0 /\ \A u \in 1..t : u \in Transports
BY ShellAssumption DEF Transports, Nobody

LEMMA Messaging ==
    /\ \A m \in UpMessage :
         /\ m.type \in {"hello", "ack", "input"}
         /\ m.type \in {"hello", "ack"} => m.cursor \in Nat
         /\ m.type = "input" => m.seq \in Nat /\ m.data \in Interval
    /\ \A m \in DownMessage :
         /\ m.type \in {"ready", "output", "input_ack", "exit", "error"}
         /\ m.type = "ready" => m.inputSeq \in Nat
         /\ m.type = "output" => m.cursor \in Nat /\ m.data \in Interval
         /\ m.type = "input_ack" => m.seq \in Nat /\ m.complete \in BOOLEAN /\ m.alive \in BOOLEAN
BY DEF UpMessage, DownMessage

LEMMA PortalHears ==
    ASSUME TypeOK, NEW t \in Transports, NEW m \in UpMessage, ToPortal(t, m)
    PROVE  /\ up' \in [Transports -> Seq(UpMessage)]
           /\ \A u \in Transports \ {t} : up'[u] = up[u]
           /\ up'[t] = IF portal[t].pc = "ended" THEN up[t] ELSE Append(up[t], m)
BY DEF TypeOK, ToPortal

LEMMA BrowserHears ==
    ASSUME TypeOK, NEW t \in Transports, NEW m \in DownMessage, ToBrowser(t, m)
    PROVE  /\ down' \in [Transports -> Seq(DownMessage)]
           /\ \A u \in Transports \ {t} : down'[u] = down[u]
           /\ down'[t] = IF browser.socket = t THEN Append(down[t], m) ELSE down[t]
BY DEF TypeOK, ToBrowser

\* A message that the browser takes.
LEMMA Taken1 ==
    ASSUME TypeOK, Message.type # "none", Receives
    PROVE  /\ browser.socket \in Transports /\ down[browser.socket] # <<>>
           /\ Message = Head(down[browser.socket]) /\ Message \in DownMessage
           /\ Message \in Messages(down[browser.socket])
           /\ down' \in [Transports -> Seq(DownMessage)]
           /\ \A u \in Transports \ {browser.socket} : down'[u] = down[u]
           /\ down'[browser.socket] = Tail(down[browser.socket])
<1>1. browser.socket # Nobody /\ down[browser.socket] # <<>> /\ Message = Head(down[browser.socket])
  BY DEF Message
<1>2. browser.socket \in Transports /\ down[browser.socket] \in Seq(DownMessage)
  BY <1>1 DEF TypeOK, Browser
<1>3. /\ Tail(down[browser.socket]) \in Seq(DownMessage)
      /\ Head(down[browser.socket]) \in DownMessage /\ Head(down[browser.socket]) \in Messages(down[browser.socket])
  BY <1>1, <1>2, Taking
<1> QED BY <1>1, <1>2, <1>3 DEF TypeOK, Receives

\* A flush changes what is pending and queued only, and sends what is pending.
LEMMA Flushed ==
    ASSUME TypeOK, NEW b \in Browser, b.queued <= typed, FlushFrom(b), b.connected => b.socket \in Transports
    PROVE  /\ browser' \in Browser /\ browser'.queued <= typed /\ up' \in [Transports -> Seq(UpMessage)]
           /\ browser' = [b EXCEPT !.timer = FALSE, !.pending = browser'.pending, !.queued = browser'.queued]
           /\ \/ /\ UNCHANGED up /\ browser'.pending = b.pending /\ browser'.queued = b.queued
                 /\ ~b.connected \/ (b.pending = NoPending /\ b.queued = 0)
              \/ /\ b.connected /\ InputMessage(browser'.pending) \in UpMessage
                 /\ \A u \in Transports \ {b.socket} : up'[u] = up[u]
                 /\ up'[b.socket] = IF portal[b.socket].pc = "ended" THEN up[b.socket]
                                    ELSE Append(up[b.socket], InputMessage(browser'.pending))
                 /\ \/ b.pending # NoPending /\ browser'.pending = b.pending /\ browser'.queued = b.queued
                    \/ /\ b.pending = NoPending
                       /\ \E n \in 1..b.queued :
                            /\ browser'.queued = b.queued - n
                            /\ browser'.pending = [seq |-> b.nextSeq,
                                 data |-> [from |-> typed - b.queued, to |-> typed - b.queued + n]]
<1>1. \A p \in Input : InputMessage(p) \in UpMessage
  BY DEF Input, InputMessage, UpMessage
<1>2. CASE b.connected /\ b.pending # NoPending /\ browser' = [b EXCEPT !.timer = FALSE]
             /\ ToPortal(b.socket, InputMessage(b.pending))
  <2>1. InputMessage(b.pending) \in UpMessage
    BY <1>1 DEF Browser
  <2> QED BY <1>2, <2>1, PortalHears DEF Browser
<1>3. CASE b.connected /\ b.pending = NoPending /\ \E n \in 1..b.queued :
            LET p == [seq |-> b.nextSeq,
                      data |-> [from |-> typed - b.queued, to |-> typed - b.queued + n]]
            IN /\ browser' = [b EXCEPT !.pending = p, !.queued = @ - n, !.timer = FALSE]
               /\ ToPortal(b.socket, InputMessage(p))
  <2>1. PICK n \in 1..b.queued :
            LET p == [seq |-> b.nextSeq,
                      data |-> [from |-> typed - b.queued, to |-> typed - b.queued + n]]
            IN /\ browser' = [b EXCEPT !.pending = p, !.queued = @ - n, !.timer = FALSE]
               /\ ToPortal(b.socket, InputMessage(p))
    BY <1>3
  <2> DEFINE p == [seq |-> b.nextSeq, data |-> [from |-> typed - b.queued, to |-> typed - b.queued + n]]
  <2>2. b.queued \in Nat /\ typed \in Nat /\ b.nextSeq \in Nat
    BY DEF Browser, TypeOK
  <2>3. p \in Input
    BY <2>2 DEF Input, Interval
  <2>4. InputMessage(p) \in UpMessage
    BY <1>1, <2>3
  <2>5. /\ up' \in [Transports -> Seq(UpMessage)]
        /\ \A u \in Transports \ {b.socket} : up'[u] = up[u]
        /\ up'[b.socket] = IF portal[b.socket].pc = "ended" THEN up[b.socket]
                                    ELSE Append(up[b.socket], InputMessage(p))
    BY <2>1, <2>4, <1>3, PortalHears
  <2>6. browser' = [b EXCEPT !.pending = p, !.queued = b.queued - n, !.timer = FALSE]
    BY <2>1 DEF Browser
  <2> DEFINE q == b.queued - n
  <2>a. q \in Nat /\ q <= typed
    BY <2>2
  <2> HIDE DEF p, q
  <2>b. browser' \in Browser /\ browser'.pending = p /\ browser'.queued = q
    <3>1. browser' = [b EXCEPT !.pending = p, !.queued = q, !.timer = FALSE]
      BY <2>6 DEF q
    <3> QED BY <2>3, <2>a, <3>1 DEF Browser
  <2>7. /\ browser' \in Browser /\ browser'.pending = p /\ browser'.queued = b.queued - n
        /\ b.queued - n \in Nat /\ b.queued - n <= typed
    BY <2>a, <2>b DEF q
  <2> HIDE DEF p
  <2>8. browser' = [b EXCEPT !.timer = FALSE, !.pending = browser'.pending, !.queued = browser'.queued]
    BY <2>6, <2>7 DEF Browser
  <2>9. InputMessage(browser'.pending) \in UpMessage
    BY <2>7, <2>4
  <2> QED BY <1>3, <2>5, <2>7, <2>8, <2>9 DEF p
<1>4. CASE (~b.connected \/ (b.pending = NoPending /\ b.queued = 0)) /\ browser' = [b EXCEPT !.timer = FALSE]
           /\ UNCHANGED up
  BY <1>4 DEF TypeOK, Browser
<1> QED BY <1>2, <1>3, <1>4 DEF FlushFrom

\* The threads of a transport end.
LEMMA Ending ==
    ASSUME TypeOK, NEW t \in Transports, End(t)
    PROVE  /\ up' \in [Transports -> Seq(UpMessage)] /\ portal' \in [Transports -> MainState]
           /\ write' \in [Transports -> WriteCall] /\ read' \in [Transports -> ReadCall]
           /\ \A u \in Transports \ {t} :
                up'[u] = up[u] /\ portal'[u] = portal[u] /\ write'[u] = write[u] /\ read'[u] = read[u]
           /\ up'[t] = <<>> /\ portal'[t] = [portal[t] EXCEPT !.pc = "ended"]
           /\ write'[t] = IF write[t].state = "sent" THEN write[t] ELSE NoWrite
           /\ read'[t] = IF read[t].state \in {"attach", "sent", "waiting"} THEN read[t] ELSE NoRead
<1>1. NoWrite \in WriteCall /\ NoRead \in ReadCall
  BY DEF NoWrite, NoRead, WriteCall, ReadCall, Nothing, Interval
<1>2. <<>> \in Seq(UpMessage)
  OBVIOUS
<1>3. up' \in [Transports -> Seq(UpMessage)] /\ up'[t] = <<>> /\ \A u \in Transports \ {t} : up'[u] = up[u]
  BY <1>2 DEF TypeOK, End
<1>4. /\ portal' \in [Transports -> MainState] /\ portal'[t] = [portal[t] EXCEPT !.pc = "ended"]
      /\ \A u \in Transports \ {t} : portal'[u] = portal[u]
  BY DEF TypeOK, End, MainState
<1>5. /\ write' \in [Transports -> WriteCall] /\ \A u \in Transports \ {t} : write'[u] = write[u]
      /\ write'[t] = IF write[t].state = "sent" THEN write[t] ELSE NoWrite
  BY <1>1 DEF TypeOK, End
<1>6. /\ read' \in [Transports -> ReadCall] /\ \A u \in Transports \ {t} : read'[u] = read[u]
      /\ read'[t] = IF read[t].state \in {"attach", "sent", "waiting"} THEN read[t] ELSE NoRead
  BY <1>1 DEF TypeOK, End
<1> QED BY <1>3, <1>4, <1>5, <1>6

LEMMA Answering ==
    ASSUME TypeOK, NEW t \in Transports, NEW r \in ReadCall, ReadAnswered(t, r)
    PROVE  /\ read' \in [Transports -> ReadCall] /\ \A u \in Transports \ {t} : read'[u] = read[u]
           /\ read'[t] = IF portal[t].pc = "ended" THEN NoRead ELSE r
<1>1. NoRead \in ReadCall
  BY DEF NoRead, ReadCall, Nothing, Interval
<1> QED BY <1>1 DEF TypeOK, ReadAnswered

LEMMA Replying ==
    ASSUME TypeOK, NEW t \in Transports, NEW w \in WriteCall, WriteReplied(t, w)
    PROVE  /\ write' \in [Transports -> WriteCall] /\ \A u \in Transports \ {t} : write'[u] = write[u]
           /\ write'[t] = IF portal[t].pc = "ended" THEN NoWrite ELSE w
<1>1. NoWrite \in WriteCall
  BY DEF NoWrite, WriteCall, Nothing, Interval
<1> QED BY <1>1 DEF TypeOK, WriteReplied

(***************************************************************************)
(* The records, field by field.                                            *)
(***************************************************************************)

LEMMA BrowserFields ==
    ASSUME NEW b \in Browser
    PROVE  /\ b.socket \in Transports \cup {Nobody} /\ b.last \in Transports \cup {Nobody}
           /\ b.connected \in BOOLEAN /\ b.stopped \in BOOLEAN /\ b.timer \in BOOLEAN
           /\ b.cursor \in Nat /\ b.nextSeq \in Nat /\ b.queued \in Nat
           /\ b.pending \in Input /\ b.rendering \in Interval
BY DEF Browser

LEMMA BrowserTypes ==
    ASSUME NEW b \in Browser, NEW queued \in Nat, NEW q,
           q = [b EXCEPT !.queued = queued, !.timer = TRUE] \/ q = [b EXCEPT !.queued = queued, !.timer = FALSE]
    PROVE  /\ q \in Browser /\ q.queued = queued /\ q.socket = b.socket /\ q.last = b.last
           /\ q.connected = b.connected /\ q.stopped = b.stopped /\ q.cursor = b.cursor
           /\ q.nextSeq = b.nextSeq /\ q.pending = b.pending /\ q.rendering = b.rendering
BY DEF Browser

LEMMA BrowserReady ==
    ASSUME NEW b \in Browser, NEW nextSeq \in Nat
    PROVE  LET q == [b EXCEPT !.connected = TRUE, !.nextSeq = nextSeq]
           IN  /\ q \in Browser /\ q.queued = b.queued /\ q.timer = b.timer /\ q.socket = b.socket /\ q.last = b.last
               /\ q.connected = TRUE /\ q.stopped = b.stopped /\ q.cursor = b.cursor
               /\ q.nextSeq = nextSeq /\ q.pending = b.pending /\ q.rendering = b.rendering
BY DEF Browser

LEMMA BrowserAcked ==
    ASSUME NEW b \in Browser, NEW nextSeq \in Nat
    PROVE  LET q == [b EXCEPT !.nextSeq = nextSeq, !.pending = NoPending]
           IN  /\ q \in Browser /\ q.queued = b.queued /\ q.timer = b.timer /\ q.socket = b.socket /\ q.last = b.last
               /\ q.connected = b.connected /\ q.stopped = b.stopped /\ q.cursor = b.cursor
               /\ q.nextSeq = nextSeq /\ q.pending = NoPending /\ q.rendering = b.rendering
BY DEF Browser, NoPending, Input, Interval, Nothing

LEMMA BrowserRendered ==
    ASSUME NEW b \in Browser, NEW cursor \in Nat
    PROVE  LET q == [b EXCEPT !.rendering = Nothing, !.cursor = cursor]
           IN  /\ q \in Browser /\ q.queued = b.queued /\ q.timer = b.timer /\ q.socket = b.socket /\ q.last = b.last
               /\ q.connected = b.connected /\ q.stopped = b.stopped /\ q.cursor = cursor
               /\ q.nextSeq = b.nextSeq /\ q.pending = b.pending /\ q.rendering = Nothing
BY DEF Browser, Interval, Nothing

LEMMA BrowserStops ==
    ASSUME NEW b \in Browser
    PROVE  LET q == Stopped(b)
           IN  /\ q \in Browser /\ q.queued = 0 /\ q.timer = FALSE /\ q.socket = Nobody /\ q.last = b.last
               /\ q.connected = FALSE /\ q.stopped = TRUE /\ q.cursor = b.cursor
               /\ q.nextSeq = b.nextSeq /\ q.pending = NoPending /\ q.rendering = b.rendering
BY DEF Browser, NoPending, Input, Interval, Nothing, Stopped

LEMMA SessionFields ==
    ASSUME NEW s \in RootShellSession
    PROVE  /\ s.stream \in Transports \cup {Nobody} /\ s.registered \in BOOLEAN /\ s.closed \in BOOLEAN
           /\ s.exited \in BOOLEAN /\ s.start \in Nat /\ s.end \in Nat /\ s.inputSeq \in Nat
           /\ s.inputData \in Interval /\ s.pending \in Input /\ s.offset \in Nat
BY DEF RootShellSession

LEMMA SessionAttached ==
    ASSUME NEW s \in RootShellSession, NEW stream \in Transports
    PROVE  LET q == [s EXCEPT !.stream = stream]
           IN  /\ q \in RootShellSession /\ q.stream = stream /\ q.registered = s.registered /\ q.closed = s.closed
               /\ q.exited = s.exited /\ q.start = s.start /\ q.end = s.end /\ q.inputSeq = s.inputSeq
               /\ q.inputData = s.inputData /\ q.pending = s.pending /\ q.offset = s.offset
BY DEF RootShellSession

LEMMA SessionStarts ==
    ASSUME NEW s \in RootShellSession, NEW start \in Nat
    PROVE  LET q == [s EXCEPT !.start = start]
           IN  /\ q \in RootShellSession /\ q.stream = s.stream /\ q.registered = s.registered /\ q.closed = s.closed
               /\ q.exited = s.exited /\ q.start = start /\ q.end = s.end /\ q.inputSeq = s.inputSeq
               /\ q.inputData = s.inputData /\ q.pending = s.pending /\ q.offset = s.offset
BY DEF RootShellSession

LEMMA SessionFills ==
    ASSUME NEW s \in RootShellSession, NEW end \in Nat
    PROVE  LET q == [s EXCEPT !.end = end]
           IN  /\ q \in RootShellSession /\ q.stream = s.stream /\ q.registered = s.registered /\ q.closed = s.closed
               /\ q.exited = s.exited /\ q.start = s.start /\ q.end = end /\ q.inputSeq = s.inputSeq
               /\ q.inputData = s.inputData /\ q.pending = s.pending /\ q.offset = s.offset
BY DEF RootShellSession

LEMMA SessionTakes ==
    ASSUME NEW s \in RootShellSession, NEW seq \in Nat, NEW data \in Interval
    PROVE  LET q == [s EXCEPT !.inputSeq = seq, !.inputData = data, !.pending = NoPending, !.offset = 0]
           IN  /\ q \in RootShellSession /\ q.stream = s.stream /\ q.registered = s.registered /\ q.closed = s.closed
               /\ q.exited = s.exited /\ q.start = s.start /\ q.end = s.end /\ q.inputSeq = seq
               /\ q.inputData = data /\ q.pending = NoPending /\ q.offset = 0
BY DEF RootShellSession, NoPending, Input, Interval, Nothing

LEMMA SessionKeeps ==
    ASSUME NEW s \in RootShellSession, NEW p \in Input, NEW offset \in Nat
    PROVE  LET q == [s EXCEPT !.offset = offset, !.pending = p]
           IN  /\ q \in RootShellSession /\ q.stream = s.stream /\ q.registered = s.registered /\ q.closed = s.closed
               /\ q.exited = s.exited /\ q.start = s.start /\ q.end = s.end /\ q.inputSeq = s.inputSeq
               /\ q.inputData = s.inputData /\ q.pending = p /\ q.offset = offset
BY DEF RootShellSession

LEMMA BrowserTyped == ASSUME TypeOK PROVE browser \in Browser /\ typed \in Nat /\ browser.queued \in Nat /\ browser.queued <= typed
<1>1. browser \in Browser /\ typed \in Nat /\ browser.queued <= typed
  BY DEF TypeOK
<1> QED BY <1>1, BrowserFields

LEMMA SessionTyped == ASSUME TypeOK PROVE session \in RootShellSession /\ printed \in Nat
BY DEF TypeOK

(***************************************************************************)
(* Types.                                                                  *)
(***************************************************************************)

LEMMA TypeInit == Init => TypeOK
<1>1. Nothing \in Interval /\ NoPending \in Input /\ NoWrite \in WriteCall /\ NoRead \in ReadCall
  BY DEF Nothing, NoPending, NoWrite, NoRead, Interval, Input, WriteCall, ReadCall
<1>2. \A S : <<>> \in Seq(S)
  OBVIOUS
<1> SUFFICES ASSUME Init PROVE TypeOK
  OBVIOUS
<1>3. browser \in Browser /\ browser.queued <= typed
  BY <1>1 DEF Init, Browser
<1>4. session \in RootShellSession
  BY <1>1 DEF Init, RootShellSession
<1>5. portal \in [Transports -> MainState] /\ write \in [Transports -> WriteCall] /\ read \in [Transports -> ReadCall]
  BY <1>1 DEF Init, MainState
<1>6. /\ typed \in Nat /\ received \in Seq(Nat) /\ printed \in Nat /\ shown \in Seq(Nat) /\ mismatch \in BOOLEAN
      /\ up \in [Transports -> Seq(UpMessage)] /\ down \in [Transports -> Seq(DownMessage)]
  BY <1>2 DEF Init
<1> QED BY <1>3, <1>4, <1>5, <1>6 DEF TypeOK

LEMMA StoppedType == ASSUME TypeOK PROVE Stopped(browser) \in Browser /\ Stopped(browser).queued <= typed
<1>1. browser \in Browser /\ typed \in Nat
  BY BrowserTyped
<1>2. Stopped(browser) \in Browser /\ Stopped(browser).queued = 0
  BY <1>1, BrowserStops
<1> QED BY <1>1, <1>2

LEMMA TypeBrowserStep ==
    ASSUME TypeOK, ConnectionInv, OutputInv,
           Type \/ Connect \/ Stop \/ GiveUp \/ Disconnect \/ Flush \/ OnMessage \/ Rendered
    PROVE  TypeOK'
<1>1. CASE Type
  <2> DEFINE queued == browser.queued + 1
             timer == browser.timer \/ browser.pending = NoPending
  <2>1. browser' = [browser EXCEPT !.queued = queued, !.timer = timer] /\ typed' = typed + 1
    BY <1>1 DEF Type
  <2>2. queued \in Nat /\ timer \in BOOLEAN /\ queued <= typed' /\ typed' \in Nat
    BY <2>1, BrowserFields DEF TypeOK
  <2>3. \/ browser' = [browser EXCEPT !.queued = queued, !.timer = TRUE]
        \/ browser' = [browser EXCEPT !.queued = queued, !.timer = FALSE]
    BY <2>1, <2>2
  <2> HIDE DEF queued, timer
  <2>4. browser' \in Browser /\ browser'.queued = queued
    <3>1. browser \in Browser /\ queued \in Nat
      BY <2>2, BrowserTyped
    <3>2. CASE browser' = [browser EXCEPT !.queued = queued, !.timer = TRUE]
      BY ZenonT(60), <3>1, <3>2, BrowserTypes
    <3>3. CASE browser' = [browser EXCEPT !.queued = queued, !.timer = FALSE]
      BY ZenonT(60), <3>1, <3>3, BrowserTypes
    <3> QED BY <2>3, <3>2, <3>3
  <2> QED BY <1>1, <2>2, <2>4 DEF Type, TypeOK
<1>2. CASE Connect
  <2> DEFINE t == browser.last + 1
             m == [type |-> "hello", cursor |-> browser.cursor]
  <2>1. t \in Transports /\ browser' = [browser EXCEPT !.socket = t, !.last = t]
        /\ up' = [up EXCEPT ![t] = <<m>>] /\ portal' = [portal EXCEPT ![t].pc = "connected"]
    BY <1>2 DEF Connect
  <2>2. m \in UpMessage
    BY DEF TypeOK, Browser, UpMessage
  <2>3. <<m>> \in Seq(UpMessage)
    BY <2>2
  <2> HIDE DEF t, m
  <2>4. browser' \in Browser /\ browser'.queued <= typed /\ up' \in [Transports -> Seq(UpMessage)]
        /\ portal' \in [Transports -> MainState]
    BY <2>1, <2>3 DEF TypeOK, Browser, MainState
  <2> QED BY <1>2, <2>4 DEF Connect, TypeOK, ends
<1>3. CASE Stop \/ GiveUp
  BY <1>3, StoppedType DEF Stop, GiveUp, TypeOK, ends
<1>4. CASE Disconnect
  <2>1. browser' \in Browser /\ browser'.queued = browser.queued /\ down' \in [Transports -> Seq(DownMessage)]
    <3>1. <<>> \in Seq(DownMessage)
      OBVIOUS
    <3> QED BY <1>4, <3>1 DEF Disconnect, TypeOK, Browser
  <2> QED BY <1>4, <2>1 DEF Disconnect, TypeOK, ends
<1>5. CASE Flush
  <2>1. browser.connected => browser.socket \in Transports
    BY DEF ConnectionInv, SocketInv, TypeOK, Browser
  <2> QED BY <1>5, <2>1, Flushed DEF Flush, TypeOK, ends
<1>6. CASE OnMessage
  <2>1. CASE OnReady
    <3> DEFINE n == IF browser.pending = NoPending THEN Message.inputSeq + 1 ELSE browser.nextSeq
               b == [browser EXCEPT !.connected = TRUE, !.nextSeq = n]
    <3>1. Message.type = "ready" /\ Receives /\ FlushFrom(b) /\ UNCHANGED <<ends, portal, write, read, session, mismatch>>
      BY <2>1 DEF OnReady
    <3>2. Message.inputSeq \in Nat /\ browser.socket \in Transports /\ down' \in [Transports -> Seq(DownMessage)]
      BY <3>1, Taken1, Messaging
    <3>3. n \in Nat
      BY <3>2, BrowserFields DEF TypeOK
    <3> HIDE DEF n
    <3>4. b \in Browser /\ b.queued <= typed /\ b.socket \in Transports
      BY <3>2, <3>3, BrowserReady DEF TypeOK
    <3> HIDE DEF b
    <3> QED BY <3>1, <3>2, <3>4, Flushed DEF TypeOK, ends
  <2>2. CASE OnInputAck
    <3>1. Message.type = "input_ack" /\ Receives /\ UNCHANGED <<ends, portal, write, read, session>>
      BY <2>2 DEF OnInputAck
    <3>2. /\ Message.seq \in Nat /\ browser.socket \in Transports /\ down' \in [Transports -> Seq(DownMessage)]
      BY <3>1, Taken1, Messaging
    <3>3. browser' \in Browser /\ browser'.queued <= typed /\ up' \in [Transports -> Seq(UpMessage)]
          /\ mismatch' \in BOOLEAN
      <4>1. CASE browser' = Stopped(browser) /\ mismatch' = TRUE /\ UNCHANGED up
        BY <4>1, StoppedType DEF TypeOK
      <4>2. CASE FlushFrom([browser EXCEPT !.nextSeq = Message.seq + 1, !.pending = NoPending])
                 /\ UNCHANGED mismatch
        <5> DEFINE b == [browser EXCEPT !.nextSeq = Message.seq + 1, !.pending = NoPending]
        <5>1. Message.seq + 1 \in Nat
          BY <3>2
        <5>2. b \in Browser /\ b.queued <= typed /\ b.socket \in Transports
          <6>1. browser \in Browser /\ browser.queued <= typed
            BY BrowserTyped
          <6> QED BY ZenonT(60), <3>2, <5>1, <6>1, BrowserAcked
        <5>3. FlushFrom(b) /\ UNCHANGED mismatch
          BY <4>2
        <5> HIDE DEF b
        <5> QED BY <5>2, <5>3, Flushed DEF TypeOK
      <4>3. CASE browser' = (IF Message.alive THEN [browser EXCEPT !.timer = TRUE] ELSE Stopped(browser))
                 /\ UNCHANGED <<up, mismatch>>
        BY <4>3, StoppedType DEF TypeOK, Browser
      <4> QED BY <2>2, <4>1, <4>2, <4>3 DEF OnInputAck
    <3> QED BY <3>1, <3>2, <3>3 DEF TypeOK, ends
  <2>3. CASE OnOutput
    <3>1. Message.type = "output" /\ Receives /\ UNCHANGED <<ends, portal, write, read, session>>
      BY <2>3 DEF OnOutput
    <3>2. /\ Message.data \in Interval /\ browser.socket \in Transports /\ down' \in [Transports -> Seq(DownMessage)]
      BY <3>1, Taken1, Messaging
    <3>3. browser' \in Browser /\ browser'.queued <= typed /\ up' \in [Transports -> Seq(UpMessage)]
          /\ mismatch' \in BOOLEAN
      <4>1. CASE Ack(browser.socket, browser.cursor) /\ UNCHANGED <<browser, mismatch>>
        <5>1. [type |-> "ack", cursor |-> browser.cursor] \in UpMessage
          BY DEF TypeOK, Browser, UpMessage
        <5>2. up' \in [Transports -> Seq(UpMessage)]
          BY <4>1, <5>1, <3>2, PortalHears DEF Ack
        <5> QED BY <4>1, <5>2 DEF TypeOK
      <4>2. CASE browser' = Stopped(browser) /\ mismatch' = TRUE /\ UNCHANGED up
        BY <4>2, StoppedType DEF TypeOK
      <4>3. CASE browser' = [browser EXCEPT !.rendering = Message.data] /\ UNCHANGED <<up, mismatch>>
        BY <4>3, <3>2 DEF TypeOK, Browser
      <4> QED BY <2>3, <4>1, <4>2, <4>3 DEF OnOutput
    <3> QED BY <3>1, <3>2, <3>3 DEF TypeOK, ends
  <2>4. CASE OnEnd
    <3>1. down' \in [Transports -> Seq(DownMessage)]
      BY <2>4, Taken1 DEF OnEnd
    <3> QED BY <2>4, <3>1, StoppedType DEF OnEnd, TypeOK, ends
  <2> QED BY <1>6, <2>1, <2>2, <2>3, <2>4 DEF OnMessage
<1>7. CASE Rendered
  <2> DEFINE r == browser.rendering
  <2>1. r \in Interval /\ r # Nothing /\ r.from < r.to
    BY <1>7 DEF Rendered, OutputInv, ScreenInv, StreamInv, TypeOK, Browser
  <2>2. r.to - r.from \in Nat
    BY <2>1 DEF Interval
  <2>3. Characters(r) \in Seq(Nat)
    BY <2>1, <2>2 DEF Characters, Interval
  <2>4. shown' \in Seq(Nat)
    BY <1>7, <2>3 DEF Rendered, TypeOK
  <2> DEFINE cursor == IF browser.stopped THEN browser.cursor ELSE browser.cursor + (r.to - r.from)
  <2>5. browser' = [browser EXCEPT !.rendering = Nothing, !.cursor = cursor] /\ cursor \in Nat
    BY <1>7, <2>2, BrowserFields DEF Rendered, TypeOK
  <2> HIDE DEF cursor
  <2>6. browser' \in Browser /\ browser'.queued <= typed /\ browser'.socket = browser.socket
    BY ZenonT(60), <2>5, BrowserRendered DEF TypeOK
  <2>7. up' \in [Transports -> Seq(UpMessage)]
    <3>1. [type |-> "ack", cursor |-> browser'.cursor] \in UpMessage
      BY <2>6 DEF Browser, UpMessage
    <3>2. CASE browser.socket # Nobody
      BY <1>7, <3>1, <3>2, PortalHears DEF Rendered, Ack, TypeOK, Browser
    <3> QED BY <1>7, <3>2 DEF Rendered, TypeOK
  <2> QED BY <1>7, <2>4, <2>6, <2>7 DEF Rendered, TypeOK
<1> QED BY <1>1, <1>2, <1>3, <1>4, <1>5, <1>6, <1>7

\* The message that the portal takes from a WebSocket.
LEMMA Heard ==
    ASSUME TypeOK, NEW t \in Transports, up[t] # <<>>
    PROVE  /\ Next1(t) \in UpMessage /\ Next1(t) \in Messages(up[t]) /\ Tail(up[t]) \in Seq(UpMessage)
           /\ Messages(Tail(up[t])) \subseteq Messages(up[t])
           /\ \A k : Has(Tail(up[t]), k) => Has(up[t], k)
           /\ \A k : Only(up[t], k) => Only(Tail(up[t]), k)
           /\ \A k : Only(up[t], k) /\ Next1(t).type = k => ~Has(Tail(up[t]), k)
<1>1. up[t] \in Seq(UpMessage)
  BY DEF TypeOK
<1> QED BY <1>1, Taking DEF Next1

LEMMA TypePortalStep ==
    ASSUME TypeOK, OutputInv, ConnectionInv, NEW t \in Transports,
           MainThread(t) \/ OutputLoop(t) \/ RpcRefused(t) \/ RpcTimeout(t) \/ TransportEnds(t)
    PROVE  TypeOK'
<1>0. Nothing \in Interval /\ NoPending \in Input /\ NoWrite \in WriteCall /\ NoRead \in ReadCall
  BY DEF Nothing, NoPending, NoWrite, NoRead, Interval, Input, WriteCall, ReadCall
<1>1. CASE Hello(t)
  <2>1. Next1(t) \in UpMessage /\ Next1(t).type = "hello" /\ Tail(up[t]) \in Seq(UpMessage)
    BY <1>1, Heard DEF Hello, ConnectionInv, TransportInv
  <2>2. Next1(t).cursor \in Nat
    BY <2>1, Messaging
  <2>3. portal' \in [Transports -> MainState] /\ up' \in [Transports -> Seq(UpMessage)]
    BY <1>1, <2>1, <2>2 DEF Hello, TypeOK, MainState
  <2>4. read' \in [Transports -> ReadCall]
    BY <1>1, <2>2, <1>0 DEF Hello, TypeOK, ReadCall
  <2> QED BY <1>1, <2>3, <2>4 DEF Hello, TypeOK, ends
<1>2. CASE Attached(t)
  <2>1. [type |-> "ready", inputSeq |-> read[t].inputSeq] \in DownMessage
    BY DEF TypeOK, ReadCall, DownMessage
  <2>2. down' \in [Transports -> Seq(DownMessage)]
    BY <1>2, <2>1, BrowserHears DEF Attached
  <2>3. portal' \in [Transports -> MainState] /\ read' \in [Transports -> ReadCall]
    BY <1>2, <1>0 DEF Attached, TypeOK, MainState
  <2> QED BY <1>2, <2>2, <2>3 DEF Attached, TypeOK, ends
<1>3. CASE OnAck(t)
  <2>1. CASE Next1(t).cursor \in portal[t].cursor..portal[t].sent
             /\ portal' = [portal EXCEPT ![t].cursor = Next1(t).cursor] /\ up' = [up EXCEPT ![t] = Tail(@)]
             /\ UNCHANGED <<write, read, mismatch>>
    <3>1. Next1(t) \in UpMessage /\ Next1(t).type = "ack" /\ Tail(up[t]) \in Seq(UpMessage)
      BY <1>3, Heard DEF OnAck
    <3>2. Next1(t).cursor \in Nat
      BY <3>1, Messaging
    <3>3. portal' \in [Transports -> MainState] /\ up' \in [Transports -> Seq(UpMessage)]
      BY <2>1, <3>1, <3>2 DEF TypeOK, MainState
    <3> QED BY <1>3, <2>1, <3>3 DEF OnAck, TypeOK, ends
  <2>2. CASE End(t) /\ mismatch' = TRUE
    BY <1>3, <2>2, Ending DEF OnAck, TypeOK, ends
  <2> QED BY <1>3, <2>1, <2>2 DEF OnAck
<1>4. CASE OnInput(t)
  <2>1. Next1(t) \in UpMessage /\ Next1(t).type = "input" /\ Tail(up[t]) \in Seq(UpMessage)
    BY <1>4, Heard DEF OnInput
  <2>2. Next1(t).seq \in Nat /\ Next1(t).data \in Interval
    BY <2>1, Messaging
  <2>3. portal' \in [Transports -> MainState] /\ up' \in [Transports -> Seq(UpMessage)]
    BY <1>4, <2>1 DEF OnInput, TypeOK, MainState
  <2>4. write' \in [Transports -> WriteCall]
    BY <1>4, <2>2, <1>0 DEF OnInput, TypeOK, WriteCall
  <2> QED BY <1>4, <2>3, <2>4 DEF OnInput, TypeOK, ends
<1>5. CASE Written(t)
  <2>1. [type |-> "input_ack", seq |-> write[t].seq, complete |-> write[t].ok, alive |-> write[t].alive]
           \in DownMessage
    BY DEF TypeOK, WriteCall, DownMessage
  <2>2. down' \in [Transports -> Seq(DownMessage)]
    BY <1>5, <2>1, BrowserHears DEF Written
  <2>3. portal' \in [Transports -> MainState] /\ write' \in [Transports -> WriteCall]
    BY <1>5, <1>0 DEF Written, TypeOK, MainState
  <2> QED BY <1>5, <2>2, <2>3 DEF Written, TypeOK, ends
<1>6. CASE AskOutput(t)
  <2>1. read' \in [Transports -> ReadCall]
    BY <1>6, <1>0 DEF AskOutput, TypeOK, ReadCall, MainState
  <2> QED BY <1>6, <2>1 DEF AskOutput, TypeOK, ends
<1>7. CASE GetOutput(t)
  <2> DEFINE f == read[t].frame
             c == read[t].cursor + (f.to - f.from)
  <2>0. f \in Interval /\ c \in Nat /\ (f # Nothing => [type |-> "output", data |-> f, cursor |-> c] \in DownMessage)
    <3>1. f \in Interval /\ read[t].cursor \in Nat /\ (f # Nothing => f.from < f.to)
      BY <1>7 DEF GetOutput, TypeOK, ReadCall, OutputInv, ScreenInv, StreamInv
    <3>2. c \in Nat
      BY <3>1 DEF Interval, Nothing
    <3> HIDE DEF c
    <3> QED BY <3>1, <3>2 DEF DownMessage
  <2>1. CASE /\ read' = [read EXCEPT ![t] = NoRead] /\ UNCHANGED <<up, write>>
             /\ portal' = [portal EXCEPT ![t].sent = c]
             /\ IF f = Nothing THEN UNCHANGED down
                ELSE ToBrowser(t, [type |-> "output", data |-> f, cursor |-> c])
    <3>1. down' \in [Transports -> Seq(DownMessage)]
      <4>1. CASE f = Nothing
        BY <2>1, <4>1 DEF TypeOK
      <4>2. CASE f # Nothing
        BY <2>1, <2>0, <4>2, BrowserHears
      <4> QED BY <4>1, <4>2
    <3>2. portal' \in [Transports -> MainState] /\ read' \in [Transports -> ReadCall]
      BY <2>1, <2>0, <1>0 DEF TypeOK, MainState
    <3> QED BY <1>7, <2>1, <3>1, <3>2 DEF GetOutput, TypeOK, ends
  <2>2. CASE End(t) /\ ToBrowser(t, [type |-> "exit"])
    <3>1. [type |-> "exit"] \in DownMessage
      BY DEF DownMessage
    <3>2. down' \in [Transports -> Seq(DownMessage)]
      BY <2>2, <3>1, BrowserHears
    <3> QED BY <1>7, <2>2, <3>2, Ending DEF GetOutput, TypeOK, ends
  <2> QED BY <1>7, <2>1, <2>2 DEF GetOutput
<1>8. CASE Fail(t)
  <2>1. [type |-> "error"] \in DownMessage
    BY DEF DownMessage
  <2>2. down' \in [Transports -> Seq(DownMessage)]
    BY <1>8, <2>1, BrowserHears DEF Fail
  <2> QED BY <1>8, <2>2, Ending DEF Fail, TypeOK, ends
<1>9. CASE TransportEnds(t)
  BY <1>9, Ending DEF TransportEnds, TypeOK, ends
<1> QED BY <1>1, <1>2, <1>3, <1>4, <1>5, <1>6, <1>7, <1>8, <1>9
        DEF MainThread, OutputLoop, RpcRefused, RpcTimeout

\* The answer of a read is a frame of what is buffered, if anything is.
LEMMA Answered ==
    ASSUME TypeOK, NEW t \in Transports, NEW s \in RootShellSession, s.start <= s.end, Answers(t, s)
    PROVE  /\ read' \in [Transports -> ReadCall] /\ \A u \in Transports \ {t} : read'[u] = read[u]
           /\ IF portal[t].pc = "ended" THEN read'[t] = NoRead
              ELSE /\ read'[t].state = "answered" /\ read'[t].cursor = read[t].cursor
                   /\ read'[t].alive = ~s.closed /\ read'[t].inputSeq = s.inputSeq
                   /\ IF s.start = s.end THEN read'[t].frame = Nothing
                      ELSE /\ read'[t].frame # Nothing /\ read'[t].frame.from = s.start
                           /\ read'[t].frame.from < read'[t].frame.to /\ read'[t].frame.to <= s.end
<1>1. PICK to \in s.start..s.end :
        /\ to = s.start <=> s.start = s.end
        /\ ReadAnswered(t, [read[t] EXCEPT !.state = "answered", !.alive = ~s.closed, !.inputSeq = s.inputSeq,
                         !.frame = IF to = s.start THEN Nothing ELSE [from |-> s.start, to |-> to]])
  BY DEF Answers
<1> DEFINE f == IF to = s.start THEN Nothing ELSE [from |-> s.start, to |-> to]
           r == [read[t] EXCEPT !.state = "answered", !.alive = ~s.closed, !.inputSeq = s.inputSeq, !.frame = f]
<1>2. s.start \in Nat /\ to \in Nat /\ s.closed \in BOOLEAN /\ s.inputSeq \in Nat /\ s.end \in Nat
  BY DEF RootShellSession
<1>3. f \in Interval /\ IF s.start = s.end THEN f = Nothing
                        ELSE f # Nothing /\ f.from = s.start /\ f.from < f.to /\ f.to <= s.end
  BY <1>1, <1>2 DEF Interval, Nothing
<1> HIDE DEF f
<1>4. r \in ReadCall /\ r.state = "answered" /\ r.cursor = read[t].cursor /\ r.alive = ~s.closed
      /\ r.inputSeq = s.inputSeq /\ r.frame = f
  BY <1>2, <1>3 DEF TypeOK, ReadCall
<1>5. ReadAnswered(t, r)
  BY <1>1 DEF f
<1> HIDE DEF r
<1> QED BY <1>3, <1>4, <1>5, Answering

LEMMA RefusedRead ==
    ASSUME TypeOK, NEW t \in Transports, ReadRefused(t)
    PROVE  /\ read' \in [Transports -> ReadCall] /\ \A u \in Transports \ {t} : read'[u] = read[u]
           /\ read'[t] = IF portal[t].pc = "ended" THEN NoRead ELSE [read[t] EXCEPT !.state = "refused"]
<1>1. [read[t] EXCEPT !.state = "refused"] \in ReadCall
  BY DEF TypeOK, ReadCall
<1> QED BY <1>1, Answering DEF ReadRefused

LEMMA RefusedWrite ==
    ASSUME TypeOK, NEW t \in Transports, WriteRefused(t)
    PROVE  /\ write' \in [Transports -> WriteCall] /\ \A u \in Transports \ {t} : write'[u] = write[u]
           /\ write'[t] = IF portal[t].pc = "ended" THEN NoWrite ELSE [write[t] EXCEPT !.state = "refused"]
<1>1. [write[t] EXCEPT !.state = "refused"] \in WriteCall
  BY DEF TypeOK, WriteCall
<1> QED BY <1>1, Replying DEF WriteRefused

LEMMA AnsweredWrite ==
    ASSUME TypeOK, NEW t \in Transports, NEW ok \in BOOLEAN, WriteAnswered(t, ok)
    PROVE  /\ write' \in [Transports -> WriteCall] /\ \A u \in Transports \ {t} : write'[u] = write[u]
           /\ write'[t] = IF portal[t].pc = "ended" THEN NoWrite
                          ELSE [write[t] EXCEPT !.state = "answered", !.ok = ok, !.alive = ~session.closed]
<1>1. [write[t] EXCEPT !.state = "answered", !.ok = ok, !.alive = ~session.closed] \in WriteCall
  BY ZenonT(60) DEF TypeOK, WriteCall, RootShellSession
<1> QED BY <1>1, Replying DEF WriteAnswered

\* A part of an input is taken, the rest of it stays pending.
LEMMA NextWritten ==
    ASSUME TypeOK, NEW t \in Transports, WriteNext(t)
    PROVE  \E n \in Nat, ok \in BOOLEAN :
             /\ session.offset + n <= Length(write[t].data) /\ ok = (session.offset + n = Length(write[t].data))
             /\ received' \in Seq(Nat) /\ Len(received') = Len(received) + n
             /\ \A i \in 1..Len(received) : received'[i] = received[i]
             /\ \A i \in 1..n : received'[Len(received) + i] = write[t].data.from + session.offset + i
             /\ n = 0 => received' = received
             /\ WriteAnswered(t, ok)
             /\ session' = IF ok THEN [session EXCEPT !.inputSeq = write[t].seq, !.inputData = write[t].data,
                                                      !.pending = NoPending, !.offset = 0]
                           ELSE [session EXCEPT !.offset = session.offset + n,
                                                !.pending = [seq |-> write[t].seq, data |-> write[t].data]]
             /\ session' \in RootShellSession
<1> DEFINE data == write[t].data
           from == data.from + session.offset
<1>0. /\ data \in Interval /\ data.from \in Nat /\ data.to \in Nat /\ session.offset \in Nat /\ from \in Nat
      /\ write[t].seq \in Nat /\ received \in Seq(Nat) /\ Length(data) \in Int
  <2>1. data \in Interval /\ write[t].seq \in Nat /\ received \in Seq(Nat)
    BY DEF TypeOK, WriteCall
  <2>2. session.offset \in Nat
    BY SessionFields DEF TypeOK
  <2>3. data.from \in Nat /\ data.to \in Nat
    BY <2>1 DEF Interval
  <2> QED BY <2>1, <2>2, <2>3 DEF Length
<1>1. PICK n \in 0..Length(data) - session.offset :
       /\ Taken([data EXCEPT !.from = @ + session.offset], n)
       /\ IF session.offset + n = Length(data)
          THEN /\ session' = [session EXCEPT !.inputSeq = write[t].seq, !.inputData = data,
                                             !.pending = NoPending, !.offset = 0]
               /\ WriteAnswered(t, TRUE)
          ELSE /\ session' = [session EXCEPT !.offset = @ + n,
                                !.pending = [seq |-> write[t].seq, data |-> data]]
               /\ WriteAnswered(t, FALSE)
  BY DEF WriteNext
<1>2. n \in Nat /\ session.offset + n <= Length(data)
  BY <1>0, <1>1
<1> DEFINE new == [k \in 1..n |-> from + k]
<1>3. received' = received \o new
  <2> DEFINE x == [data EXCEPT !.from = @ + session.offset]
  <2>1. x.from = from
    BY <1>0 DEF Interval
  <2>2. received' = received \o Characters([from |-> x.from, to |-> x.from + n])
    BY <1>1 DEF Taken
  <2> HIDE DEF x
  <2>3. from + n - from = n /\ from \in Nat /\ n \in Nat
    BY <1>0, <1>2
  <2> DEFINE i == [from |-> from, to |-> from + n]
  <2>4. received' = received \o Characters(i)
    BY <2>1, <2>2
  <2> HIDE DEF from
  <2>5. i.from = from /\ i.to - i.from = n
    BY <2>3
  <2> HIDE DEF i
  <2>6. Characters(i) = [k \in 1..(i.to - i.from) |-> i.from + k]
    BY DEF Characters
  <2> QED BY <2>4, <2>5, <2>6
<1>4. new \in Seq(Nat) /\ Len(new) = n /\ \A i \in 1..n : new[i] = from + i
  BY <1>0, <1>2
<1> HIDE DEF new
<1>5. /\ received' \in Seq(Nat) /\ Len(received') = Len(received) + n
      /\ \A i \in 1..Len(received) : received'[i] = received[i]
      /\ \A i \in 1..n : received'[Len(received) + i] = new[i]
  <2> HIDE DEF from, data
  <2>1. received \in Seq(Nat) /\ new \in Seq(Nat) /\ n \in Nat /\ Len(new) = n
    BY <1>0, <1>2, <1>4
  <2>2. received \o new \in Seq(Nat) /\ Len(received \o new) = Len(received) + n
    BY SMTT(30), <2>1
  <2>3. \A i \in 1..Len(received) : (received \o new)[i] = received[i]
    BY <2>1
  <2>4. \A i \in 1..n : (received \o new)[Len(received) + i] = new[i]
    BY <2>1
  <2> QED BY <2>2, <2>3, <2>4, <1>3
<1>6. n = 0 => received' = received
  <2> SUFFICES ASSUME n = 0 PROVE received' = received
    OBVIOUS
  <2>1. new = <<>>
    BY <1>4
  <2> QED BY <2>1, <1>0, <1>3
<1>7. session' \in RootShellSession
  <2>1. NoPending \in Input /\ [seq |-> write[t].seq, data |-> data] \in Input
    BY <1>0 DEF NoPending, Input, Nothing, Interval
  <2>2. session \in RootShellSession
    BY DEF TypeOK
  <2>3. CASE session.offset + n = Length(data)
    <3>1. session' = [session EXCEPT !.inputSeq = write[t].seq, !.inputData = data, !.pending = NoPending, !.offset = 0]
      BY <1>1, <2>3
    <3> QED BY <1>0, <2>2, <3>1, SessionTakes
  <2>4. CASE session.offset + n # Length(data)
    <3>1. session.offset + n \in Nat
      BY <1>0, <1>2
    <3>2. session' = [session EXCEPT !.offset = session.offset + n, !.pending = [seq |-> write[t].seq, data |-> data]]
      BY <1>1, <2>4
    <3> QED BY <2>1, <2>2, <3>1, <3>2, SessionKeeps
  <2> QED BY <2>3, <2>4
<1> DEFINE ok == session.offset + n = Length(data)
<1>8. session.offset + n = session.offset + n /\ session' = IF ok THEN [session EXCEPT !.inputSeq = write[t].seq, !.inputData = data,
                                                      !.pending = NoPending, !.offset = 0]
                           ELSE [session EXCEPT !.offset = session.offset + n,
                                                !.pending = [seq |-> write[t].seq, data |-> data]]
  BY <1>1 DEF TypeOK, RootShellSession
<1>9. WriteAnswered(t, ok)
  <2>1. CASE ok
    <3>1. ok = TRUE
      BY <2>1
    <3> QED BY <1>1, <3>1
  <2>2. CASE ~ok
    <3>1. ok = FALSE
      BY <2>2
    <3> QED BY <1>1, <3>1
  <2> QED BY <2>1, <2>2
<1>10. ok \in BOOLEAN
  OBVIOUS
<1> HIDE DEF ok
<1>11. ok = (session.offset + n = Length(data))
  BY DEF ok
<1> QED
  <2> WITNESS n \in Nat, ok \in BOOLEAN
  <2> QED BY <1>2, <1>4, <1>5, <1>6, <1>7, <1>8, <1>9, <1>11

LEMMA TypeAgentStep ==
    ASSUME TypeOK, OutputInv, NEW t \in Transports, ServesRead(t) \/ OrderedWrite(t) \/ NotFound(t)
    PROVE  TypeOK'
<1>1. CASE Attach(t)
  <2>1. session' \in RootShellSession
    BY <1>1, SessionAttached DEF Attach, TypeOK
  <2>2. read' \in [Transports -> ReadCall]
    BY <1>1 DEF Attach, TypeOK, ReadCall
  <2> QED BY <1>1, <2>1, <2>2 DEF Attach, TypeOK, ends
<1>2. CASE ReadStream(t)
  <2>1. CASE ReadRefused(t) /\ UNCHANGED session /\ mismatch' \in BOOLEAN
    BY <1>2, <2>1, RefusedRead DEF ReadStream, TypeOK, ends
  <2>2. CASE /\ session.stream = t /\ read[t].cursor \in session.start..session.end
             /\ session' = [session EXCEPT !.start = read[t].cursor]
             /\ IF session'.start = session'.end /\ ~session'.closed
                THEN read' = [read EXCEPT ![t].state = "waiting"] ELSE Answers(t, session')
             /\ UNCHANGED mismatch
    <3>1. session' \in RootShellSession /\ session'.start <= session'.end
      <4>1. read[t].cursor \in Nat /\ session \in RootShellSession
        BY DEF TypeOK, ReadCall
      <4>2. session.start \in Nat /\ session.end \in Nat
        BY <4>1, SessionFields
      <4> QED BY <2>2, <4>1, <4>2, SessionStarts
    <3>2. read' \in [Transports -> ReadCall]
      <4>1. CASE read' = [read EXCEPT ![t].state = "waiting"]
        BY <4>1 DEF TypeOK, ReadCall
      <4> QED BY <2>2, <3>1, <4>1, Answered
    <3> QED BY <1>2, <2>2, <3>1, <3>2 DEF ReadStream, TypeOK, ends
  <2> QED BY <1>2, <2>1, <2>2 DEF ReadStream, TypeOK
<1>3. CASE ReadWakes(t)
  <2>1. session \in RootShellSession /\ session.start <= session.end
    BY DEF TypeOK, OutputInv, ScreenInv, StreamInv
  <2>2. read' \in [Transports -> ReadCall]
    BY <1>3, <2>1, Answered, RefusedRead DEF ReadWakes
  <2> QED BY <1>3, <2>2 DEF ReadWakes, TypeOK, ends
<1>4. CASE OrderedWrite(t)
  <2>1. write' \in [Transports -> WriteCall] /\ session' \in RootShellSession /\ received' \in Seq(Nat)
        /\ mismatch' \in BOOLEAN
    <3>1. CASE WriteRefused(t) /\ UNCHANGED <<received, session>> /\ mismatch' \in BOOLEAN
      BY <3>1, RefusedWrite DEF TypeOK
    <3>2. CASE WriteAnswered(t, TRUE) /\ UNCHANGED <<received, session, mismatch>>
      BY <3>2, AnsweredWrite DEF TypeOK
    <3>3. CASE WriteNext(t) /\ UNCHANGED mismatch
      <4>1. PICK n \in Nat, ok \in BOOLEAN :
              received' \in Seq(Nat) /\ WriteAnswered(t, ok) /\ session' \in RootShellSession
        BY <3>3, NextWritten
      <4> QED BY <3>3, <4>1, AnsweredWrite DEF TypeOK
    <3> QED BY <1>4, <3>1, <3>2, <3>3 DEF OrderedWrite, TypeOK
  <2> QED BY <1>4, <2>1 DEF OrderedWrite, TypeOK
<1>5. CASE NotFound(t)
  <2>1. write' \in [Transports -> WriteCall] /\ read' \in [Transports -> ReadCall]
    BY <1>5, RefusedRead, RefusedWrite DEF NotFound, TypeOK
  <2> QED BY <1>5, <2>1 DEF NotFound, TypeOK, ends
<1> QED BY <1>1, <1>2, <1>3, <1>4, <1>5 DEF ServesRead

LEMMA TypeShellStep ==
    ASSUME TypeOK, Pump \/ PumpEnds \/ Close \/ PtyPrints \/ Exit
    PROVE  TypeOK'
<1>1. CASE Pump
  <2>1. session' \in RootShellSession
    <3>1. PICK end \in session.end + 1..printed : session' = [session EXCEPT !.end = end]
      BY <1>1 DEF Pump
    <3>2. session \in RootShellSession /\ session.end \in Nat /\ printed \in Nat
      BY SessionFields DEF TypeOK
    <3>3. end \in Nat
      BY <3>2
    <3> QED BY <3>1, <3>2, <3>3, SessionFills
  <2> QED BY <1>1, <2>1 DEF Pump, TypeOK, ends
<1>2. CASE PumpEnds \/ Close \/ Exit
  <2>1. session' \in RootShellSession
    BY <1>2 DEF PumpEnds, Close, Exit, TypeOK, RootShellSession
  <2> QED BY <1>2, <2>1 DEF PumpEnds, Close, Exit, TypeOK, ends
<1>3. CASE PtyPrints
  BY <1>3 DEF PtyPrints, TypeOK
<1> QED BY <1>1, <1>2, <1>3

(***************************************************************************)
(* What the steps of the portal do to their transport.                     *)
(***************************************************************************)

LEMMA CallFields ==
    /\ NoWrite \in WriteCall /\ NoWrite.state = "none" /\ NoWrite.ok = FALSE /\ NoWrite.seq = 0
    /\ NoRead \in ReadCall /\ NoRead.state = "none" /\ NoRead.cursor = 0 /\ NoRead.frame = Nothing
BY DEF NoWrite, NoRead, WriteCall, ReadCall, Nothing, Interval

LEMMA TransportTyped ==
    ASSUME TypeOK, NEW t \in Transports
    PROVE  /\ portal[t] \in MainState /\ write[t] \in WriteCall /\ read[t] \in ReadCall
           /\ up[t] \in Seq(UpMessage) /\ down[t] \in Seq(DownMessage)
BY DEF TypeOK

LEMMA MainFields ==
    ASSUME NEW p \in MainState
    PROVE  /\ p.pc \in {"none", "connected", "attaching", "open", "writing", "ended"}
           /\ p.cursor \in Nat /\ p.sent \in Nat
           /\ \A pc \in {"none", "connected", "attaching", "open", "writing", "ended"} :
                LET q == [p EXCEPT !.pc = pc]
                IN  q \in MainState /\ q.pc = pc /\ q.cursor = p.cursor /\ q.sent = p.sent
           /\ \A n \in Nat :
                LET q == [p EXCEPT !.cursor = n]
                IN  q \in MainState /\ q.pc = p.pc /\ q.cursor = n /\ q.sent = p.sent
           /\ \A n \in Nat :
                LET q == [p EXCEPT !.sent = n]
                IN  q \in MainState /\ q.pc = p.pc /\ q.cursor = p.cursor /\ q.sent = n
BY DEF MainState

LEMMA ReadFields ==
    ASSUME NEW r \in ReadCall
    PROVE  /\ r.state \in {"none", "attach", "sent", "waiting", "answered", "refused"}
           /\ r.cursor \in Nat /\ r.frame \in Interval /\ r.alive \in BOOLEAN /\ r.inputSeq \in Nat
BY DEF ReadCall

LEMMA WriteFields ==
    ASSUME NEW w \in WriteCall
    PROVE  /\ w.state \in {"none", "sent", "answered", "refused"}
           /\ w.seq \in Nat /\ w.data \in Interval /\ w.ok \in BOOLEAN /\ w.alive \in BOOLEAN
BY DEF WriteCall

\* Nothing happens to the other transports.
Alone(t) == \A u \in Transports \ {t} :
    up'[u] = up[u] /\ down'[u] = down[u] /\ portal'[u] = portal[u] /\ write'[u] = write[u] /\ read'[u] = read[u]

\* A message of the portal is on its way, if the browser still listens.
Gets(t, m) == m \in DownMessage /\ down'[t] = IF browser.socket = t THEN Append(down[t], m) ELSE down[t]

\* The transport has ended; what the agent has not answered goes on.
Over(t) ==
    /\ up'[t] = <<>> /\ portal'[t].pc = "ended"
    /\ portal'[t].cursor = portal[t].cursor /\ portal'[t].sent = portal[t].sent
    /\ write'[t] = IF write[t].state = "sent" THEN write[t] ELSE NoWrite
    /\ read'[t] = IF read[t].state \in {"attach", "sent", "waiting"} THEN read[t] ELSE NoRead

LEMMA EndEffect == ASSUME TypeOK, NEW t \in Transports, End(t) PROVE Over(t)
<1>1. portal'[t] = [portal[t] EXCEPT !.pc = "ended"] /\ portal[t] \in MainState
  BY Ending, TransportTyped
<1>2. portal'[t].pc = "ended" /\ portal'[t].cursor = portal[t].cursor /\ portal'[t].sent = portal[t].sent
  BY <1>1, MainFields
<1> QED BY <1>2, Ending DEF Over

LEMMA HelloEffect ==
    ASSUME TypeOK, NEW t \in Transports, Hello(t), Next1(t).type = "hello"
    PROVE  /\ Alone(t) /\ UNCHANGED <<ends, browser, session, mismatch>>
           /\ portal[t].pc = "connected" /\ up[t] # <<>> /\ up'[t] = Tail(up[t]) /\ down'[t] = down[t]
           /\ portal'[t].pc = "attaching" /\ portal'[t].cursor = Next1(t).cursor /\ portal'[t].sent = Next1(t).cursor
           /\ write'[t] = write[t]
           /\ read'[t].state = "attach" /\ read'[t].cursor = Next1(t).cursor /\ read'[t].frame = Nothing
<1>1. Next1(t) \in UpMessage /\ Next1(t).cursor \in Nat
  BY Heard, Messaging DEF Hello
<1>2. Alone(t) /\ UNCHANGED <<ends, browser, session, mismatch>> /\ up'[t] = Tail(up[t]) /\ down'[t] = down[t]
      /\ write'[t] = write[t]
  BY DEF Hello, TypeOK, Alone
<1>3. portal'[t].pc = "attaching" /\ portal'[t].cursor = Next1(t).cursor /\ portal'[t].sent = Next1(t).cursor
  BY DEF Hello, TypeOK
<1>4. read'[t].state = "attach" /\ read'[t].cursor = Next1(t).cursor /\ read'[t].frame = Nothing
  BY <1>1 DEF Hello, TypeOK, NoRead
<1> QED BY <1>2, <1>3, <1>4 DEF Hello

LEMMA AttachedEffect ==
    ASSUME TypeOK, NEW t \in Transports, Attached(t)
    PROVE  /\ Alone(t) /\ UNCHANGED <<ends, browser, session, mismatch>>
           /\ portal[t].pc = "attaching" /\ read[t].state = "answered"
           /\ up'[t] = up[t] /\ Gets(t, [type |-> "ready", inputSeq |-> read[t].inputSeq])
           /\ portal'[t].pc = "open" /\ portal'[t].cursor = portal[t].cursor /\ portal'[t].sent = portal[t].sent
           /\ write'[t] = write[t] /\ read'[t] = NoRead
<1>1. [type |-> "ready", inputSeq |-> read[t].inputSeq] \in DownMessage
  BY TransportTyped, ReadFields DEF DownMessage
<1>2. Gets(t, [type |-> "ready", inputSeq |-> read[t].inputSeq]) /\ \A u \in Transports \ {t} : down'[u] = down[u]
  BY <1>1, BrowserHears DEF Attached, Gets
<1>3. Alone(t) /\ UNCHANGED <<ends, browser, session, mismatch>> /\ up'[t] = up[t] /\ write'[t] = write[t] /\ read'[t] = NoRead
  BY <1>2 DEF Attached, TypeOK, Alone
<1>4. portal'[t] = [portal[t] EXCEPT !.pc = "open"]
  BY DEF Attached, TypeOK
<1>5. portal'[t].pc = "open" /\ portal'[t].cursor = portal[t].cursor /\ portal'[t].sent = portal[t].sent
  BY <1>4, TransportTyped, MainFields
<1> QED BY <1>2, <1>3, <1>5 DEF Attached

LEMMA OnAckEffect ==
    ASSUME TypeOK, NEW t \in Transports, OnAck(t)
    PROVE  /\ Alone(t) /\ UNCHANGED <<ends, browser, session>>
           /\ portal[t].pc = "open" /\ up[t] # <<>> /\ Next1(t).type = "ack" /\ down'[t] = down[t]
           /\ \/ /\ Next1(t).cursor \in portal[t].cursor..portal[t].sent /\ up'[t] = Tail(up[t])
                 /\ portal'[t].pc = "open" /\ portal'[t].cursor = Next1(t).cursor /\ portal'[t].sent = portal[t].sent
                 /\ write'[t] = write[t] /\ read'[t] = read[t] /\ mismatch' = mismatch
              \/ Next1(t).cursor \notin portal[t].cursor..portal[t].sent /\ Over(t)
<1>1. portal[t].pc = "open" /\ up[t] # <<>> /\ Next1(t).type = "ack" /\ UNCHANGED <<ends, browser, down, session>>
  BY DEF OnAck
<1>2. CASE /\ Next1(t).cursor \in portal[t].cursor..portal[t].sent
           /\ portal' = [portal EXCEPT ![t].cursor = Next1(t).cursor]
           /\ up' = [up EXCEPT ![t] = Tail(@)]
           /\ UNCHANGED <<write, read, mismatch>>
  <2>1. Next1(t).cursor \in Nat
    BY <1>1, Heard, Messaging
  <2>2. portal'[t] = [portal[t] EXCEPT !.cursor = Next1(t).cursor] /\ Alone(t) /\ up'[t] = Tail(up[t])
        /\ write'[t] = write[t] /\ read'[t] = read[t]
    BY <1>1, <1>2 DEF TypeOK, Alone
  <2>3. portal'[t].pc = portal[t].pc /\ portal'[t].cursor = Next1(t).cursor /\ portal'[t].sent = portal[t].sent
    BY <2>1, <2>2, TransportTyped, MainFields
  <2> QED BY <1>1, <1>2, <2>2, <2>3
<1>3. CASE Next1(t).cursor \notin portal[t].cursor..portal[t].sent /\ End(t)
  BY <1>1, <1>3, Ending, EndEffect DEF Alone
<1> QED BY <1>2, <1>3 DEF OnAck

LEMMA OnInputEffect ==
    ASSUME TypeOK, NEW t \in Transports, OnInput(t)
    PROVE  /\ Alone(t) /\ UNCHANGED <<ends, browser, session, mismatch>>
           /\ portal[t].pc = "open" /\ up[t] # <<>> /\ Next1(t).type = "input" /\ up'[t] = Tail(up[t])
           /\ down'[t] = down[t]
           /\ portal'[t].pc = "writing" /\ portal'[t].cursor = portal[t].cursor /\ portal'[t].sent = portal[t].sent
           /\ write'[t].state = "sent" /\ write'[t].seq = Next1(t).seq /\ write'[t].data = Next1(t).data
           /\ read'[t] = read[t]
<1>1. /\ Alone(t) /\ UNCHANGED <<ends, browser, session, mismatch>>
      /\ portal[t].pc = "open" /\ up[t] # <<>> /\ Next1(t).type = "input" /\ up'[t] = Tail(up[t])
      /\ down'[t] = down[t] /\ portal'[t] = [portal[t] EXCEPT !.pc = "writing"] /\ read'[t] = read[t]
  BY DEF OnInput, TypeOK, Alone
<1>2. portal'[t].pc = "writing" /\ portal'[t].cursor = portal[t].cursor /\ portal'[t].sent = portal[t].sent
  BY <1>1, TransportTyped, MainFields
<1>3. write'[t] = [NoWrite EXCEPT !.state = "sent", !.seq = Next1(t).seq, !.data = Next1(t).data]
  BY DEF OnInput, TypeOK
<1>4. write'[t].state = "sent" /\ write'[t].seq = Next1(t).seq /\ write'[t].data = Next1(t).data
  BY <1>3 DEF NoWrite
<1> QED BY <1>1, <1>2, <1>4

LEMMA WrittenEffect ==
    ASSUME TypeOK, NEW t \in Transports, Written(t)
    PROVE  /\ Alone(t) /\ UNCHANGED <<ends, browser, session, mismatch>>
           /\ portal[t].pc = "writing" /\ write[t].state = "answered" /\ up'[t] = up[t]
           /\ Gets(t, [type |-> "input_ack", seq |-> write[t].seq, complete |-> write[t].ok, alive |-> write[t].alive])
           /\ portal'[t].pc = "open" /\ portal'[t].cursor = portal[t].cursor /\ portal'[t].sent = portal[t].sent
           /\ write'[t] = NoWrite /\ read'[t] = read[t]
<1> DEFINE m == [type |-> "input_ack", seq |-> write[t].seq, complete |-> write[t].ok, alive |-> write[t].alive]
<1>1. m \in DownMessage
  BY TransportTyped, WriteFields DEF DownMessage
<1>2. ToBrowser(t, m) /\ portal[t].pc = "writing" /\ write[t].state = "answered" /\ UNCHANGED <<ends, browser, up, read, session, mismatch>>
      /\ write' = [write EXCEPT ![t] = NoWrite] /\ portal' = [portal EXCEPT ![t].pc = "open"]
  BY DEF Written
<1> HIDE DEF m
<1>3. Gets(t, m) /\ \A u \in Transports \ {t} : down'[u] = down[u]
  BY <1>1, <1>2, BrowserHears DEF Gets
<1>4. Alone(t) /\ up'[t] = up[t] /\ read'[t] = read[t] /\ write'[t] = NoWrite /\ portal'[t] = [portal[t] EXCEPT !.pc = "open"]
  BY <1>2, <1>3 DEF TypeOK, Alone
<1>5. portal'[t].pc = "open" /\ portal'[t].cursor = portal[t].cursor /\ portal'[t].sent = portal[t].sent
  BY <1>4, TransportTyped, MainFields
<1> QED BY <1>2, <1>3, <1>4, <1>5 DEF m

LEMMA AskOutputEffect ==
    ASSUME TypeOK, NEW t \in Transports, AskOutput(t)
    PROVE  /\ Alone(t) /\ UNCHANGED <<ends, browser, session, mismatch>>
           /\ portal[t].pc \in {"open", "writing"} /\ read[t].state = "none" /\ portal[t].cursor = portal[t].sent
           /\ up'[t] = up[t] /\ down'[t] = down[t] /\ portal'[t] = portal[t] /\ write'[t] = write[t]
           /\ read'[t].state = "sent" /\ read'[t].cursor = portal[t].cursor /\ read'[t].frame = Nothing
<1>1. read'[t] = [NoRead EXCEPT !.state = "sent", !.cursor = portal[t].cursor]
  BY DEF AskOutput, TypeOK
<1>2. read'[t].state = "sent" /\ read'[t].cursor = portal[t].cursor /\ read'[t].frame = Nothing
  BY <1>1 DEF NoRead
<1> QED BY <1>2 DEF AskOutput, TypeOK, Alone

LEMMA GetOutputEffect ==
    ASSUME TypeOK, NEW t \in Transports, GetOutput(t),
           read[t].state = "answered" /\ read[t].frame # Nothing => read[t].frame.from < read[t].frame.to
    PROVE  /\ Alone(t) /\ UNCHANGED <<ends, browser, session, mismatch>>
           /\ portal[t].pc \in {"open", "writing"} /\ read[t].state = "answered"
           /\ \/ /\ read[t].frame = Nothing /\ up'[t] = up[t] /\ down'[t] = down[t]
                 /\ portal'[t].pc = portal[t].pc /\ portal'[t].cursor = portal[t].cursor
                 /\ portal'[t].sent = read[t].cursor
                 /\ write'[t] = write[t] /\ read'[t] = NoRead
              \/ /\ read[t].frame # Nothing /\ up'[t] = up[t]
                 /\ portal'[t].pc = portal[t].pc /\ portal'[t].cursor = portal[t].cursor
                 /\ portal'[t].sent = read[t].cursor + (read[t].frame.to - read[t].frame.from)
                 /\ Gets(t, [type |-> "output", data |-> read[t].frame, cursor |-> portal'[t].sent])
                 /\ write'[t] = write[t] /\ read'[t] = NoRead
              \/ Over(t) /\ Gets(t, [type |-> "exit"])
<1> DEFINE f == read[t].frame
           c == read[t].cursor + (f.to - f.from)
<1>1. portal[t].pc \in {"open", "writing"} /\ read[t].state = "answered" /\ UNCHANGED <<ends, browser, session, mismatch>>
  BY DEF GetOutput
<1>2. f \in Interval /\ read[t].cursor \in Nat /\ (f # Nothing => f.from < f.to)
  BY <1>1, TransportTyped, ReadFields
<1>3. f.from \in Nat /\ f.to \in Nat
  BY <1>2 DEF Interval
<1>4. c \in Nat /\ (f = Nothing => c = read[t].cursor)
  <2>1. f = Nothing => f.from = 0 /\ f.to = 0
    BY DEF Nothing
  <2> QED BY <1>2, <1>3, <2>1
<1>5. CASE /\ read' = [read EXCEPT ![t] = NoRead] /\ UNCHANGED <<up, write>>
           /\ portal' = [portal EXCEPT ![t].sent = c]
           /\ IF f = Nothing THEN UNCHANGED down
              ELSE ToBrowser(t, [type |-> "output", data |-> f, cursor |-> c])
  <2> HIDE DEF c
  <2>1. portal'[t] = [portal[t] EXCEPT !.sent = c] /\ read'[t] = NoRead /\ up'[t] = up[t] /\ write'[t] = write[t]
        /\ \A u \in Transports \ {t} : up'[u] = up[u] /\ portal'[u] = portal[u] /\ write'[u] = write[u] /\ read'[u] = read[u]
    BY <1>5 DEF TypeOK
  <2>2. portal'[t].pc = portal[t].pc /\ portal'[t].cursor = portal[t].cursor /\ portal'[t].sent = c
    BY <1>4, <2>1, TransportTyped, MainFields
  <2>3. CASE f = Nothing
    <3>1. Alone(t) /\ down'[t] = down[t]
      BY <1>5, <2>1, <2>3 DEF Alone
    <3> QED BY <1>1, <1>4, <2>1, <2>2, <2>3, <3>1
  <2>4. CASE f # Nothing
    <3> DEFINE m == [type |-> "output", data |-> f, cursor |-> c]
    <3>1. m \in DownMessage
      BY <1>2, <1>4 DEF DownMessage
    <3>2. ToBrowser(t, m)
      BY <1>5, <2>4
    <3> HIDE DEF m
    <3>3. Gets(t, m) /\ \A u \in Transports \ {t} : down'[u] = down[u]
      BY <3>1, <3>2, BrowserHears DEF Gets
    <3>4. Alone(t) /\ m = [type |-> "output", data |-> read[t].frame, cursor |-> portal'[t].sent]
      BY <2>1, <2>2, <3>3 DEF Alone, m
    <3> QED BY <1>1, <2>1, <2>2, <2>4, <3>3, <3>4 DEF c
  <2> QED BY <2>3, <2>4
<1>6. CASE End(t) /\ ToBrowser(t, [type |-> "exit"])
  <2>1. [type |-> "exit"] \in DownMessage
    BY DEF DownMessage
  <2>2. Gets(t, [type |-> "exit"]) /\ \A u \in Transports \ {t} : down'[u] = down[u]
    BY <1>6, <2>1, BrowserHears DEF Gets
  <2> QED BY <1>1, <1>6, <2>2, Ending, EndEffect DEF Alone
<1> QED BY <1>5, <1>6 DEF GetOutput

LEMMA FailEffect ==
    ASSUME TypeOK, NEW t \in Transports, Fail(t) \/ TransportEnds(t)
    PROVE  /\ Alone(t) /\ UNCHANGED <<ends, browser, session, mismatch>> /\ Over(t)
           /\ down'[t] = down[t] \/ Gets(t, [type |-> "error"])
<1>1. End(t) /\ UNCHANGED <<ends, browser, session, mismatch>>
  BY DEF Fail, TransportEnds
<1>2. CASE Fail(t)
  <2>1. [type |-> "error"] \in DownMessage
    BY DEF DownMessage
  <2>2. Gets(t, [type |-> "error"]) /\ \A u \in Transports \ {t} : down'[u] = down[u]
    BY <1>2, <2>1, BrowserHears DEF Fail, Gets
  <2> QED BY <1>1, <2>2, Ending, EndEffect DEF Alone
<1>3. CASE TransportEnds(t)
  BY <1>1, <1>3, Ending, EndEffect DEF Alone, TransportEnds
<1> QED BY <1>2, <1>3

(***************************************************************************)
(* What the steps of the browser do.                                       *)
(***************************************************************************)

\* Only the browser and the messages move.
Outside == UNCHANGED <<received, printed, portal, write, read, session>>

\* A message of the browser is on its way, unless the portal has ended the connection.
Puts(t, m) ==
    /\ t \in Transports /\ m \in UpMessage
    /\ \A u \in Transports \ {t} : up'[u] = up[u]
    /\ up'[t] = IF portal[t].pc = "ended" THEN up[t] ELSE Append(up[t], m)

\* The connections of the browser are those of b.
Keeps(b) == /\ browser'.socket = b.socket /\ browser'.last = b.last /\ browser'.connected = b.connected
            /\ browser'.stopped = b.stopped

\* What has been flushed, from b: nothing, what is pending, or a part of the queue.
Flushes(b) ==
    /\ Keeps(b) /\ browser'.cursor = b.cursor /\ browser'.nextSeq = b.nextSeq
    /\ browser'.rendering = b.rendering /\ browser'.timer = FALSE
    /\ \/ /\ up' = up /\ browser'.pending = b.pending /\ browser'.queued = b.queued
          /\ ~b.connected \/ (b.pending = NoPending /\ b.queued = 0)
       \/ /\ b.connected /\ Puts(b.socket, InputMessage(browser'.pending))
          /\ \/ b.pending # NoPending /\ browser'.pending = b.pending /\ browser'.queued = b.queued
             \/ /\ b.pending = NoPending
                /\ \E n \in 1..b.queued :
                     /\ browser'.queued = b.queued - n
                     /\ browser'.pending = [seq |-> b.nextSeq,
                          data |-> [from |-> typed - b.queued, to |-> typed - b.queued + n]]

LEMMA FlushEffect ==
    ASSUME TypeOK, NEW b \in Browser, b.queued <= typed, FlushFrom(b), b.connected => b.socket \in Transports
    PROVE  Flushes(b)
<1>1. /\ browser' \in Browser
      /\ browser' = [b EXCEPT !.timer = FALSE, !.pending = browser'.pending, !.queued = browser'.queued]
  BY Flushed
<1>2. \A p \in Input, n \in Nat : LET q == [b EXCEPT !.timer = FALSE, !.pending = p, !.queued = n]
        IN  /\ q.socket = b.socket /\ q.last = b.last /\ q.connected = b.connected /\ q.stopped = b.stopped
            /\ q.cursor = b.cursor /\ q.nextSeq = b.nextSeq /\ q.rendering = b.rendering /\ q.timer = FALSE
  BY DEF Browser
<1>3. browser'.pending \in Input /\ browser'.queued \in Nat
  BY <1>1, BrowserFields
<1>4. /\ Keeps(b) /\ browser'.cursor = b.cursor /\ browser'.nextSeq = b.nextSeq
      /\ browser'.rendering = b.rendering /\ browser'.timer = FALSE
  BY ZenonT(60), <1>1, <1>2, <1>3 DEF Keeps
<1>5. b.connected => b.socket \in Transports
  OBVIOUS
<1>6. \/ /\ up' = up /\ browser'.pending = b.pending /\ browser'.queued = b.queued
         /\ ~b.connected \/ (b.pending = NoPending /\ b.queued = 0)
      \/ /\ b.connected /\ Puts(b.socket, InputMessage(browser'.pending))
         /\ \/ b.pending # NoPending /\ browser'.pending = b.pending /\ browser'.queued = b.queued
            \/ /\ b.pending = NoPending
               /\ \E n \in 1..b.queued :
                     /\ browser'.queued = b.queued - n
                     /\ browser'.pending = [seq |-> b.nextSeq,
                          data |-> [from |-> typed - b.queued, to |-> typed - b.queued + n]]
  BY <1>5, Flushed DEF Puts
<1> QED BY <1>4, <1>6 DEF Flushes

\* The next message of the portal is taken.
TakesDown ==
    /\ browser.socket \in Transports /\ down[browser.socket] # <<>>
    /\ Message = Head(down[browser.socket]) /\ Message \in DownMessage /\ Message \in Messages(down[browser.socket])
    /\ \A u \in Transports \ {browser.socket} : down'[u] = down[u]
    /\ down'[browser.socket] = Tail(down[browser.socket])

\* The browser stops.
Stops ==
    /\ browser'.socket = Nobody /\ browser'.last = browser.last /\ browser'.connected = FALSE
    /\ browser'.stopped = TRUE /\ browser'.cursor = browser.cursor /\ browser'.nextSeq = browser.nextSeq
    /\ browser'.queued = 0 /\ browser'.pending = NoPending /\ browser'.timer = FALSE
    /\ browser'.rendering = browser.rendering

LEMMA StopsEffect == ASSUME TypeOK, browser' = Stopped(browser) PROVE Stops
BY BrowserTyped, BrowserStops DEF Stops

LEMMA TypeEffect ==
    ASSUME TypeOK, Type
    PROVE  /\ Outside /\ UNCHANGED <<shown, up, down, mismatch>>
           /\ ~browser.stopped /\ typed' = typed + 1
           /\ Keeps(browser) /\ browser'.cursor = browser.cursor /\ browser'.nextSeq = browser.nextSeq
           /\ browser'.rendering = browser.rendering /\ browser'.pending = browser.pending
           /\ browser'.queued = browser.queued + 1
           /\ browser'.timer = (browser.timer \/ browser.pending = NoPending)
<1> DEFINE queued == browser.queued + 1
           timer == browser.timer \/ browser.pending = NoPending
<1>1. browser' = [browser EXCEPT !.queued = queued, !.timer = timer] /\ typed' = typed + 1
      /\ Outside /\ UNCHANGED <<shown, up, down, mismatch>> /\ ~browser.stopped
  BY DEF Type, Outside
<1>2. queued \in Nat /\ browser \in Browser
  BY BrowserTyped
<1>3. CASE timer
  <2>1. browser' = [browser EXCEPT !.queued = queued, !.timer = TRUE]
    BY <1>1, <1>3
  <2> HIDE DEF queued
  <2>2. browser'.timer = TRUE
    BY <1>2, <2>1 DEF Browser
  <2>a. /\ browser'.queued = queued /\ browser'.socket = browser.socket /\ browser'.last = browser.last
        /\ browser'.connected = browser.connected /\ browser'.stopped = browser.stopped
        /\ browser'.cursor = browser.cursor /\ browser'.nextSeq = browser.nextSeq
        /\ browser'.pending = browser.pending /\ browser'.rendering = browser.rendering
    <3>1. browser \in Browser /\ queued \in Nat
      BY <1>2
    <3> QED BY <2>1, <3>1 DEF Browser
  <2>3. Keeps(browser) /\ browser'.cursor = browser.cursor /\ browser'.nextSeq = browser.nextSeq
        /\ browser'.rendering = browser.rendering /\ browser'.pending = browser.pending
        /\ browser'.queued = queued
    BY <2>a DEF Keeps
  <2> QED BY <1>1, <1>3, <2>2, <2>3 DEF queued
<1>4. CASE ~timer
  <2>1. browser' = [browser EXCEPT !.queued = queued, !.timer = FALSE]
    BY <1>1, <1>4
  <2> HIDE DEF queued
  <2>2. browser'.timer = FALSE
    BY <1>2, <2>1 DEF Browser
  <2>a. /\ browser'.queued = queued /\ browser'.socket = browser.socket /\ browser'.last = browser.last
        /\ browser'.connected = browser.connected /\ browser'.stopped = browser.stopped
        /\ browser'.cursor = browser.cursor /\ browser'.nextSeq = browser.nextSeq
        /\ browser'.pending = browser.pending /\ browser'.rendering = browser.rendering
    <3>1. browser \in Browser /\ queued \in Nat
      BY <1>2
    <3> QED BY <2>1, <3>1 DEF Browser
  <2>3. Keeps(browser) /\ browser'.cursor = browser.cursor /\ browser'.nextSeq = browser.nextSeq
        /\ browser'.rendering = browser.rendering /\ browser'.pending = browser.pending
        /\ browser'.queued = queued
    BY <2>a DEF Keeps
  <2> QED BY <1>1, <1>4, <2>2, <2>3 DEF queued
<1> QED BY <1>3, <1>4

LEMMA ConnectEffect ==
    ASSUME TypeOK, Connect
    PROVE  LET t == browser.last + 1
           IN  /\ t \in Transports /\ browser'.socket = t /\ browser'.last = t
               /\ ~browser.stopped /\ browser.socket = Nobody /\ browser.rendering = Nothing
               /\ browser'.connected = browser.connected /\ browser'.stopped = browser.stopped
               /\ browser'.cursor = browser.cursor /\ browser'.nextSeq = browser.nextSeq
               /\ browser'.queued = browser.queued /\ browser'.pending = browser.pending
               /\ browser'.timer = browser.timer /\ browser'.rendering = browser.rendering
               /\ [type |-> "hello", cursor |-> browser.cursor] \in UpMessage
               /\ up'[t] = <<[type |-> "hello", cursor |-> browser.cursor]>>
               /\ portal'[t].pc = "connected" /\ portal'[t].cursor = portal[t].cursor /\ portal'[t].sent = portal[t].sent
               /\ \A u \in Transports \ {t} : up'[u] = up[u] /\ portal'[u] = portal[u]
               /\ UNCHANGED <<ends, down, write, read, session, mismatch>>
<1> DEFINE t == browser.last + 1
           m == [type |-> "hello", cursor |-> browser.cursor]
<1>1. /\ t \in Transports /\ browser' = [browser EXCEPT !.socket = t, !.last = t]
      /\ ~browser.stopped /\ browser.socket = Nobody /\ browser.rendering = Nothing
      /\ up' = [up EXCEPT ![t] = <<m>>] /\ portal' = [portal EXCEPT ![t].pc = "connected"]
      /\ UNCHANGED <<ends, down, write, read, session, mismatch>>
  BY DEF Connect
<1>2. m \in UpMessage
  BY BrowserTyped, BrowserFields DEF UpMessage
<1> HIDE DEF t, m
<1>3. /\ browser'.socket = t /\ browser'.last = t
      /\ browser'.connected = browser.connected /\ browser'.stopped = browser.stopped
      /\ browser'.cursor = browser.cursor /\ browser'.nextSeq = browser.nextSeq
      /\ browser'.queued = browser.queued /\ browser'.pending = browser.pending
      /\ browser'.timer = browser.timer /\ browser'.rendering = browser.rendering
  BY <1>1, BrowserTyped DEF Browser
<1>4. up'[t] = <<m>> /\ portal'[t] = [portal[t] EXCEPT !.pc = "connected"]
      /\ \A u \in Transports \ {t} : up'[u] = up[u] /\ portal'[u] = portal[u]
  BY <1>1 DEF TypeOK
<1>5. portal'[t].pc = "connected" /\ portal'[t].cursor = portal[t].cursor /\ portal'[t].sent = portal[t].sent
  <2>1. portal[t] \in MainState
    BY <1>1, TransportTyped
  <2> QED BY <1>4, <2>1, MainFields
<1> QED BY <1>1, <1>2, <1>3, <1>4, <1>5 DEF t, m

LEMMA StopEffect ==
    ASSUME TypeOK, Stop \/ GiveUp
    PROVE  Outside /\ UNCHANGED <<typed, shown, up, down, mismatch>> /\ ~browser.stopped /\ Stops
BY StopsEffect DEF Stop, GiveUp, Outside, ends

LEMMA DisconnectEffect ==
    ASSUME TypeOK, Disconnect
    PROVE  /\ Outside /\ UNCHANGED <<typed, shown, up, mismatch>> /\ browser.socket \in Transports
           /\ browser'.socket = Nobody /\ browser'.last = browser.last /\ browser'.connected = FALSE
           /\ browser'.stopped = browser.stopped
           /\ browser'.cursor = browser.cursor /\ browser'.nextSeq = browser.nextSeq
           /\ browser'.queued = browser.queued /\ browser'.pending = browser.pending
           /\ browser'.timer = browser.timer /\ browser'.rendering = browser.rendering
           /\ down'[browser.socket] = <<>>
           /\ \A u \in Transports \ {browser.socket} : down'[u] = down[u]
<1>1. browser.socket \in Transports
  BY BrowserTyped, BrowserFields DEF Disconnect
<1>2. /\ browser'.socket = Nobody /\ browser'.last = browser.last /\ browser'.connected = FALSE
      /\ browser'.stopped = browser.stopped
      /\ browser'.cursor = browser.cursor /\ browser'.nextSeq = browser.nextSeq
      /\ browser'.queued = browser.queued /\ browser'.pending = browser.pending
      /\ browser'.timer = browser.timer /\ browser'.rendering = browser.rendering
  BY BrowserTyped DEF Disconnect, Browser
<1>3. down'[browser.socket] = <<>> /\ \A u \in Transports \ {browser.socket} : down'[u] = down[u]
  BY <1>1 DEF Disconnect, TypeOK
<1> QED BY <1>1, <1>2, <1>3 DEF Disconnect, Outside, ends

\* The browser is connected only with a connection.
LEMMA FlushStep ==
    ASSUME TypeOK, Flush, browser.connected => browser.socket \in Transports
    PROVE  Outside /\ UNCHANGED <<typed, shown, down, mismatch>> /\ browser.timer /\ Flushes(browser)
BY BrowserTyped, FlushEffect DEF Flush, Outside, ends

LEMMA OnReadyEffect ==
    ASSUME TypeOK, OnReady
    PROVE  /\ Outside /\ UNCHANGED <<typed, shown, mismatch>> /\ Message.type = "ready" /\ TakesDown
           /\ \E b \in Browser :
                /\ Flushes(b)
                /\ b.socket = browser.socket /\ b.last = browser.last /\ b.connected = TRUE
                /\ b.stopped = browser.stopped /\ b.cursor = browser.cursor /\ b.queued = browser.queued
                /\ b.pending = browser.pending /\ b.rendering = browser.rendering /\ b.timer = browser.timer
                /\ b.nextSeq = IF browser.pending = NoPending THEN Message.inputSeq + 1 ELSE browser.nextSeq
<1> DEFINE n == IF browser.pending = NoPending THEN Message.inputSeq + 1 ELSE browser.nextSeq
           b == [browser EXCEPT !.connected = TRUE, !.nextSeq = n]
<1>1. Message.type = "ready" /\ Receives /\ FlushFrom(b) /\ UNCHANGED <<ends, portal, write, read, session, mismatch>>
  BY DEF OnReady
<1>2. TakesDown /\ Message.inputSeq \in Nat
  BY <1>1, Taken1, Messaging DEF TakesDown
<1>3. n \in Nat
  BY <1>2, BrowserTyped, BrowserFields
<1> HIDE DEF n
<1>4. /\ b \in Browser /\ b.socket = browser.socket /\ b.last = browser.last /\ b.connected = TRUE
      /\ b.stopped = browser.stopped /\ b.cursor = browser.cursor /\ b.queued = browser.queued
      /\ b.pending = browser.pending /\ b.rendering = browser.rendering /\ b.timer = browser.timer
      /\ b.nextSeq = n
  BY <1>3, BrowserTyped, BrowserReady
<1> HIDE DEF b
<1>5. Flushes(b)
  BY <1>1, <1>2, <1>4, BrowserTyped, FlushEffect DEF TakesDown
<1> QED BY <1>1, <1>2, <1>4, <1>5 DEF Outside, ends, n

LEMMA OnInputAckEffect ==
    ASSUME TypeOK, OnInputAck
    PROVE  /\ Outside /\ UNCHANGED <<typed, shown>> /\ Message.type = "input_ack" /\ TakesDown
           /\ \/ browser.pending.seq # Message.seq /\ Stops /\ up' = up /\ mismatch' = TRUE
              \/ /\ browser.pending.seq = Message.seq /\ Message.complete /\ mismatch' = mismatch
                 /\ \E b \in Browser :
                      /\ Flushes(b)
                      /\ b.socket = browser.socket /\ b.last = browser.last /\ b.connected = browser.connected
                      /\ b.stopped = browser.stopped /\ b.cursor = browser.cursor /\ b.queued = browser.queued
                      /\ b.pending = NoPending /\ b.rendering = browser.rendering /\ b.timer = browser.timer
                      /\ b.nextSeq = Message.seq + 1
              \/ /\ browser.pending.seq = Message.seq /\ ~Message.complete /\ mismatch' = mismatch /\ up' = up
                 /\ \/ Stops
                    \/ /\ Keeps(browser) /\ browser'.cursor = browser.cursor /\ browser'.nextSeq = browser.nextSeq
                       /\ browser'.rendering = browser.rendering /\ browser'.pending = browser.pending
                       /\ browser'.queued = browser.queued
<1>1. Message.type = "input_ack" /\ Receives /\ UNCHANGED <<ends, portal, write, read, session>>
  BY DEF OnInputAck
<1>2. TakesDown /\ Message.seq \in Nat
  BY <1>1, Taken1, Messaging DEF TakesDown
<1>3. CASE browser.pending.seq # Message.seq /\ browser' = Stopped(browser) /\ mismatch' = TRUE /\ UNCHANGED up
  BY <1>1, <1>2, <1>3, StopsEffect DEF Outside, ends
<1>4. CASE browser.pending.seq = Message.seq /\ Message.complete /\ UNCHANGED mismatch
           /\ FlushFrom([browser EXCEPT !.nextSeq = Message.seq + 1, !.pending = NoPending])
  <2> DEFINE n == Message.seq + 1
             b == [browser EXCEPT !.nextSeq = n, !.pending = NoPending]
  <2>1. FlushFrom(b) /\ n \in Nat
    BY <1>2, <1>4
  <2> HIDE DEF n
  <2>2. /\ b \in Browser /\ b.socket = browser.socket /\ b.last = browser.last /\ b.connected = browser.connected
        /\ b.stopped = browser.stopped /\ b.cursor = browser.cursor /\ b.queued = browser.queued
        /\ b.pending = NoPending /\ b.rendering = browser.rendering /\ b.timer = browser.timer
        /\ b.nextSeq = n
    BY <2>1, BrowserTyped, BrowserAcked
  <2> HIDE DEF b
  <2>3. Flushes(b)
    BY <1>2, <2>1, <2>2, BrowserTyped, FlushEffect DEF TakesDown
  <2> QED BY <1>1, <1>2, <1>4, <2>2, <2>3 DEF Outside, ends, n
<1>5. CASE browser.pending.seq = Message.seq /\ ~Message.complete /\ UNCHANGED <<up, mismatch>>
           /\ browser' = IF Message.alive THEN [browser EXCEPT !.timer = TRUE] ELSE Stopped(browser)
  <2>1. CASE Message.alive
    <3>1. browser' = [browser EXCEPT !.timer = TRUE]
      BY <1>5, <2>1
    <3>2. /\ Keeps(browser) /\ browser'.cursor = browser.cursor /\ browser'.nextSeq = browser.nextSeq
          /\ browser'.rendering = browser.rendering /\ browser'.pending = browser.pending
          /\ browser'.queued = browser.queued
      BY <3>1, BrowserTyped DEF Browser, Keeps
    <3> QED BY <1>1, <1>2, <1>5, <3>2 DEF Outside, ends
  <2>2. CASE ~Message.alive
    BY <1>1, <1>2, <1>5, <2>2, StopsEffect DEF Outside, ends
  <2> QED BY <2>1, <2>2
<1> QED BY <1>3, <1>4, <1>5 DEF OnInputAck

LEMMA OnOutputEffect ==
    ASSUME TypeOK, OnOutput
    PROVE  /\ Outside /\ UNCHANGED <<typed, shown>> /\ Message.type = "output" /\ TakesDown
           /\ \/ /\ Message.cursor <= browser.cursor /\ mismatch' = mismatch /\ browser' = browser
                 /\ Puts(browser.socket, [type |-> "ack", cursor |-> browser.cursor])
              \/ /\ Message.cursor > browser.cursor /\ Stops /\ up' = up /\ mismatch' = TRUE
                 /\ Message.cursor - (Message.data.to - Message.data.from) # browser.cursor
              \/ /\ Message.cursor > browser.cursor /\ mismatch' = mismatch /\ up' = up
                 /\ Message.cursor - (Message.data.to - Message.data.from) = browser.cursor
                 /\ Keeps(browser) /\ browser'.cursor = browser.cursor /\ browser'.nextSeq = browser.nextSeq
                 /\ browser'.rendering = Message.data /\ browser'.pending = browser.pending
                 /\ browser'.queued = browser.queued /\ browser'.timer = browser.timer
<1>1. Message.type = "output" /\ Receives /\ UNCHANGED <<ends, portal, write, read, session>>
  BY DEF OnOutput
<1>2. TakesDown /\ Message.data \in Interval
  BY <1>1, Taken1, Messaging DEF TakesDown
<1>3. CASE Message.cursor <= browser.cursor /\ Ack(browser.socket, browser.cursor) /\ UNCHANGED <<browser, mismatch>>
  <2>1. [type |-> "ack", cursor |-> browser.cursor] \in UpMessage
    BY BrowserTyped, BrowserFields DEF UpMessage
  <2>2. Puts(browser.socket, [type |-> "ack", cursor |-> browser.cursor])
    BY <1>2, <1>3, <2>1, PortalHears DEF Ack, Puts, TakesDown
  <2> QED BY <1>1, <1>2, <1>3, <2>2 DEF Outside, ends
<1>4. CASE /\ Message.cursor > browser.cursor
           /\ Message.cursor - (Message.data.to - Message.data.from) # browser.cursor
           /\ browser' = Stopped(browser) /\ mismatch' = TRUE /\ UNCHANGED up
  BY <1>1, <1>2, <1>4, StopsEffect DEF Outside, ends
<1>5. CASE /\ Message.cursor > browser.cursor
           /\ Message.cursor - (Message.data.to - Message.data.from) = browser.cursor
           /\ browser' = [browser EXCEPT !.rendering = Message.data] /\ UNCHANGED <<up, mismatch>>
  <2>1. /\ Keeps(browser) /\ browser'.cursor = browser.cursor /\ browser'.nextSeq = browser.nextSeq
        /\ browser'.rendering = Message.data /\ browser'.pending = browser.pending
        /\ browser'.queued = browser.queued /\ browser'.timer = browser.timer
    BY <1>2, <1>5, BrowserTyped DEF Browser, Keeps
  <2> QED BY <1>1, <1>2, <1>5, <2>1 DEF Outside, ends
<1> QED BY <1>3, <1>4, <1>5 DEF OnOutput

LEMMA RenderedEffect ==
    ASSUME TypeOK, Rendered, browser.rendering # Nothing => browser.rendering.from < browser.rendering.to
    PROVE  LET r == browser.rendering
           IN  /\ Outside /\ UNCHANGED <<typed, down, mismatch>> /\ r # Nothing /\ r.from \in Nat /\ r.to \in Nat
               /\ shown' \in Seq(Nat) /\ Len(shown') = Len(shown) + (r.to - r.from)
               /\ \A i \in 1..Len(shown) : shown'[i] = shown[i]
               /\ \A i \in 1..(r.to - r.from) : shown'[Len(shown) + i] = r.from + i
               /\ Keeps(browser) /\ browser'.nextSeq = browser.nextSeq /\ browser'.rendering = Nothing
               /\ browser'.queued = browser.queued /\ browser'.pending = browser.pending
               /\ browser'.timer = browser.timer
               /\ browser'.cursor = IF browser.stopped THEN browser.cursor ELSE browser.cursor + (r.to - r.from)
               /\ IF browser.socket = Nobody THEN up' = up
                  ELSE Puts(browser.socket, [type |-> "ack", cursor |-> browser'.cursor])
<1> DEFINE r == browser.rendering
           cursor == IF browser.stopped THEN browser.cursor ELSE browser.cursor + (r.to - r.from)
           n == r.to - r.from
<1>1. /\ Outside /\ UNCHANGED <<typed, down, mismatch>> /\ r # Nothing /\ shown' = shown \o Characters(r)
      /\ browser' = [browser EXCEPT !.rendering = Nothing, !.cursor = cursor]
      /\ IF browser.socket # Nobody THEN Ack(browser.socket, browser'.cursor) ELSE UNCHANGED up
  BY DEF Rendered, Outside
<1>2. r \in Interval /\ r.from < r.to /\ browser \in Browser /\ browser.cursor \in Nat
  BY <1>1, BrowserTyped, BrowserFields
<1>3. r.from \in Nat /\ r.to \in Nat /\ n \in Nat /\ cursor \in Nat
  BY <1>2 DEF Interval
<1>4. Characters(r) = [k \in 1..n |-> r.from + k]
  BY DEF Characters
<1> HIDE DEF r, cursor, n
<1>5. /\ browser' \in Browser /\ Keeps(browser) /\ browser'.nextSeq = browser.nextSeq /\ browser'.rendering = Nothing
      /\ browser'.queued = browser.queued /\ browser'.pending = browser.pending
      /\ browser'.timer = browser.timer /\ browser'.cursor = cursor
  BY <1>1, <1>2, <1>3, BrowserRendered DEF Keeps
<1> DEFINE new == [k \in 1..n |-> r.from + k]
<1>6. new \in Seq(Nat) /\ Len(new) = n /\ \A i \in 1..n : new[i] = r.from + i
  BY <1>3
<1>7. shown \in Seq(Nat) /\ shown' = shown \o new
  BY <1>1, <1>4 DEF TypeOK
<1> HIDE DEF new
<1>8. /\ shown \o new \in Seq(Nat) /\ Len(shown \o new) = Len(shown) + n
      /\ \A i \in 1..Len(shown) : (shown \o new)[i] = shown[i]
      /\ \A i \in 1..n : (shown \o new)[Len(shown) + i] = new[i]
  <2>1. shown \in Seq(Nat) /\ new \in Seq(Nat) /\ n \in Nat /\ Len(new) = n
    BY <1>3, <1>6, <1>7
  <2>2. shown \o new \in Seq(Nat) /\ Len(shown \o new) = Len(shown) + n
    BY <2>1
  <2>3. \A i \in 1..Len(shown) : (shown \o new)[i] = shown[i]
    BY <2>1
  <2>4. \A i \in 1..n : (shown \o new)[Len(shown) + i] = new[i]
    BY <2>1
  <2> QED BY <2>2, <2>3, <2>4
<1>9. IF browser.socket = Nobody THEN up' = up
      ELSE Puts(browser.socket, [type |-> "ack", cursor |-> browser'.cursor])
  <2>1. CASE browser.socket = Nobody
    BY <1>1, <2>1
  <2>2. CASE browser.socket # Nobody
    <3>1. browser.socket \in Transports
      BY <2>2, BrowserTyped, BrowserFields
    <3>2. [type |-> "ack", cursor |-> browser'.cursor] \in UpMessage
      BY <1>3, <1>5 DEF UpMessage
    <3> QED BY <1>1, <2>2, <3>1, <3>2, PortalHears DEF Ack, Puts
  <2> QED BY <2>1, <2>2
<1> QED BY <1>1, <1>3, <1>5, <1>6, <1>7, <1>8, <1>9 DEF r, cursor, n

LEMMA OnEndEffect ==
    ASSUME TypeOK, OnEnd
    PROVE  /\ Outside /\ UNCHANGED <<typed, shown, up, mismatch>> /\ Message.type \in {"exit", "error"} /\ TakesDown
           /\ Stops
BY Taken1, StopsEffect DEF OnEnd, Outside, TakesDown, ends

(***************************************************************************)
(* What the steps of the agent and of the shell do.                        *)
(***************************************************************************)

\* Only the calls of this transport, the session and the PTY move.
Served(t) ==
    /\ UNCHANGED <<typed, printed, shown, browser, up, down, portal>>
    /\ \A u \in Transports \ {t} : write'[u] = write[u] /\ read'[u] = read[u]

SameInput == /\ session'.inputSeq = session.inputSeq /\ session'.inputData = session.inputData
             /\ session'.pending = session.pending /\ session'.offset = session.offset
SameOutput == /\ session'.start = session.start /\ session'.end = session.end
              /\ session'.registered = session.registered /\ session'.closed = session.closed

RefusesRead(t) == IF portal[t].pc = "ended" THEN read'[t] = NoRead
                  ELSE read'[t].state = "refused" /\ read'[t].cursor = read[t].cursor
RefusesWrite(t) == IF portal[t].pc = "ended" THEN write'[t] = NoWrite
                   ELSE /\ write'[t].state = "refused" /\ write'[t].seq = write[t].seq
                        /\ write'[t].data = write[t].data
AnswersWrite(t, ok) == IF portal[t].pc = "ended" THEN write'[t] = NoWrite
                       ELSE /\ write'[t].state = "answered" /\ write'[t].seq = write[t].seq
                            /\ write'[t].data = write[t].data /\ write'[t].ok = ok
AnswersRead(t) == IF portal[t].pc = "ended" THEN read'[t] = NoRead
                  ELSE /\ read'[t].state = "answered" /\ read'[t].cursor = read[t].cursor
                       /\ read'[t].inputSeq = session.inputSeq
                       /\ IF session'.start = session'.end THEN read'[t].frame = Nothing
                          ELSE /\ read'[t].frame # Nothing /\ read'[t].frame.from = session'.start
                               /\ read'[t].frame.from < read'[t].frame.to /\ read'[t].frame.to <= session'.end

LEMMA RefuseEffect ==
    ASSUME TypeOK, NEW t \in Transports
    PROVE  (ReadRefused(t) => RefusesRead(t)) /\ (WriteRefused(t) => RefusesWrite(t))
<1>1. read[t] \in ReadCall /\ write[t] \in WriteCall
  BY TransportTyped
<1>2. ASSUME ReadRefused(t) PROVE RefusesRead(t)
  <2>1. read'[t] = IF portal[t].pc = "ended" THEN NoRead ELSE [read[t] EXCEPT !.state = "refused"]
    BY <1>2, RefusedRead
  <2> QED BY <1>1, <2>1 DEF RefusesRead, ReadCall
<1>3. ASSUME WriteRefused(t) PROVE RefusesWrite(t)
  <2>1. write'[t] = IF portal[t].pc = "ended" THEN NoWrite ELSE [write[t] EXCEPT !.state = "refused"]
    BY <1>3, RefusedWrite
  <2> QED BY <1>1, <2>1 DEF RefusesWrite, WriteCall
<1> QED BY <1>2, <1>3

LEMMA AnswerEffect ==
    ASSUME TypeOK, NEW t \in Transports, NEW ok \in BOOLEAN, WriteAnswered(t, ok)
    PROVE  AnswersWrite(t, ok)
<1>1. write[t] \in WriteCall /\ session.closed \in BOOLEAN
  BY TransportTyped, SessionTyped, SessionFields
<1>2. write'[t] = IF portal[t].pc = "ended" THEN NoWrite
                  ELSE [write[t] EXCEPT !.state = "answered", !.ok = ok, !.alive = ~session.closed]
  BY AnsweredWrite
<1> QED BY <1>1, <1>2 DEF AnswersWrite, WriteCall

LEMMA AttachEffect ==
    ASSUME TypeOK, NEW t \in Transports, Attach(t)
    PROVE  /\ Served(t) /\ UNCHANGED <<received, mismatch>> /\ write'[t] = write[t] /\ SameInput /\ SameOutput
           /\ read[t].state = "attach" /\ session.registered /\ session'.stream = t
           /\ read'[t].state = "sent" /\ read'[t].cursor = read[t].cursor
<1>1. /\ read[t].state = "attach" /\ session.registered /\ session' = [session EXCEPT !.stream = t]
      /\ read' = [read EXCEPT ![t].state = "sent"] /\ Served(t) /\ UNCHANGED <<received, mismatch>> /\ write'[t] = write[t]
  BY DEF Attach, Served, ends, TypeOK
<1>2. SameInput /\ SameOutput /\ session'.stream = t
  BY <1>1, SessionTyped, SessionAttached DEF SameInput, SameOutput
<1>3. read'[t].state = "sent" /\ read'[t].cursor = read[t].cursor
  BY <1>1 DEF TypeOK, ReadCall
<1> QED BY <1>1, <1>2, <1>3

LEMMA NotFoundEffect ==
    ASSUME TypeOK, NEW t \in Transports, NotFound(t)
    PROVE  /\ Served(t) /\ UNCHANGED <<received, session, mismatch>> /\ ~session.registered
           /\ \/ read[t].state \in {"attach", "sent"} /\ RefusesRead(t) /\ write'[t] = write[t]
              \/ write[t].state = "sent" /\ RefusesWrite(t) /\ read'[t] = read[t]
BY RefuseEffect, RefusedRead, RefusedWrite DEF NotFound, Served, ends

LEMMA ReadStreamEffect ==
    ASSUME TypeOK, NEW t \in Transports, ReadStream(t), session.start <= session.end
    PROVE  /\ Served(t) /\ received' = received /\ write'[t] = write[t] /\ SameInput /\ session'.stream = session.stream
           /\ session'.end = session.end /\ session'.closed = session.closed
           /\ read[t].state = "sent" /\ session.registered /\ session'.registered
           /\ \/ /\ session' = session /\ RefusesRead(t)
                 /\ \/ mismatch' = mismatch
                    \/ session.stream = t /\ read[t].cursor \notin session.start..session.end
                       /\ mismatch' = (mismatch \/ t = browser.socket)
              \/ /\ session.stream = t /\ read[t].cursor \in session.start..session.end /\ mismatch' = mismatch
                 /\ session'.start = read[t].cursor
                 /\ \/ AnswersRead(t)
                    \/ read'[t].state = "waiting" /\ read'[t].cursor = read[t].cursor
<1>1. /\ read[t].state = "sent" /\ session.registered
      /\ UNCHANGED <<ends, browser, up, down, portal, write>>
  BY DEF ReadStream
<1>2. CASE session.stream # t /\ ReadRefused(t) /\ UNCHANGED <<session, mismatch>>
  BY <1>1, <1>2, RefuseEffect, RefusedRead DEF Served, ends, SameInput
<1>3. CASE /\ session.stream = t /\ read[t].cursor \notin session.start..session.end
           /\ ReadRefused(t) /\ mismatch' = (mismatch \/ t = browser.socket) /\ UNCHANGED session
  BY <1>1, <1>3, RefuseEffect, RefusedRead DEF Served, ends, SameInput
<1>4. CASE /\ session.stream = t /\ read[t].cursor \in session.start..session.end
           /\ session' = [session EXCEPT !.start = read[t].cursor] /\ UNCHANGED mismatch
           /\ IF session'.start = session'.end /\ ~session'.closed
              THEN read' = [read EXCEPT ![t].state = "waiting"] ELSE Answers(t, session')
  <2>1. read[t].cursor \in Nat /\ session \in RootShellSession /\ session.start \in Nat /\ session.end \in Nat
    BY TransportTyped, ReadFields, SessionTyped, SessionFields
  <2>2. /\ SameInput /\ session'.stream = session.stream /\ session'.end = session.end
        /\ session'.closed = session.closed /\ session'.registered = session.registered
        /\ session'.start = read[t].cursor /\ session' \in RootShellSession
    BY <1>4, <2>1, SessionStarts DEF SameInput
  <2>3. session'.start <= session'.end
    BY <1>4, <2>1, <2>2
  <2>4. CASE read' = [read EXCEPT ![t].state = "waiting"]
    <3>1. Served(t)
      BY <1>1, <2>4 DEF TypeOK, Served, ends
    <3>2. read'[t].state = "waiting" /\ read'[t].cursor = read[t].cursor
      BY <2>4 DEF TypeOK, ReadCall
    <3> QED BY <1>1, <1>4, <2>2, <3>1, <3>2 DEF ends
  <2>5. CASE Answers(t, session')
    <3>1. Served(t) /\ AnswersRead(t)
      BY <1>1, <2>2, <2>3, <2>5, Answered DEF Served, ends, AnswersRead, SameInput
    <3> QED BY <1>1, <1>4, <2>2, <3>1 DEF ends
  <2> QED BY <1>4, <2>4, <2>5
<1> QED BY <1>2, <1>3, <1>4 DEF ReadStream

LEMMA ReadWakesEffect ==
    ASSUME TypeOK, NEW t \in Transports, ReadWakes(t), session.start <= session.end
    PROVE  /\ Served(t) /\ UNCHANGED <<received, session, mismatch>> /\ write'[t] = write[t]
           /\ read[t].state = "waiting"
           /\ \/ session.stream = t /\ AnswersRead(t)
              \/ session.stream # t /\ RefusesRead(t)
<1>1. read[t].state = "waiting" /\ UNCHANGED <<ends, browser, up, down, portal, write, session, mismatch>>
  BY DEF ReadWakes
<1>2. CASE session.stream = t /\ Answers(t, session)
  <2>1. session' = session
    BY <1>1
  <2>2. session \in RootShellSession
    BY SessionTyped
  <2>3. Served(t) /\ AnswersRead(t)
    BY <1>1, <1>2, <2>1, <2>2, Answered DEF Served, ends, AnswersRead
  <2> QED BY <1>1, <1>2, <2>3 DEF ends
<1>3. CASE session.stream # t /\ ReadRefused(t)
  BY <1>1, <1>3, RefuseEffect, RefusedRead DEF Served, ends
<1> QED BY <1>2, <1>3 DEF ReadWakes

\* n more characters of the input d reach the PTY, from the offset on.
Reaches(d, n) ==
    /\ received' \in Seq(Nat) /\ Len(received') = Len(received) + n
    /\ \A i \in 1..Len(received) : received'[i] = received[i]
    /\ \A i \in 1..n : received'[Len(received) + i] = d.from + session.offset + i
    /\ n = 0 => received' = received

LEMMA OrderedWriteEffect ==
    ASSUME TypeOK, NEW t \in Transports, OrderedWrite(t)
    PROVE  /\ Served(t) /\ read'[t] = read[t] /\ SameOutput /\ session'.stream = session.stream
           /\ write[t].state = "sent" /\ session.registered
           /\ \/ /\ UNCHANGED <<received, session>> /\ RefusesWrite(t)
                 /\ \/ mismatch' = mismatch
                    \/ IF Repeated(t) THEN write[t].data # session.inputData ELSE ~InOrder(t)
              \/ UNCHANGED <<received, session, mismatch>> /\ Repeated(t) /\ AnswersWrite(t, TRUE)
              \/ /\ mismatch' = mismatch /\ ~Repeated(t) /\ InOrder(t)
                 /\ \E n \in Nat :
                      /\ Reaches(write[t].data, n) /\ session.offset + n <= Length(write[t].data)
                      /\ IF session.offset + n = Length(write[t].data)
                         THEN /\ AnswersWrite(t, TRUE)
                              /\ session'.inputSeq = write[t].seq /\ session'.inputData = write[t].data
                              /\ session'.pending = NoPending /\ session'.offset = 0
                         ELSE /\ AnswersWrite(t, FALSE)
                              /\ session'.inputSeq = session.inputSeq /\ session'.inputData = session.inputData
                              /\ session'.pending = [seq |-> write[t].seq, data |-> write[t].data]
                              /\ session'.offset = session.offset + n
<1>1. /\ write[t].state = "sent" /\ session.registered
      /\ UNCHANGED <<typed, printed, shown, browser, up, down, portal, read>>
  BY DEF OrderedWrite
<1>2. CASE /\ WriteRefused(t) /\ UNCHANGED <<received, session>>
           /\ \/ mismatch' = mismatch
              \/ IF Repeated(t) THEN write[t].data # session.inputData ELSE ~InOrder(t)
  BY <1>1, <1>2, RefuseEffect, RefusedWrite DEF Served, SameOutput
<1>3. CASE Repeated(t) /\ WriteAnswered(t, TRUE) /\ UNCHANGED <<received, session, mismatch>>
  BY <1>1, <1>3, AnswerEffect, AnsweredWrite DEF Served, SameOutput
<1>4. CASE ~Repeated(t) /\ InOrder(t) /\ WriteNext(t) /\ UNCHANGED mismatch
  <2> DEFINE d == write[t].data
  <2>1. PICK n \in Nat, ok \in BOOLEAN :
             /\ session.offset + n <= Length(d) /\ ok = (session.offset + n = Length(d))
             /\ received' \in Seq(Nat) /\ Len(received') = Len(received) + n
             /\ \A i \in 1..Len(received) : received'[i] = received[i]
             /\ \A i \in 1..n : received'[Len(received) + i] = d.from + session.offset + i
             /\ n = 0 => received' = received
             /\ WriteAnswered(t, ok)
             /\ session' = IF ok THEN [session EXCEPT !.inputSeq = write[t].seq, !.inputData = d,
                                                      !.pending = NoPending, !.offset = 0]
                           ELSE [session EXCEPT !.offset = session.offset + n,
                                                !.pending = [seq |-> write[t].seq, data |-> d]]
    BY ZenonT(60), <1>4, NextWritten
  <2>2. Reaches(d, n)
    BY <2>1 DEF Reaches
  <2>3. Served(t) /\ AnswersWrite(t, ok)
    BY <1>1, <2>1, AnswerEffect, AnsweredWrite DEF Served
  <2> DEFINE seq == write[t].seq
  <2>4. d \in Interval /\ seq \in Nat /\ session \in RootShellSession /\ session.offset \in Nat
    BY TransportTyped, WriteFields, SessionTyped, SessionFields
  <2> HIDE DEF d, seq
  <2>5. CASE ok
    <3>1. session' = [session EXCEPT !.inputSeq = seq, !.inputData = d, !.pending = NoPending, !.offset = 0]
      BY <2>1, <2>5 DEF seq
    <3>2. SameOutput /\ session'.stream = session.stream /\ session'.inputSeq = seq
          /\ session'.inputData = d /\ session'.pending = NoPending /\ session'.offset = 0
      BY <2>4, <3>1 DEF SameOutput, RootShellSession
    <3>3. AnswersWrite(t, TRUE) /\ session.offset + n = Length(d)
      <4>1. ok = TRUE
        BY <2>5
      <4> QED BY <2>1, <2>3, <4>1
    <3> QED BY <1>1, <1>4, <2>1, <2>2, <2>3, <3>2, <3>3 DEF d, seq
  <2>6. CASE ~ok
    <3> DEFINE p == [seq |-> seq, data |-> d]
               offset == session.offset + n
    <3>1. session' = [session EXCEPT !.offset = offset, !.pending = p]
      BY <2>1, <2>6 DEF seq
    <3> HIDE DEF p, offset
    <3>3. /\ SameOutput /\ session'.stream = session.stream /\ session'.inputSeq = session.inputSeq
          /\ session'.inputData = session.inputData /\ session'.pending = p
          /\ session'.offset = offset
      BY <2>4, <3>1 DEF SameOutput, RootShellSession
    <3>4. AnswersWrite(t, FALSE) /\ session.offset + n # Length(d)
      <4>1. ok = FALSE
        BY <2>6
      <4> QED BY <2>1, <2>3, <4>1
    <3> QED BY <1>1, <1>4, <2>1, <2>2, <2>3, <3>3, <3>4 DEF d, seq, p, offset
  <2> QED BY <2>5, <2>6
<1> QED BY <1>1, <1>2, <1>3, <1>4 DEF OrderedWrite

LEMMA ShellEffect ==
    ASSUME TypeOK, Pump \/ PumpEnds \/ Close \/ PtyPrints \/ Exit
    PROVE  /\ UNCHANGED <<typed, received, shown, browser, up, down, portal, write, read, mismatch>>
           /\ SameInput /\ session'.stream = session.stream
           /\ \/ /\ session'.end > session.end /\ session'.end <= printed
                 /\ session'.end - session.start <= BufferSize
                 /\ session'.start = session.start /\ session'.registered = session.registered
                 /\ ~session.closed /\ session'.closed = session.closed /\ printed' = printed
              \/ /\ session'.start = session.start /\ session'.end = session.end
                 /\ session'.registered = session.registered /\ printed' = printed
                 /\ session'.closed = session.closed \/ session'.closed
              \/ /\ session'.start = session.end /\ session'.end = session.end
                 /\ ~session'.registered /\ session'.closed /\ printed' = printed
              \/ session' = session /\ printed' = printed + 1
<1>0. session \in RootShellSession /\ session.end \in Nat /\ printed \in Nat
  BY SessionTyped, SessionFields
<1>1. CASE Pump
  <2>1. PICK end \in session.end + 1..printed :
           end - session.start <= BufferSize /\ session' = [session EXCEPT !.end = end]
    BY <1>1 DEF Pump
  <2>2. end \in Nat /\ end > session.end /\ end <= printed
    BY <1>0, <2>1
  <2>3. /\ SameInput /\ session'.stream = session.stream /\ session'.end = end
        /\ session'.start = session.start /\ session'.registered = session.registered
        /\ session'.closed = session.closed
    BY <1>0, <2>1, <2>2, SessionFills DEF SameInput
  <2> QED BY <1>1, <2>1, <2>2, <2>3 DEF Pump, ends
<1>2. CASE PumpEnds
  <2>1. session' = [session EXCEPT !.closed = TRUE]
    BY <1>2 DEF PumpEnds
  <2>2. /\ SameInput /\ session'.stream = session.stream /\ session'.end = session.end
        /\ session'.start = session.start /\ session'.registered = session.registered /\ session'.closed
    BY <1>0, <2>1 DEF SameInput, RootShellSession
  <2> QED BY <1>2, <2>2 DEF PumpEnds, ends
<1>3. CASE Close
  <2>1. session' = [session EXCEPT !.registered = FALSE, !.closed = TRUE, !.start = session.end]
    BY <1>3 DEF Close
  <2>2. /\ SameInput /\ session'.stream = session.stream /\ session'.end = session.end
        /\ session'.start = session.end /\ ~session'.registered /\ session'.closed
    BY <1>0, <2>1 DEF SameInput, RootShellSession
  <2> QED BY <1>3, <2>2 DEF Close, ends
<1>4. CASE PtyPrints
  BY <1>4 DEF PtyPrints, SameInput
<1>5. CASE Exit
  <2>1. session' = [session EXCEPT !.exited = TRUE]
    BY <1>5 DEF Exit
  <2>2. /\ SameInput /\ session'.stream = session.stream /\ session'.end = session.end
        /\ session'.start = session.start /\ session'.registered = session.registered
        /\ session'.closed = session.closed
    BY <1>0, <2>1 DEF SameInput, RootShellSession
  <2> QED BY <1>5, <2>2 DEF Exit, ends
<1> QED BY <1>1, <1>2, <1>3, <1>4, <1>5

(***************************************************************************)
(* Connections.                                                            *)
(***************************************************************************)

LEMMA PutsKnown ==
    ASSUME TypeOK, NEW t, NEW m, Puts(t, m)
    PROVE  /\ Messages(up'[t]) \subseteq Messages(up[t]) \cup {m}
           /\ \A k : Has(up'[t], k) => Has(up[t], k) \/ m.type = k
           /\ \A k : Only(up[t], k) /\ (m.type = k => ~Has(up[t], k)) => Only(up'[t], k)
<1>1. up[t] \in Seq(UpMessage) /\ m \in UpMessage
  BY TransportTyped DEF Puts
<1>2. CASE up'[t] = up[t]
  BY <1>2
<1>3. CASE up'[t] = Append(up[t], m)
  BY <1>1, <1>3, Appending
<1> QED BY <1>2, <1>3 DEF Puts

LEMMA GetsKnown ==
    ASSUME TypeOK, NEW t \in Transports, NEW m, Gets(t, m)
    PROVE  /\ Messages(down'[t]) \subseteq Messages(down[t]) \cup {m}
           /\ \A k : Has(down'[t], k) => Has(down[t], k) \/ m.type = k
           /\ \A k : Only(down[t], k) /\ (m.type = k => ~Has(down[t], k)) => Only(down'[t], k)
<1>1. down[t] \in Seq(DownMessage) /\ m \in DownMessage
  BY TransportTyped DEF Gets
<1>2. CASE down'[t] = down[t]
  BY <1>2
<1>3. CASE down'[t] = Append(down[t], m)
  BY <1>1, <1>3, Appending
<1> QED BY <1>2, <1>3 DEF Gets

LEMMA TakesKnown ==
    ASSUME TypeOK, TakesDown
    PROVE  LET t == browser.socket
           IN  /\ Messages(down'[t]) \subseteq Messages(down[t]) /\ Has(down[t], Message.type)
               /\ \A k : Has(down'[t], k) => Has(down[t], k)
               /\ \A k : Only(down[t], k) => Only(down'[t], k)
               /\ \A k : Only(down[t], k) /\ Message.type = k => ~Has(down'[t], k)
<1> DEFINE t == browser.socket
<1>1. t \in Transports /\ down[t] \in Seq(DownMessage) /\ down[t] # <<>> /\ down'[t] = Tail(down[t])
      /\ Message = Head(down[t]) /\ Message \in Messages(down[t])
  BY TransportTyped DEF TakesDown
<1> HIDE DEF t
<1>2. /\ Messages(down'[t]) \subseteq Messages(down[t]) /\ Has(down[t], Message.type)
      /\ \A k : Has(down'[t], k) => Has(down[t], k)
      /\ \A k : Only(down[t], k) => Only(down'[t], k)
      /\ \A k : Only(down[t], k) /\ Message.type = k => ~Has(down'[t], k)
  BY <1>1, Taking DEF Has
<1> QED BY <1>2 DEF t

\* The portal takes a message.
LEMMA HeardKnown ==
    ASSUME TypeOK, NEW t \in Transports, up[t] # <<>>, up'[t] = Tail(up[t])
    PROVE  /\ Messages(up'[t]) \subseteq Messages(up[t]) /\ Next1(t) \in Messages(up[t])
           /\ Has(up[t], Next1(t).type)
           /\ \A k : Has(up'[t], k) => Has(up[t], k)
           /\ \A k : Only(up[t], k) => Only(up'[t], k)
           /\ \A k : Only(up[t], k) /\ Next1(t).type = k => ~Has(up'[t], k)
BY Heard DEF Has

\* What a new transport hears is a hello.
LEMMA HelloSaid ==
    ASSUME TypeOK, NEW t \in Transports, TransportInv(t), Hello(t)
    PROVE  Next1(t).type = "hello"
BY Heard DEF Hello, TransportInv

\* What the transport of the browser is.
LEMMA SocketKnown ==
    ASSUME TypeOK, ConnectionInv, browser.socket # Nobody
    PROVE  /\ browser.socket \in Transports /\ browser.socket = browser.last /\ ~browser.stopped
           /\ portal[browser.socket].pc # "none"
           /\ down[browser.socket] # <<>> \/ browser.connected \/ browser.rendering # Nothing =>
                portal[browser.socket].pc \in {"open", "writing", "ended"}
<1>1. browser.socket \in Transports /\ browser.last \in Transports \cup {Nobody}
  BY BrowserTyped, BrowserFields
<1>2. browser.socket = browser.last /\ ~browser.stopped
  BY DEF ConnectionInv, SocketInv
<1>3. portal[browser.socket].pc # "none"
  <2>1. TransportInv(browser.socket) /\ browser.last \in Nat /\ browser.socket = browser.last
    BY <1>1, <1>2, Numbers DEF ConnectionInv
  <2> QED BY <2>1 DEF TransportInv
<1>4. portal[browser.socket].pc \in {"none", "connected", "attaching", "open", "writing", "ended"}
  BY <1>1, TransportTyped, MainFields
<1> QED BY <1>1, <1>2, <1>3, <1>4 DEF ConnectionInv, SocketInv

LEMMA Connected ==
    ASSUME TypeOK, ConnectionInv, browser.connected
    PROVE  browser.socket # Nobody /\ browser.socket \in Transports
BY SocketKnown DEF ConnectionInv, SocketInv

\* Nothing happens to this transport.
Same(u) == /\ up'[u] = up[u] /\ down'[u] = down[u] /\ portal'[u] = portal[u]
           /\ write'[u] = write[u] /\ read'[u] = read[u]

LEMMA Undisturbed ==
    ASSUME NEW t \in Transports, TransportInv(t), Same(t), browser'.last = browser.last
    PROVE  TransportInv(t)'
BY DEF TransportInv, Same

\* A step of the browser on its connection: it sends, and takes what it got.
LEMMA TalkStep ==
    ASSUME TypeOK, ConnectionInv, UNCHANGED <<portal, write, read>>, browser'.last = browser.last,
           \A u \in Transports : u # browser.socket => up'[u] = up[u] /\ down'[u] = down[u],
           \/ up' = up
           \/ \E m : /\ Puts(browser.socket, m) /\ m.type \in {"input", "ack"}
                     /\ portal[browser.socket].pc # "connected"
    PROVE  \A t \in Transports : TransportInv(t)'
<1> SUFFICES ASSUME NEW t \in Transports PROVE TransportInv(t)'
  OBVIOUS
<1>1. TransportInv(t)
  BY DEF ConnectionInv
<1>2. CASE t # browser.socket
  BY <1>1, <1>2, Undisturbed DEF Same
<1>3. CASE t = browser.socket
  <2>1. portal[t].pc # "none" /\ UNCHANGED <<portal[t], write[t], read[t], browser.last>>
    BY <1>3, SocketKnown, Numbers
  <2>2. CASE up' = up
    BY <1>1, <2>1, <2>2 DEF TransportInv
  <2>3. CASE \E m : Puts(t, m) /\ m.type \in {"input", "ack"} /\ portal[t].pc # "connected"
    <3>1. PICK m : Puts(t, m) /\ m.type \in {"input", "ack"}
      BY <2>3
    <3>2. (\A k : Has(up'[t], k) => Has(up[t], k) \/ m.type = k) /\ (portal[t].pc = "ended" => up'[t] = up[t])
      BY <3>1, PutsKnown DEF Puts
    <3> QED BY <1>1, <2>1, <2>3, <3>1, <3>2 DEF TransportInv
  <2> QED BY <1>3, <2>2, <2>3
<1> QED BY <1>2, <1>3

LEMMA FlushTalks ==
    ASSUME NEW b, Flushes(b), b.socket = browser.socket,
           b.connected => portal[browser.socket].pc # "connected"
    PROVE  /\ \A u \in Transports : u # browser.socket => up'[u] = up[u]
           /\ \/ up' = up
              \/ \E m : /\ Puts(browser.socket, m) /\ m.type \in {"input", "ack"}
                        /\ portal[browser.socket].pc # "connected"
<1>1. InputMessage(browser'.pending).type = "input"
  BY DEF InputMessage
<1> QED BY <1>1 DEF Flushes, Puts

LEMMA ConnectionBrowserStep ==
    ASSUME TypeOK, ConnectionInv, OutputInv,
           Type \/ Connect \/ Stop \/ GiveUp \/ Disconnect \/ Flush \/ OnMessage \/ Rendered
    PROVE  ConnectionInv'
<1>1. CASE Connect
  <2> DEFINE c == browser.last + 1
             m == [type |-> "hello", cursor |-> browser.cursor]
  <2>1. /\ c \in Transports /\ browser'.socket = c /\ browser'.last = c
        /\ ~browser.stopped /\ browser.socket = Nobody /\ browser.rendering = Nothing
        /\ browser'.connected = browser.connected /\ browser'.stopped = browser.stopped
        /\ browser'.rendering = browser.rendering /\ m \in UpMessage /\ up'[c] = <<m>>
        /\ portal'[c].pc = "connected" /\ UNCHANGED <<down, write, read>>
        /\ \A u \in Transports \ {c} : up'[u] = up[u] /\ portal'[u] = portal[u]
    BY <1>1, ConnectEffect
  <2>2. m.type = "hello" /\ Len(<<m>>) = 1 /\ <<m>>[1] = m
    OBVIOUS
  <2>3. browser.last \in Nat /\ c > browser.last
    <3>1. browser.last \in Transports \/ browser.last = 0
      BY BrowserTyped, BrowserFields DEF Nobody
    <3>2. browser.last \in Nat
      <4>1. CASE browser.last \in Transports
        BY <4>1, Numbers
      <4>2. CASE browser.last = 0
        BY <4>2
      <4> QED BY <3>1, <4>1, <4>2
    <3> QED BY <3>2
  <2> HIDE DEF m
  <2>4. Only(<<m>>, "hello") /\ \A x \in Messages(<<m>>) : x.type = "hello"
    BY <2>2 DEF Only, Messages
  <2>5. portal[c].pc = "none" /\ down[c] = <<>> /\ write[c] = NoWrite /\ read[c] = NoRead
    BY <2>1, <2>3 DEF ConnectionInv, TransportInv, New
  <2> HIDE DEF c
  <2>6. ASSUME NEW t \in Transports PROVE TransportInv(t)'
    <3>1. CASE t = c
      <4>1. c \in Nat
        BY <2>1, Numbers
      <4> QED BY <2>1, <2>4, <2>5, <3>1, <4>1 DEF TransportInv, New, Running
    <3>2. CASE t # c
      <4>1. TransportInv(t) /\ t \in Nat /\ c \in Nat
        BY <2>1, Numbers DEF ConnectionInv
      <4>2. up'[t] = up[t] /\ portal'[t] = portal[t] /\ down'[t] = down[t] /\ write'[t] = write[t] /\ read'[t] = read[t]
        BY <2>1, <3>2
      <4>3. t > browser'.last <=> t > browser.last
        BY <2>1, <2>3, <3>2, <4>1 DEF c
      <4> QED BY <4>1, <4>2, <4>3 DEF TransportInv
    <3> QED BY <3>1, <3>2
  <2>7. SocketInv'
    <3>1. ~browser.connected
      BY <2>1 DEF ConnectionInv, SocketInv
    <3>2. c # Nobody
      BY <2>1, Numbers
    <3> QED BY <2>1, <2>5, <3>1, <3>2 DEF SocketInv
  <2> QED BY <2>6, <2>7 DEF ConnectionInv
<1>2. CASE Type
  <2>1. (\A t \in Transports : TransportInv(t)')
    BY <1>2, TypeEffect, TalkStep DEF Outside, Keeps
  <2>2. SocketInv'
    BY <1>2, TypeEffect DEF Outside, Keeps, ConnectionInv, SocketInv
  <2> QED BY <2>1, <2>2 DEF ConnectionInv
<1>3. CASE Stop \/ GiveUp
  <2>1. (\A t \in Transports : TransportInv(t)')
    BY <1>3, StopEffect, TalkStep DEF Outside, Stops
  <2>2. SocketInv'
    BY <1>3, StopEffect, Numbers DEF Outside, Stops, SocketInv
  <2> QED BY <2>1, <2>2 DEF ConnectionInv
<1>4. CASE Disconnect
  <2>1. (\A t \in Transports : TransportInv(t)')
    BY <1>4, DisconnectEffect, TalkStep DEF Outside
  <2>2. SocketInv'
    BY <1>4, DisconnectEffect, Numbers DEF Outside, ConnectionInv, SocketInv
  <2> QED BY <2>1, <2>2 DEF ConnectionInv
<1>5. CASE Flush
  <2>1. Outside /\ down' = down /\ Flushes(browser)
    BY <1>5, FlushStep, Connected
  <2>2. (\A t \in Transports : TransportInv(t)')
    <3>1. browser.connected => portal[browser.socket].pc # "connected"
      BY Connected, SocketKnown
    <3> QED BY <2>1, <3>1, FlushTalks, TalkStep DEF Outside, Flushes, Keeps
  <2>3. SocketInv'
    BY <2>1 DEF Outside, Flushes, Keeps, ConnectionInv, SocketInv
  <2> QED BY <2>2, <2>3 DEF ConnectionInv
<1>6. CASE OnMessage
  <2>1. Message.type # "none" /\ TakesDown /\ Outside
    BY <1>6, OnReadyEffect, OnInputAckEffect, OnOutputEffect, OnEndEffect DEF OnMessage
  <2>2. /\ browser.socket # Nobody /\ browser.socket \in Transports
        /\ portal[browser.socket].pc \in {"open", "writing", "ended"}
    <3>1. browser.socket # Nobody /\ down[browser.socket] # <<>>
      BY <2>1, Numbers DEF TakesDown
    <3> QED BY <3>1, SocketKnown
  <2>3. /\ browser'.last = browser.last /\ browser'.socket \in {browser.socket, Nobody}
        /\ browser'.stopped => browser'.socket = Nobody
        /\ browser'.socket = Nobody => ~browser'.connected
        /\ \A u \in Transports : u # browser.socket => up'[u] = up[u]
        /\ \/ up' = up
           \/ \E m : /\ Puts(browser.socket, m) /\ m.type \in {"input", "ack"}
                     /\ portal[browser.socket].pc # "connected"
    <3>0. ~browser.stopped
      BY <2>2, SocketKnown
    <3>1. CASE OnReady
      BY <2>2, <3>0, <3>1, OnReadyEffect, FlushTalks DEF Flushes, Keeps
    <3>2. CASE OnInputAck
      <4>1. CASE Stops /\ up' = up
        BY <4>1 DEF Stops
      <4>2. CASE \E b \in Browser : /\ Flushes(b) /\ b.socket = browser.socket /\ b.last = browser.last
                                   /\ b.connected = browser.connected /\ b.stopped = browser.stopped
        BY <2>2, <3>0, <4>2, FlushTalks DEF Flushes, Keeps
      <4>3. CASE Keeps(browser) /\ up' = up
        BY <2>2, <3>0, <4>3 DEF Keeps
      <4> QED BY <3>2, <4>1, <4>2, <4>3, OnInputAckEffect
    <3>3. CASE OnOutput
      <4>1. CASE Stops /\ up' = up
        BY <4>1 DEF Stops
      <4>2. CASE browser' = browser /\ Puts(browser.socket, [type |-> "ack", cursor |-> browser.cursor])
        BY <2>2, <3>0, <4>2 DEF Puts
      <4>3. CASE Keeps(browser) /\ up' = up
        BY <2>2, <3>0, <4>3 DEF Keeps
      <4> QED BY <3>3, <4>1, <4>2, <4>3, OnOutputEffect
    <3>4. CASE OnEnd
      BY <3>4, OnEndEffect DEF Stops
    <3> QED BY <1>6, <3>1, <3>2, <3>3, <3>4 DEF OnMessage
  <2>4. \A t \in Transports : TransportInv(t)'
    BY <2>1, <2>3, TalkStep DEF Outside, TakesDown
  <2>5. SocketInv'
    <3>1. portal' = portal
      BY <2>1 DEF Outside
    <3> QED BY <2>2, <2>3, <3>1, SocketKnown, Numbers DEF SocketInv
  <2> QED BY <2>4, <2>5 DEF ConnectionInv
<1>7. CASE Rendered
  <2>1. browser.rendering # Nothing /\ Outside /\ Keeps(browser) /\ down' = down /\ browser'.rendering = Nothing
        /\ IF browser.socket = Nobody THEN up' = up
           ELSE Puts(browser.socket, [type |-> "ack", cursor |-> browser'.cursor])
    BY <1>7, RenderedEffect DEF OutputInv, ScreenInv
  <2>2. browser.socket # Nobody => portal[browser.socket].pc # "connected"
    BY <2>1, SocketKnown
  <2>3. \A t \in Transports : TransportInv(t)'
    <3>1. CASE browser.socket = Nobody
      BY <2>1, <3>1, TalkStep DEF Outside, Keeps
    <3>2. CASE browser.socket # Nobody
      <4>1. \A u \in Transports : u # browser.socket => up'[u] = up[u]
        BY <2>1, <3>2 DEF Puts
      <4> QED BY <2>1, <2>2, <3>2, <4>1, TalkStep DEF Outside, Keeps
    <3> QED BY <3>1, <3>2
  <2>4. SocketInv'
    BY <2>1 DEF Outside, Keeps, ConnectionInv, SocketInv
  <2> QED BY <2>3, <2>4 DEF ConnectionInv
<1> QED BY <1>1, <1>2, <1>3, <1>4, <1>5, <1>6, <1>7

\* A step of one transport: the browser hears of it at most.
LEMMA AloneStep ==
    ASSUME TypeOK, ConnectionInv, NEW t \in Transports, Alone(t), browser' = browser, TransportInv(t)',
           portal'[t].pc \in {"connected", "attaching"} => down'[t] = down[t] /\ portal[t].pc \in {"connected", "attaching"}
    PROVE  ConnectionInv'
<1>1. \A u \in Transports : TransportInv(u)'
  BY Undisturbed DEF Alone, Same, ConnectionInv
<1>2. SocketInv'
  BY DEF Alone, ConnectionInv, SocketInv
<1> QED BY <1>1, <1>2 DEF ConnectionInv

LEMMA OverStep ==
    ASSUME TypeOK, ConnectionInv, NEW t \in Transports, Alone(t), browser' = browser, Over(t),
           portal[t].pc # "none"
    PROVE  ConnectionInv'
<1>1. TransportInv(t)'
  BY DEF Over, TransportInv, New, Running, ConnectionInv
<1> QED BY <1>1, AloneStep DEF Over

LEMMA ConnectionPortalStep ==
    ASSUME TypeOK, ConnectionInv, OutputInv, NEW t \in Transports,
           MainThread(t) \/ OutputLoop(t) \/ RpcRefused(t) \/ RpcTimeout(t) \/ TransportEnds(t)
    PROVE  ConnectionInv'
<1>0. TransportInv(t)
  BY DEF ConnectionInv
<1>1. CASE Hello(t)
  <2>1. Next1(t).type = "hello"
    BY <1>0, <1>1, HelloSaid
  <2>2. /\ Alone(t) /\ browser' = browser /\ portal[t].pc = "connected" /\ up[t] # <<>> /\ up'[t] = Tail(up[t])
        /\ down'[t] = down[t] /\ portal'[t].pc = "attaching"
    BY <1>1, <2>1, HelloEffect
  <2>3. TransportInv(t)'
    BY <1>0, <2>1, <2>2, HeardKnown DEF TransportInv, New, Running
  <2> QED BY <2>2, <2>3, AloneStep
<1>2. CASE Attached(t)
  <2>1. /\ Alone(t) /\ browser' = browser /\ portal[t].pc = "attaching" /\ up'[t] = up[t] /\ portal'[t].pc = "open"
    BY <1>2, AttachedEffect
  <2>2. TransportInv(t)'
    BY <1>0, <2>1 DEF TransportInv, New, Running
  <2> QED BY <2>1, <2>2, AloneStep
<1>3. CASE OnAck(t)
  <2>1. /\ Alone(t) /\ browser' = browser /\ portal[t].pc = "open" /\ up[t] # <<>>
        /\ Over(t) \/ (up'[t] = Tail(up[t]) /\ portal'[t].pc = "open")
    BY <1>3, OnAckEffect
  <2>2. CASE up'[t] = Tail(up[t]) /\ portal'[t].pc = "open"
    <3>1. TransportInv(t)'
      BY <1>0, <2>1, <2>2, HeardKnown DEF TransportInv, New, Running
    <3> QED BY <2>1, <2>2, <3>1, AloneStep
  <2> QED BY <2>1, <2>2, OverStep
<1>4. CASE OnInput(t)
  <2>1. /\ Alone(t) /\ browser' = browser /\ portal[t].pc = "open" /\ up[t] # <<>> /\ up'[t] = Tail(up[t])
        /\ portal'[t].pc = "writing"
    BY <1>4, OnInputEffect
  <2>2. TransportInv(t)'
    BY <1>0, <2>1, HeardKnown DEF TransportInv, New, Running
  <2> QED BY <2>1, <2>2, AloneStep
<1>5. CASE Written(t)
  <2>1. /\ Alone(t) /\ browser' = browser /\ portal[t].pc = "writing" /\ up'[t] = up[t] /\ portal'[t].pc = "open"
    BY <1>5, WrittenEffect
  <2>2. TransportInv(t)'
    BY <1>0, <2>1 DEF TransportInv, New, Running
  <2> QED BY <2>1, <2>2, AloneStep
<1>6. CASE AskOutput(t)
  <2>1. /\ Alone(t) /\ browser' = browser /\ portal[t].pc \in {"open", "writing"} /\ up'[t] = up[t]
        /\ portal'[t] = portal[t]
    BY <1>6, AskOutputEffect
  <2>2. TransportInv(t)'
    BY <1>0, <2>1 DEF TransportInv, New, Running
  <2> QED BY <2>1, <2>2, AloneStep
<1>7. CASE GetOutput(t)
  <2>1. /\ Alone(t) /\ browser' = browser /\ portal[t].pc \in {"open", "writing"}
        /\ Over(t) \/ (up'[t] = up[t] /\ portal'[t].pc = portal[t].pc)
    BY <1>7, GetOutputEffect DEF OutputInv, StreamInv
  <2>2. CASE up'[t] = up[t] /\ portal'[t].pc = portal[t].pc
    <3>1. TransportInv(t)'
      BY <1>0, <2>1, <2>2 DEF TransportInv, New, Running
    <3> QED BY <2>1, <2>2, <3>1, AloneStep
  <2> QED BY <2>1, <2>2, OverStep
<1>8. CASE RpcRefused(t) \/ RpcTimeout(t) \/ TransportEnds(t)
  <2>1. portal[t].pc # "none" /\ (Fail(t) \/ TransportEnds(t))
    BY <1>8 DEF RpcRefused, RpcTimeout, TransportEnds
  <2> QED BY <2>1, FailEffect, OverStep
<1> QED BY <1>1, <1>2, <1>3, <1>4, <1>5, <1>6, <1>7, <1>8 DEF MainThread, OutputLoop

\* A step of the agent for one transport that is not new.
LEMMA ConnectionAgentStep ==
    ASSUME TypeOK, ConnectionInv, OutputInv, NEW t \in Transports, ServesRead(t) \/ OrderedWrite(t) \/ NotFound(t)
    PROVE  ConnectionInv'
<1>1. Served(t) /\ (read[t].state # "none" \/ write[t].state # "none")
  BY AttachEffect, ReadStreamEffect, ReadWakesEffect, OrderedWriteEffect, NotFoundEffect
     DEF ServesRead, OutputInv, ScreenInv
<1>2. portal[t].pc \notin New
  BY <1>1, CallFields DEF ConnectionInv, TransportInv
<1>3. TransportInv(t)'
  BY <1>1, <1>2 DEF Served, ConnectionInv, TransportInv, New
<1>4. \A u \in Transports \ {t} : TransportInv(u)'
  BY <1>1, Undisturbed DEF Served, Same, ConnectionInv
<1>5. SocketInv'
  BY <1>1 DEF Served, ConnectionInv, SocketInv
<1> QED BY <1>3, <1>4, <1>5 DEF ConnectionInv

LEMMA ConnectionShellStep ==
    ASSUME TypeOK, ConnectionInv, Pump \/ PumpEnds \/ Close \/ PtyPrints \/ Exit \/ UNCHANGED vars
    PROVE  ConnectionInv'
<1>1. UNCHANGED <<browser, up, down, portal, write, read>>
  BY ShellEffect DEF vars
<1>2. \A u \in Transports : TransportInv(u)'
  BY <1>1, Undisturbed DEF Same, ConnectionInv
<1>3. SocketInv'
  BY <1>1 DEF ConnectionInv, SocketInv
<1> QED BY <1>2, <1>3 DEF ConnectionInv

LEMMA ConnectionInit == Init => ConnectionInv
<1> SUFFICES ASSUME Init PROVE ConnectionInv
  OBVIOUS
<1>1. browser.last = 0 /\ browser.socket = Nobody /\ browser.connected = FALSE
  BY DEF Init, Nobody
<1>2. ASSUME NEW t \in Transports PROVE TransportInv(t)
  <2>1. t > browser.last
    BY <1>1, Numbers
  <2> QED BY <2>1 DEF Init, TransportInv, New, Running
<1>3. SocketInv
  BY <1>1, Numbers DEF SocketInv
<1> QED BY <1>2, <1>3 DEF ConnectionInv

(***************************************************************************)
(* Output.                                                                 *)
(***************************************************************************)

LEMMA StreamTyped ==
    ASSUME TypeOK, NEW t \in Transports
    PROVE  /\ portal[t].cursor \in Nat /\ portal[t].sent \in Nat /\ read[t].cursor \in Nat
           /\ read[t].frame \in Interval /\ read[t].frame.from \in Nat /\ read[t].frame.to \in Nat
           /\ \A m \in Messages(up[t]) : m.type \in {"hello", "ack"} => m.cursor \in Nat
           /\ \A m \in Messages(down[t]) : m.type = "output" =>
                m.cursor \in Nat /\ m.data \in Interval /\ m.data.from \in Nat /\ m.data.to \in Nat
<1>1. portal[t].cursor \in Nat /\ portal[t].sent \in Nat
  BY TransportTyped, MainFields
<1>2. read[t].cursor \in Nat /\ read[t].frame \in Interval
  BY TransportTyped, ReadFields
<1>3. Messages(up[t]) \subseteq UpMessage /\ Messages(down[t]) \subseteq DownMessage
  BY TransportTyped, Known
<1>4. \A i \in Interval : i.from \in Nat /\ i.to \in Nat
  BY DEF Interval
<1> QED BY <1>1, <1>2, <1>3, <1>4, Messaging

LEMMA ScreenTyped ==
    ASSUME TypeOK
    PROVE  /\ shown \in Seq(Nat) /\ Len(shown) \in Nat /\ printed \in Nat /\ browser.cursor \in Nat
           /\ browser.rendering \in Interval /\ browser.rendering.from \in Nat /\ browser.rendering.to \in Nat
           /\ session.start \in Nat /\ session.end \in Nat /\ BufferSize \in Nat
           /\ session.registered \in BOOLEAN
<1>1. shown \in Seq(Nat)
  BY DEF TypeOK
<1>2. session.start \in Nat /\ session.end \in Nat /\ session.registered \in BOOLEAN /\ printed \in Nat
  BY SessionTyped, SessionFields
<1>3. browser.cursor \in Nat /\ browser.rendering \in Interval
  BY BrowserTyped, BrowserFields
<1> QED BY <1>1, <1>2, <1>3, ShellAssumption DEF Interval

\* A transport of which nothing changes keeps what it knows, while more is shown and buffered.
LEMMA StreamKept ==
    ASSUME TypeOK, NEW t \in Transports, StreamInv(t),
           portal'[t].cursor = portal[t].cursor, read'[t] = read[t],
           \A m \in Messages(up'[t]) : \/ m \in Messages(up[t]) \/ m.type = "input"
                                       \/ m.type \in {"hello", "ack"} /\ m.cursor <= Len(shown'),
           Messages(down'[t]) \subseteq Messages(down[t]),
           Len(shown') \in Nat, Len(shown) <= Len(shown'), session'.end \in Nat, session.end <= session'.end,
           read[t].state = "waiting" /\ session'.stream = t /\ session'.registered => session'.start = read[t].cursor
    PROVE  StreamInv(t)'
<1>1. Len(shown) \in Nat /\ session.end \in Nat
  BY ScreenTyped
<1>2. portal'[t].cursor <= Len(shown') /\ read'[t].cursor <= Len(shown')
  BY <1>1, StreamTyped DEF StreamInv
<1>3. \A m \in Messages(up'[t]) : m.type \in {"hello", "ack"} => m.cursor <= Len(shown')
  BY <1>1, StreamTyped DEF StreamInv
<1>4. \A m \in Messages(down'[t]) : m.type = "output" =>
         m.cursor = m.data.to /\ m.data.from < m.data.to /\ m.data.to <= session'.end
  BY <1>1, StreamTyped DEF StreamInv
<1>5. read'[t].state = "answered" /\ read'[t].frame # Nothing =>
         /\ read'[t].frame.from = read'[t].cursor
         /\ read'[t].frame.from < read'[t].frame.to /\ read'[t].frame.to <= session'.end
  BY <1>1, StreamTyped DEF StreamInv
<1> QED BY <1>2, <1>3, <1>4, <1>5 DEF StreamInv

LEMMA OutputTalkStep ==
    ASSUME TypeOK, OutputInv, Outside, Len(shown') \in Nat, Len(shown) <= Len(shown'),
           \A u \in Transports : Messages(down'[u]) \subseteq Messages(down[u]),
           \A u \in Transports : u # browser.socket => up'[u] = up[u],
           \/ up' = up
           \/ \E m : /\ Puts(browser.socket, m)
                     /\ m.type = "input" \/ (m.type = "ack" /\ m.cursor <= Len(shown'))
    PROVE  \A t \in Transports : StreamInv(t)'
<1> SUFFICES ASSUME NEW t \in Transports PROVE StreamInv(t)'
  OBVIOUS
<1>1. \A m \in Messages(up'[t]) : \/ m \in Messages(up[t]) \/ m.type = "input"
                                  \/ m.type \in {"hello", "ack"} /\ m.cursor <= Len(shown')
  <2>1. CASE up' = up \/ t # browser.socket
    BY <2>1
  <2>2. CASE t = browser.socket /\ \E m : Puts(browser.socket, m) /\ (m.type = "input" \/ (m.type = "ack" /\ m.cursor <= Len(shown')))
    <3>1. PICK m : Puts(t, m) /\ (m.type = "input" \/ (m.type = "ack" /\ m.cursor <= Len(shown')))
      BY <2>2
    <3>2. Messages(up'[t]) \subseteq Messages(up[t]) \cup {m}
      BY <3>1, PutsKnown
    <3> QED BY <3>1, <3>2
  <2> QED BY <2>1, <2>2
<1>2. portal' = portal /\ read' = read /\ session' = session
  BY DEF Outside
<1>3. session.end \in Nat
  BY ScreenTyped
<1>4. StreamInv(t) /\ Messages(down'[t]) \subseteq Messages(down[t])
  BY DEF OutputInv
<1>5. portal'[t].cursor = portal[t].cursor /\ read'[t] = read[t] /\ session'.end = session.end
  BY <1>2
<1>6. read[t].state = "waiting" /\ session'.stream = t /\ session'.registered => session'.start = read[t].cursor
  BY <1>2, <1>4 DEF StreamInv
<1>7. session'.end \in Nat /\ session.end <= session'.end
  BY <1>3, <1>5
<1> QED BY <1>1, <1>4, <1>5, <1>6, <1>7, StreamKept

\* What the screen shows stays what was printed.
LEMMA ScreenKept ==
    ASSUME ScreenInv, UNCHANGED <<shown, printed, session>>, browser'.cursor = browser.cursor,
           browser'.rendering = browser.rendering, ~browser'.stopped => ~browser.stopped
    PROVE  ScreenInv'
BY DEF ScreenInv

LEMMA FlushOutput ==
    ASSUME TypeOK, OutputInv, ConnectionInv, Outside, shown' = shown, NEW b, Flushes(b), b.socket = browser.socket,
           \A u \in Transports : Messages(down'[u]) \subseteq Messages(down[u])
    PROVE  \A t \in Transports : StreamInv(t)'
<1>1. Len(shown') \in Nat /\ Len(shown) <= Len(shown')
  BY ScreenTyped
<1>2. InputMessage(browser'.pending).type = "input"
  BY DEF InputMessage
<1>3. /\ \A u \in Transports : u # browser.socket => up'[u] = up[u]
      /\ up' = up \/ \E m : Puts(browser.socket, m) /\ m.type = "input"
  BY <1>2 DEF Flushes, Puts
<1> QED BY <1>1, <1>3, OutputTalkStep

LEMMA OutputBrowserStep ==
    ASSUME TypeOK, ConnectionInv, OutputInv,
           Type \/ Connect \/ Stop \/ GiveUp \/ Disconnect \/ Flush \/ OnMessage \/ Rendered
    PROVE  OutputInv'
<1>0. ScreenInv /\ Len(shown) \in Nat /\ Len(shown) <= Len(shown) /\ session.end \in Nat /\ session.end <= session.end
  BY ScreenTyped DEF OutputInv
<1>a. ASSUME down' = down PROVE \A u \in Transports : Messages(down'[u]) \subseteq Messages(down[u])
  BY <1>a
<1>1. CASE Connect
  <2> DEFINE c == browser.last + 1
             m == [type |-> "hello", cursor |-> browser.cursor]
  <2>1. /\ c \in Transports /\ ~browser.stopped /\ browser'.cursor = browser.cursor
        /\ browser'.rendering = browser.rendering /\ browser'.stopped = browser.stopped
        /\ up'[c] = <<m>> /\ portal'[c].cursor = portal[c].cursor /\ portal'[c].sent = portal[c].sent
        /\ \A u \in Transports \ {c} : up'[u] = up[u] /\ portal'[u] = portal[u]
        /\ UNCHANGED <<shown, printed, down, read, session>>
    BY <1>1, ConnectEffect DEF ends
  <2>2. ScreenInv'
    BY <1>0, <2>1, ScreenKept
  <2>3. m.type = "hello" /\ m.cursor = Len(shown)
    BY <1>0, <2>1 DEF ScreenInv
  <2>4. \A x \in Messages(<<m>>) : x = m
    BY DEF Messages
  <2> HIDE DEF c, m
  <2>5. ASSUME NEW t \in Transports PROVE StreamInv(t)'
    <3>1. \A x \in Messages(up'[t]) : \/ x \in Messages(up[t]) \/ x.type = "input"
                                      \/ x.type \in {"hello", "ack"} /\ x.cursor <= Len(shown')
      <4>1. CASE t = c
        BY <1>0, <2>1, <2>3, <2>4, <4>1
      <4>2. CASE t # c
        BY <2>1, <4>2
      <4> QED BY <4>1, <4>2
    <3>2. StreamInv(t) /\ portal'[t].cursor = portal[t].cursor
      BY <2>1 DEF OutputInv
    <3>3. read[t].state = "waiting" /\ session'.stream = t /\ session'.registered => session'.start = read[t].cursor
      BY <2>1, <3>2 DEF StreamInv
    <3> QED BY <1>0, <2>1, <3>1, <3>2, <3>3, StreamKept
  <2> QED BY <2>2, <2>5 DEF OutputInv
<1>2. CASE Type
  <2>1. Outside /\ UNCHANGED <<shown, up, down>> /\ Keeps(browser) /\ browser'.cursor = browser.cursor
        /\ browser'.rendering = browser.rendering
    BY <1>2, TypeEffect
  <2>2. ScreenInv'
    BY <1>0, <2>1, ScreenKept DEF Outside, Keeps
  <2>3. \A t \in Transports : StreamInv(t)'
    BY <1>0, <2>1, OutputTalkStep
  <2> QED BY <2>2, <2>3 DEF OutputInv
<1>3. CASE Stop \/ GiveUp
  <2>1. Outside /\ UNCHANGED <<shown, up, down>> /\ Stops
    BY <1>3, StopEffect
  <2>2. ScreenInv'
    BY <1>0, <2>1, ScreenKept DEF Outside, Stops
  <2>3. \A t \in Transports : StreamInv(t)'
    BY <1>0, <2>1, OutputTalkStep
  <2> QED BY <2>2, <2>3 DEF OutputInv
<1>4. CASE Disconnect
  <2>1. /\ Outside /\ UNCHANGED <<shown, up>> /\ browser'.stopped = browser.stopped
        /\ browser'.cursor = browser.cursor /\ browser'.rendering = browser.rendering
        /\ browser.socket \in Transports /\ down'[browser.socket] = <<>>
        /\ \A u \in Transports \ {browser.socket} : down'[u] = down[u]
    BY <1>4, DisconnectEffect
  <2>2. ScreenInv'
    BY <1>0, <2>1, ScreenKept DEF Outside
  <2>3. \A u \in Transports : Messages(down'[u]) \subseteq Messages(down[u])
    BY <2>1, Emptying
  <2>4. \A t \in Transports : StreamInv(t)'
    BY <1>0, <2>1, <2>3, OutputTalkStep
  <2> QED BY <2>2, <2>4 DEF OutputInv
<1>5. CASE Flush
  <2>1. Outside /\ shown' = shown /\ down' = down /\ Flushes(browser)
    BY <1>5, FlushStep, Connected
  <2>2. ScreenInv'
    BY <1>0, <2>1, ScreenKept DEF Outside, Flushes, Keeps
  <2>3. \A t \in Transports : StreamInv(t)'
    BY <2>1, FlushOutput
  <2> QED BY <2>2, <2>3 DEF OutputInv
<1>6. CASE OnMessage
  <2>1. Outside /\ TakesDown /\ shown' = shown
    BY <1>6, OnReadyEffect, OnInputAckEffect, OnOutputEffect, OnEndEffect DEF OnMessage
  <2>2. /\ \A u \in Transports : Messages(down'[u]) \subseteq Messages(down[u])
        /\ browser.socket # Nobody /\ ~browser.stopped
    <3>1. \A u \in Transports : Messages(down'[u]) \subseteq Messages(down[u])
      BY <2>1, TakesKnown DEF TakesDown
    <3> QED BY <2>1, <3>1, Numbers, SocketKnown DEF TakesDown
  <2>3. \A t \in Transports : StreamInv(t)'
    <3>1. CASE OnReady
      <4>1. PICK b \in Browser : Flushes(b) /\ b.socket = browser.socket
        BY <3>1, OnReadyEffect
      <4> QED BY <2>1, <2>2, <4>1, FlushOutput
    <3>2. CASE up' = up
      BY <1>0, <2>1, <2>2, <3>2, OutputTalkStep
    <3>3. CASE OnInputAck /\ up' # up
      <4>1. PICK b \in Browser : Flushes(b) /\ b.socket = browser.socket
        BY <3>3, OnInputAckEffect
      <4> QED BY <2>1, <2>2, <4>1, FlushOutput
    <3>4. CASE OnOutput /\ up' # up
      <4> DEFINE m == [type |-> "ack", cursor |-> browser.cursor]
      <4>1. Puts(browser.socket, m)
        BY <3>4, OnOutputEffect
      <4>2. m.type = "ack" /\ m.cursor <= Len(shown')
        BY <1>0, <2>1, <2>2 DEF ScreenInv
      <4> HIDE DEF m
      <4>3. \A u \in Transports : u # browser.socket => up'[u] = up[u]
        BY <4>1 DEF Puts
      <4> QED BY <1>0, <2>1, <2>2, <4>1, <4>2, <4>3, OutputTalkStep
    <3>5. CASE OnEnd
      BY <3>2, <3>5, OnEndEffect
    <3> QED BY <1>6, <3>1, <3>2, <3>3, <3>4, <3>5 DEF OnMessage
  <2>4. ScreenInv'
    <3>1. CASE /\ browser'.cursor = browser.cursor /\ browser'.rendering = browser.rendering
      BY <1>0, <2>1, <2>2, <3>1, ScreenKept DEF Outside
    <3>2. CASE OnOutput /\ browser'.cursor = browser.cursor /\ browser'.rendering = Message.data
               /\ Message.cursor - (Message.data.to - Message.data.from) = browser.cursor
      <4>1. /\ Message.cursor = Message.data.to /\ Message.data.from < Message.data.to
            /\ Message.data.to <= session.end /\ Message.cursor \in Nat /\ Message.data.from \in Nat /\ Message.data.to \in Nat
        BY <2>1, <3>2, OnOutputEffect, StreamTyped DEF TakesDown, OutputInv, StreamInv
      <4>2. browser.cursor = Len(shown)
        BY <1>0, <2>2 DEF ScreenInv
      <4>3. Message.data.from = Len(shown)
        BY <1>0, <3>2, <4>1, <4>2
      <4> QED BY <1>0, <2>1, <3>2, <4>1, <4>2, <4>3 DEF ScreenInv, Outside
    <3>3. CASE OnReady
      BY <3>1, <3>3, OnReadyEffect DEF Flushes
    <3>4. CASE OnInputAck
      BY <3>1, <3>4, OnInputAckEffect DEF Flushes, Stops
    <3>5. CASE OnOutput
      BY <3>1, <3>2, <3>5, OnOutputEffect DEF Stops
    <3>6. CASE OnEnd
      BY <3>1, <3>6, OnEndEffect DEF Stops
    <3> QED BY <1>6, <3>3, <3>4, <3>5, <3>6 DEF OnMessage
  <2> QED BY <2>3, <2>4 DEF OutputInv
<1>7. CASE Rendered
  <2> DEFINE r == browser.rendering
             m == [type |-> "ack", cursor |-> browser'.cursor]
  <2>1. /\ Outside /\ down' = down /\ r # Nothing
        /\ shown' \in Seq(Nat) /\ Len(shown') = Len(shown) + (r.to - r.from)
        /\ \A i \in 1..Len(shown) : shown'[i] = shown[i]
        /\ \A i \in 1..(r.to - r.from) : shown'[Len(shown) + i] = r.from + i
        /\ Keeps(browser) /\ browser'.rendering = Nothing
        /\ browser'.cursor = IF browser.stopped THEN browser.cursor ELSE browser.cursor + (r.to - r.from)
        /\ IF browser.socket = Nobody THEN up' = up ELSE Puts(browser.socket, m)
    BY <1>7, RenderedEffect DEF OutputInv, ScreenInv
  <2>2. r.from \in Nat /\ r.to \in Nat /\ r.from = Len(shown) /\ r.from < r.to /\ r.to <= session.end
    BY <1>0, <2>1, ScreenTyped DEF ScreenInv
  <2>3. Len(shown') = r.to /\ Len(shown') \in Nat /\ Len(shown) <= Len(shown')
    BY <1>0, <2>1, <2>2
  <2>4. ~browser.stopped => browser'.cursor = Len(shown')
    BY <1>0, <2>1, <2>2, <2>3 DEF ScreenInv
  <2>5. ScreenInv'
    <3>1. \A i \in 1..Len(shown') : shown'[i] = i
      <4> SUFFICES ASSUME NEW i \in 1..Len(shown') PROVE shown'[i] = i
        OBVIOUS
      <4>1. CASE i <= Len(shown)
        <5>1. \A j \in 1..Len(shown) : shown[j] = j
          BY <1>0 DEF ScreenInv
        <5>2. \A j \in 1..Len(shown) : shown'[j] = shown[j]
          BY <2>1
        <5>3. i \in 1..Len(shown)
          BY <1>0, <2>3, <4>1
        <5> QED BY <5>1, <5>2, <5>3
      <4>2. CASE i > Len(shown)
        <5>1. i - Len(shown) \in 1..(r.to - r.from) /\ Len(shown) + (i - Len(shown)) = i
          BY <1>0, <2>2, <2>3, <4>2
        <5>2. shown'[Len(shown) + (i - Len(shown))] = r.from + (i - Len(shown))
          BY <2>1, <5>1
        <5> QED BY <1>0, <2>2, <5>1, <5>2
      <4> QED BY <1>0, <2>3, <4>1, <4>2
    <3>2. session' = session /\ printed' = printed /\ browser'.stopped = browser.stopped
      BY <2>1 DEF Outside, Keeps
    <3>3. session.registered => session.start <= Len(shown')
      BY <1>0, <2>3, ScreenTyped DEF ScreenInv
    <3> QED BY <1>0, <2>1, <2>2, <2>3, <2>4, <3>1, <3>2, <3>3 DEF ScreenInv
  <2>6. \A t \in Transports : StreamInv(t)'
    <3>1. CASE browser.socket = Nobody
      BY <1>a, <2>1, <2>3, <3>1, OutputTalkStep
    <3>2. CASE browser.socket # Nobody
      <4>1. m.type = "ack" /\ m.cursor <= Len(shown')
        BY <2>3, <2>4, <3>2, SocketKnown
      <4>2. \A u \in Transports : u # browser.socket => up'[u] = up[u]
        BY <2>1, <3>2 DEF Puts
      <4> HIDE DEF m
      <4> QED BY <1>a, <2>1, <2>3, <3>2, <4>1, <4>2, OutputTalkStep
    <3> QED BY <3>1, <3>2
  <2> QED BY <2>5, <2>6 DEF OutputInv
<1> QED BY <1>1, <1>2, <1>3, <1>4, <1>5, <1>6, <1>7

\* A step of one transport of the portal.
LEMMA OutputAloneStep ==
    ASSUME TypeOK, OutputInv, NEW t \in Transports, Alone(t), UNCHANGED <<ends, browser, session>>, StreamInv(t)'
    PROVE  OutputInv'
<1>1. ScreenInv'
  BY ScreenKept DEF OutputInv, ends
<1>2. ASSUME NEW u \in Transports \ {t} PROVE StreamInv(u)'
  <2>1. StreamInv(u) /\ shown' = shown /\ session' = session
    BY DEF OutputInv, ends
  <2>2. /\ up'[u] = up[u] /\ down'[u] = down[u] /\ portal'[u] = portal[u] /\ read'[u] = read[u]
    BY DEF Alone
  <2> QED BY <2>1, <2>2 DEF StreamInv
<1> QED BY <1>1, <1>2 DEF OutputInv

\* The messages of a transport stay within the bounds, whatever else it does.
LEMMA StreamMessages ==
    ASSUME TypeOK, NEW t \in Transports, StreamInv(t), UNCHANGED <<shown, session>>,
           Messages(up'[t]) \subseteq Messages(up[t]),
           \/ down'[t] = down[t]
           \/ \E m : Gets(t, m) /\ (m.type = "output" =>
                       m.cursor = m.data.to /\ m.data.from < m.data.to /\ m.data.to <= session.end)
    PROVE  /\ \A m \in Messages(up'[t]) : m.type \in {"hello", "ack"} => m.cursor <= Len(shown')
           /\ \A m \in Messages(down'[t]) : m.type = "output" =>
                m.cursor = m.data.to /\ m.data.from < m.data.to /\ m.data.to <= session'.end
<1>1. CASE down'[t] = down[t]
  BY <1>1 DEF StreamInv
<1>2. CASE \E m : Gets(t, m) /\ (m.type = "output" =>
                       m.cursor = m.data.to /\ m.data.from < m.data.to /\ m.data.to <= session.end)
  <2>1. PICK m : Gets(t, m) /\ (m.type = "output" =>
                       m.cursor = m.data.to /\ m.data.from < m.data.to /\ m.data.to <= session.end)
    BY <1>2
  <2>2. Messages(down'[t]) \subseteq Messages(down[t]) \cup {m}
    BY <2>1, GetsKnown
  <2> QED BY <2>1, <2>2 DEF StreamInv
<1> QED BY <1>1, <1>2

LEMMA OutputOver ==
    ASSUME TypeOK, OutputInv, NEW t \in Transports, Over(t), Alone(t), UNCHANGED <<ends, browser, session>>,
           \/ down'[t] = down[t]
           \/ \E m : Gets(t, m) /\ m.type # "output"
    PROVE  OutputInv'
<1>1. StreamInv(t) /\ shown' = shown /\ session' = session
  BY DEF OutputInv, ends
<1>2. Messages(up'[t]) \subseteq Messages(up[t])
  BY Emptying DEF Over
<1>3. /\ \A m \in Messages(up'[t]) : m.type \in {"hello", "ack"} => m.cursor <= Len(shown')
      /\ \A m \in Messages(down'[t]) : m.type = "output" =>
           m.cursor = m.data.to /\ m.data.from < m.data.to /\ m.data.to <= session'.end
  BY <1>1, <1>2, StreamMessages
<1>4. portal'[t].cursor = portal[t].cursor
      /\ (read'[t] = read[t] \/ read'[t] = NoRead)
  BY DEF Over
<1>5. StreamInv(t)'
  BY <1>1, <1>3, <1>4, CallFields, ScreenTyped DEF StreamInv
<1> QED BY <1>5, OutputAloneStep

LEMMA OutputPortalStep ==
    ASSUME TypeOK, ConnectionInv, OutputInv, NEW t \in Transports,
           MainThread(t) \/ OutputLoop(t) \/ RpcRefused(t) \/ RpcTimeout(t) \/ TransportEnds(t)
    PROVE  OutputInv'
<1>0. StreamInv(t) /\ TransportInv(t) /\ Len(shown) \in Nat
  BY ScreenTyped DEF OutputInv, ConnectionInv
<1>a. NoRead.cursor = 0 /\ NoRead.state = "none"
  BY CallFields
<1>1. CASE Hello(t)
  <2>1. Next1(t).type = "hello"
    BY <1>0, <1>1, HelloSaid
  <2>2. /\ Alone(t) /\ UNCHANGED <<ends, browser, session>> /\ up[t] # <<>> /\ up'[t] = Tail(up[t])
        /\ down'[t] = down[t] /\ portal'[t].cursor = Next1(t).cursor
        /\ read'[t].state = "attach" /\ read'[t].cursor = Next1(t).cursor
    BY <1>1, <2>1, HelloEffect
  <2>3. Messages(up'[t]) \subseteq Messages(up[t]) /\ Next1(t) \in Messages(up[t])
    BY <2>2, HeardKnown
  <2>4. Next1(t).cursor <= Len(shown)
    BY <1>0, <2>1, <2>3 DEF StreamInv
  <2>5. shown' = shown /\ session' = session
    BY <2>2 DEF ends
  <2>6. StreamInv(t)'
    BY <1>0, <2>2, <2>3, <2>4, <2>5 DEF StreamInv
  <2> QED BY <2>2, <2>6, OutputAloneStep
<1>2. CASE Attached(t)
  <2> DEFINE m == [type |-> "ready", inputSeq |-> read[t].inputSeq]
  <2>1. /\ Alone(t) /\ UNCHANGED <<ends, browser, session>> /\ up'[t] = up[t] /\ Gets(t, m)
        /\ portal'[t].cursor = portal[t].cursor /\ read'[t] = NoRead
    BY <1>2, AttachedEffect
  <2>2. shown' = shown /\ session' = session /\ m.type # "output"
    BY <2>1 DEF ends
  <2> HIDE DEF m
  <2>3. StreamInv(t)'
    <3>1. /\ \A x \in Messages(up'[t]) : x.type \in {"hello", "ack"} => x.cursor <= Len(shown')
          /\ \A x \in Messages(down'[t]) : x.type = "output" =>
               x.cursor = x.data.to /\ x.data.from < x.data.to /\ x.data.to <= session'.end
      BY <1>0, <2>1, <2>2, StreamMessages
    <3> QED BY <1>0, <1>a, <2>1, <2>2, <3>1 DEF StreamInv
  <2> QED BY <2>1, <2>3, OutputAloneStep
<1>3. CASE OnAck(t)
  <2>1. /\ Alone(t) /\ UNCHANGED <<ends, browser, session>> /\ up[t] # <<>> /\ down'[t] = down[t]
        /\ Next1(t).type = "ack"
        /\ \/ Over(t)
           \/ up'[t] = Tail(up[t]) /\ portal'[t].cursor = Next1(t).cursor /\ read'[t] = read[t]
    BY <1>3, OnAckEffect
  <2>2. CASE up'[t] = Tail(up[t]) /\ portal'[t].cursor = Next1(t).cursor /\ read'[t] = read[t]
    <3>1. Messages(up'[t]) \subseteq Messages(up[t]) /\ Next1(t) \in Messages(up[t])
      BY <2>1, <2>2, HeardKnown
    <3>2. Next1(t).cursor <= Len(shown)
      BY <1>0, <2>1, <3>1 DEF StreamInv
    <3>3. shown' = shown /\ session' = session
      BY <2>1 DEF ends
    <3>4. StreamInv(t)'
      BY <1>0, <2>1, <2>2, <3>1, <3>2, <3>3 DEF StreamInv
    <3> QED BY <2>1, <3>4, OutputAloneStep
  <2> QED BY <2>1, <2>2, OutputOver
<1>4. CASE OnInput(t)
  <2>1. /\ Alone(t) /\ UNCHANGED <<ends, browser, session>> /\ up[t] # <<>> /\ up'[t] = Tail(up[t])
        /\ down'[t] = down[t] /\ portal'[t].cursor = portal[t].cursor /\ read'[t] = read[t]
    BY <1>4, OnInputEffect
  <2>2. Messages(up'[t]) \subseteq Messages(up[t]) /\ shown' = shown /\ session' = session
    BY <2>1, HeardKnown DEF ends
  <2>3. StreamInv(t)'
    BY <1>0, <2>1, <2>2 DEF StreamInv
  <2> QED BY <2>1, <2>3, OutputAloneStep
<1>5. CASE Written(t)
  <2> DEFINE m == [type |-> "input_ack", seq |-> write[t].seq, complete |-> write[t].ok, alive |-> write[t].alive]
  <2>1. /\ Alone(t) /\ UNCHANGED <<ends, browser, session>> /\ up'[t] = up[t] /\ Gets(t, m)
        /\ portal'[t].cursor = portal[t].cursor /\ read'[t] = read[t]
    BY <1>5, WrittenEffect
  <2>2. shown' = shown /\ session' = session /\ m.type # "output"
    BY <2>1 DEF ends
  <2> HIDE DEF m
  <2>3. StreamInv(t)'
    <3>1. /\ \A x \in Messages(up'[t]) : x.type \in {"hello", "ack"} => x.cursor <= Len(shown')
          /\ \A x \in Messages(down'[t]) : x.type = "output" =>
               x.cursor = x.data.to /\ x.data.from < x.data.to /\ x.data.to <= session'.end
      BY <1>0, <2>1, <2>2, StreamMessages
    <3> QED BY <1>0, <2>1, <2>2, <3>1 DEF StreamInv
  <2> QED BY <2>1, <2>3, OutputAloneStep
<1>6. CASE AskOutput(t)
  <2>1. /\ Alone(t) /\ UNCHANGED <<ends, browser, session>> /\ up'[t] = up[t] /\ down'[t] = down[t]
        /\ portal'[t] = portal[t] /\ read'[t].state = "sent" /\ read'[t].cursor = portal[t].cursor
    BY <1>6, AskOutputEffect
  <2>2. shown' = shown /\ session' = session
    BY <2>1 DEF ends
  <2>3. StreamInv(t)'
    BY <1>0, <2>1, <2>2 DEF StreamInv
  <2> QED BY <2>1, <2>3, OutputAloneStep
<1>7. CASE GetOutput(t)
  <2>1. read[t].state = "answered" /\ read[t].frame # Nothing =>
           /\ read[t].frame.from = read[t].cursor
           /\ read[t].frame.from < read[t].frame.to /\ read[t].frame.to <= session.end
    BY <1>0 DEF StreamInv
  <2>2. /\ Alone(t) /\ UNCHANGED <<ends, browser, session>> /\ read[t].state = "answered"
        /\ \/ /\ up'[t] = up[t] /\ down'[t] = down[t]
              /\ portal'[t].cursor = portal[t].cursor /\ read'[t] = NoRead
           \/ /\ read[t].frame # Nothing /\ up'[t] = up[t]
              /\ portal'[t].cursor = portal[t].cursor
              /\ portal'[t].sent = read[t].cursor + (read[t].frame.to - read[t].frame.from)
              /\ Gets(t, [type |-> "output", data |-> read[t].frame, cursor |-> portal'[t].sent])
              /\ read'[t] = NoRead
           \/ Over(t) /\ Gets(t, [type |-> "exit"])
    BY <1>7, <2>1, GetOutputEffect
  <2>3. shown' = shown /\ session' = session
    BY <2>2 DEF ends
  <2>4. CASE up'[t] = up[t] /\ down'[t] = down[t] /\ portal'[t].cursor = portal[t].cursor /\ read'[t] = NoRead
    <3>1. StreamInv(t)'
      BY <1>0, <1>a, <2>3, <2>4 DEF StreamInv
    <3> QED BY <2>2, <3>1, OutputAloneStep
  <2>5. CASE /\ read[t].frame # Nothing /\ up'[t] = up[t]
             /\ portal'[t].cursor = portal[t].cursor
             /\ portal'[t].sent = read[t].cursor + (read[t].frame.to - read[t].frame.from)
             /\ Gets(t, [type |-> "output", data |-> read[t].frame, cursor |-> portal'[t].sent])
             /\ read'[t] = NoRead
    <3> DEFINE m == [type |-> "output", data |-> read[t].frame, cursor |-> portal'[t].sent]
    <3>1. portal'[t].sent = read[t].frame.to
      BY <2>1, <2>2, <2>5, StreamTyped
    <3>2. Gets(t, m) /\ m.cursor = m.data.to /\ m.data.from < m.data.to /\ m.data.to <= session.end
      BY <2>1, <2>2, <2>5, <3>1
    <3> HIDE DEF m
    <3>3. /\ \A x \in Messages(up'[t]) : x.type \in {"hello", "ack"} => x.cursor <= Len(shown')
          /\ \A x \in Messages(down'[t]) : x.type = "output" =>
               x.cursor = x.data.to /\ x.data.from < x.data.to /\ x.data.to <= session'.end
      BY <1>0, <2>3, <2>5, <3>2, StreamMessages
    <3>4. StreamInv(t)'
      BY <1>0, <1>a, <2>3, <2>5, <3>3 DEF StreamInv
    <3> QED BY <2>2, <3>4, OutputAloneStep
  <2>6. CASE Over(t) /\ Gets(t, [type |-> "exit"])
    BY <2>2, <2>6, OutputOver
  <2> QED BY <2>2, <2>4, <2>5, <2>6
<1>8. CASE RpcRefused(t) \/ RpcTimeout(t) \/ TransportEnds(t)
  <2>1. Fail(t) \/ TransportEnds(t)
    BY <1>8 DEF RpcRefused, RpcTimeout
  <2> QED BY <2>1, FailEffect, OutputOver
<1> QED BY <1>1, <1>2, <1>3, <1>4, <1>5, <1>6, <1>7, <1>8 DEF MainThread, OutputLoop

\* What the call knows after an answer.
LEMMA AnswerKnown ==
    ASSUME TypeOK, NEW t \in Transports, StreamInv(t), UNCHANGED <<shown, up, down, portal>>,
           session'.end \in Nat, session.end <= session'.end,
           \/ RefusesRead(t)
           \/ AnswersRead(t) /\ (session'.start # session'.end => session'.start = read[t].cursor)
           \/ read'[t].state = "waiting" /\ read'[t].cursor = read[t].cursor /\ session'.start = read[t].cursor
           \/ read'[t].state = "sent" /\ read'[t].cursor = read[t].cursor
           \/ read'[t] = read[t] /\ read[t].state # "waiting"
    PROVE  StreamInv(t)'
<1>0. /\ session.end \in Nat /\ NoRead.cursor = 0 /\ NoRead.state = "none" /\ Len(shown) \in Nat
  BY ScreenTyped, CallFields
<1>1. /\ portal'[t].cursor <= Len(shown')
      /\ \A m \in Messages(up'[t]) : m.type \in {"hello", "ack"} => m.cursor <= Len(shown')
      /\ \A m \in Messages(down'[t]) : m.type = "output" =>
           m.cursor = m.data.to /\ m.data.from < m.data.to /\ m.data.to <= session'.end
  BY <1>0, StreamTyped DEF StreamInv
<1>2. CASE RefusesRead(t)
  BY <1>0, <1>1, <1>2 DEF StreamInv, RefusesRead
<1>3. CASE AnswersRead(t) /\ (session'.start # session'.end => session'.start = read[t].cursor)
  BY <1>0, <1>1, <1>3 DEF StreamInv, AnswersRead
<1>4. CASE read'[t].state = "waiting" /\ read'[t].cursor = read[t].cursor /\ session'.start = read[t].cursor
  BY <1>0, <1>1, <1>4 DEF StreamInv
<1>5. CASE read'[t].state = "sent" /\ read'[t].cursor = read[t].cursor
  BY <1>0, <1>1, <1>5 DEF StreamInv
<1>6. CASE read'[t] = read[t] /\ read[t].state # "waiting"
  <2>1. read'[t].state = "answered" /\ read'[t].frame # Nothing =>
         /\ read'[t].frame.from = read'[t].cursor
         /\ read'[t].frame.from < read'[t].frame.to /\ read'[t].frame.to <= session'.end
    BY <1>0, <1>6, StreamTyped DEF StreamInv
  <2> QED BY <1>1, <1>6, <2>1 DEF StreamInv
<1> QED BY <1>2, <1>3, <1>4, <1>5, <1>6

LEMMA OutputAgentStep ==
    ASSUME TypeOK, TypeOK', ConnectionInv, OutputInv, NEW t \in Transports,
           ServesRead(t) \/ OrderedWrite(t) \/ NotFound(t)
    PROVE  OutputInv'
<1>0. StreamInv(t) /\ ScreenInv /\ session.start <= session.end /\ session.end \in Nat /\ session.start \in Nat
      /\ Len(shown) \in Nat /\ BufferSize \in Nat /\ session'.end \in Nat /\ session'.start \in Nat
  <2>1. session'.end \in Nat /\ session'.start \in Nat
    BY SessionFields DEF TypeOK
  <2> QED BY <2>1, ScreenTyped DEF OutputInv, ScreenInv
<1>1. /\ Served(t) /\ session'.end = session.end /\ session'.registered = session.registered
      /\ session'.closed = session.closed
  <2>1. CASE ReadStream(t)
    <3>1. session \in RootShellSession /\ session' \in RootShellSession
      BY DEF TypeOK
    <3>2. session.registered \in BOOLEAN /\ session'.registered \in BOOLEAN
      BY <3>1, SessionFields
    <3>3. session.registered /\ session'.registered
      BY <1>0, <2>1, ReadStreamEffect
    <3>4. session.registered = TRUE /\ session'.registered = TRUE
      BY <3>2, <3>3
    <3> QED BY <1>0, <2>1, <3>4, ReadStreamEffect
  <2>2. CASE ReadWakes(t)
    BY <1>0, <2>2, ReadWakesEffect
  <2>3. CASE OrderedWrite(t)
    BY <2>3, OrderedWriteEffect DEF SameOutput
  <2>4. CASE Attach(t)
    BY <2>4, AttachEffect DEF SameOutput
  <2>5. CASE NotFound(t)
    BY <2>5, NotFoundEffect
  <2> QED BY <2>1, <2>2, <2>3, <2>4, <2>5 DEF ServesRead
<1>2. /\ session.start <= session'.start /\ session'.start <= session'.end
      /\ session.registered => session'.start <= Len(shown)
      /\ ~session.registered => session'.start = session.start
      /\ \A u \in Transports \ {t} : session'.stream = u => session.stream = u /\ session'.start = session.start
  <2>1. CASE ReadStream(t)
    <3>1. CASE session' = session
      BY <1>0, <3>1 DEF ScreenInv
    <3>2. CASE /\ session.stream = t /\ read[t].cursor \in session.start..session.end
               /\ session'.start = read[t].cursor
      <4>1. session'.stream = session.stream /\ session.registered
        BY <1>0, <2>1, ReadStreamEffect
      <4>2. read[t].cursor <= Len(shown) /\ read[t].cursor \in Nat
        BY <1>0, StreamTyped DEF StreamInv
      <4> QED BY <1>0, <1>1, <3>2, <4>1, <4>2
    <3> QED BY <1>0, <2>1, <3>1, <3>2, ReadStreamEffect
  <2>2. CASE session'.start = session.start /\ (session'.stream = session.stream \/ session'.stream = t)
    BY <1>0, <1>1, <2>2 DEF ScreenInv
  <2>3. CASE ReadWakes(t)
    BY <1>0, <2>2, <2>3, ReadWakesEffect
  <2>4. CASE OrderedWrite(t)
    BY <2>2, <2>4, OrderedWriteEffect DEF SameOutput
  <2>5. CASE Attach(t)
    BY <2>2, <2>5, AttachEffect DEF SameOutput
  <2>6. CASE NotFound(t)
    BY <2>2, <2>6, NotFoundEffect
  <2> QED BY <2>1, <2>3, <2>4, <2>5, <2>6 DEF ServesRead
<1>3. ScreenInv'
  <2>1. session.registered => session'.end - session'.start <= BufferSize
    BY <1>0, <1>1, <1>2 DEF ScreenInv
  <2> QED BY <1>0, <1>1, <1>2, <2>1 DEF Served, ScreenInv
<1>4. ASSUME NEW u \in Transports \ {t} PROVE StreamInv(u)'
  <2>1. StreamInv(u) /\ UNCHANGED <<shown, up, down, portal>> /\ read'[u] = read[u]
    BY <1>1 DEF OutputInv, Served
  <2> QED BY <1>1, <1>2, <2>1 DEF StreamInv
<1>5. StreamInv(t)'
  <2>0. UNCHANGED <<shown, up, down, portal>> /\ session.end <= session'.end
    BY <1>0, <1>1 DEF Served
  <2>1. CASE ReadStream(t)
    BY <1>0, <2>0, <2>1, ReadStreamEffect, AnswerKnown
  <2>2. CASE ReadWakes(t)
    <3>1. session' = session /\ read[t].state = "waiting"
          /\ \/ session.stream = t /\ AnswersRead(t)
             \/ session.stream # t /\ RefusesRead(t)
      BY <1>0, <2>2, ReadWakesEffect
    <3>2. session.stream = t => (session.start # session.end => session.start = read[t].cursor)
      BY <1>0, <3>1 DEF ScreenInv, StreamInv
    <3> QED BY <1>0, <2>0, <3>1, <3>2, AnswerKnown
  <2>3. CASE OrderedWrite(t)
    <3>1. /\ read'[t] = read[t] /\ session'.start = session.start /\ session'.stream = session.stream
          /\ session'.end = session.end
      BY <2>3, OrderedWriteEffect DEF SameOutput
    <3> QED BY <1>0, <1>1, <2>0, <3>1 DEF StreamInv
  <2>4. CASE Attach(t)
    BY <1>0, <2>0, <2>4, AttachEffect, AnswerKnown
  <2>5. CASE NotFound(t)
    <3>1. session' = session /\ (RefusesRead(t) \/ read'[t] = read[t])
      BY <2>5, NotFoundEffect
    <3>2. CASE read'[t] = read[t]
      BY <1>0, <2>0, <3>1, <3>2 DEF StreamInv
    <3> QED BY <1>0, <2>0, <3>1, <3>2, AnswerKnown
  <2> QED BY <2>1, <2>2, <2>3, <2>4, <2>5 DEF ServesRead
<1> QED BY <1>3, <1>4, <1>5 DEF OutputInv

LEMMA OutputShellStep ==
    ASSUME TypeOK, TypeOK', OutputInv, Pump \/ PumpEnds \/ Close \/ PtyPrints \/ Exit
    PROVE  OutputInv'
<1>0. /\ ScreenInv /\ Len(shown) \in Nat /\ session.end \in Nat /\ session.start \in Nat /\ printed \in Nat
      /\ BufferSize \in Nat /\ session.registered \in BOOLEAN
  BY ScreenTyped DEF OutputInv
<1>1. /\ UNCHANGED <<typed, received, shown, browser, up, down, portal, write, read, mismatch>>
      /\ session'.stream = session.stream
      /\ \/ /\ session'.end > session.end /\ session'.end <= printed
            /\ session'.end - session.start <= BufferSize
            /\ session'.start = session.start /\ session'.registered = session.registered
            /\ ~session.closed /\ session'.closed = session.closed /\ printed' = printed
         \/ /\ session'.start = session.start /\ session'.end = session.end
            /\ session'.registered = session.registered /\ printed' = printed
            /\ session'.closed = session.closed \/ session'.closed
         \/ /\ session'.start = session.end /\ session'.end = session.end
            /\ ~session'.registered /\ session'.closed /\ printed' = printed
         \/ session' = session /\ printed' = printed + 1
  BY ShellEffect
<1>2. session'.end \in Nat /\ session.end <= session'.end
      /\ (session'.registered => session.registered /\ session'.start = session.start)
  <2>1. session'.end \in Nat
    BY SessionFields DEF TypeOK
  <2> QED BY <1>0, <1>1, <2>1
<1>3. ScreenInv'
  <2>1. /\ Len(shown') <= session'.end /\ session'.end <= printed' /\ session'.start <= session'.end
    BY <1>0, <1>1, <1>2 DEF ScreenInv
  <2>2. IF session'.registered THEN session'.start <= Len(shown') /\ session'.end - session'.start <= BufferSize
        ELSE session'.closed /\ session'.start = session'.end
    BY <1>0, <1>1, <1>2 DEF ScreenInv
  <2>3. browser'.rendering # Nothing =>
         /\ browser'.rendering.from = Len(shown')
         /\ browser'.rendering.from < browser'.rendering.to /\ browser'.rendering.to <= session'.end
    BY <1>0, <1>1, <1>2, ScreenTyped DEF ScreenInv
  <2> QED BY <1>0, <1>1, <2>1, <2>2, <2>3 DEF ScreenInv
<1>4. ASSUME NEW t \in Transports PROVE StreamInv(t)'
  <2>1. StreamInv(t) /\ portal'[t].cursor = portal[t].cursor /\ read'[t] = read[t] /\ up'[t] = up[t] /\ down'[t] = down[t]
    BY <1>1 DEF OutputInv
  <2>2. read[t].state = "waiting" /\ session'.stream = t /\ session'.registered => session'.start = read[t].cursor
    BY <1>1, <1>2, <2>1 DEF StreamInv
  <2> QED BY <1>0, <1>1, <1>2, <2>1, <2>2, StreamKept
<1> QED BY <1>3, <1>4 DEF OutputInv

LEMMA OutputInit == Init => OutputInv
<1> SUFFICES ASSUME Init PROVE OutputInv
  OBVIOUS
<1>1. ScreenInv
  BY ShellAssumption DEF Init, ScreenInv, Nothing
<1>2. ASSUME NEW t \in Transports PROVE StreamInv(t)
  <2>1. portal[t].cursor = 0 /\ read[t] = NoRead /\ up[t] = <<>> /\ down[t] = <<>> /\ Len(shown) = 0
    BY DEF Init
  <2> QED BY <2>1, CallFields, Emptying DEF StreamInv
<1> QED BY <1>1, <1>2 DEF OutputInv

(***************************************************************************)
(* The types, the connections and the output: one induction.               *)
(***************************************************************************)

BaseInv == TypeOK /\ ConnectionInv /\ OutputInv

BrowserStep == Type \/ Connect \/ Stop \/ GiveUp \/ Disconnect \/ Flush \/ OnMessage \/ Rendered
PortalStep(t) == MainThread(t) \/ OutputLoop(t) \/ RpcRefused(t) \/ RpcTimeout(t) \/ TransportEnds(t)
AgentStep(t) == ServesRead(t) \/ OrderedWrite(t) \/ NotFound(t)
ShellStep == Pump \/ PumpEnds \/ Close \/ PtyPrints \/ Exit

LEMMA Steps == Next => BrowserStep \/ ShellStep \/ \E t \in Transports : PortalStep(t) \/ AgentStep(t)
BY DEF Next, BrowserStep, ShellStep, PortalStep, AgentStep

LEMMA BaseInit == Init => BaseInv
BY TypeInit, ConnectionInit, OutputInit DEF BaseInv

LEMMA BaseStep == BaseInv /\ [Next]_vars => BaseInv'
<1> SUFFICES ASSUME BaseInv, [Next]_vars PROVE BaseInv'
  OBVIOUS
<1> USE DEF BaseInv
<1>1. CASE BrowserStep
  BY <1>1, TypeBrowserStep, ConnectionBrowserStep, OutputBrowserStep DEF BrowserStep
<1>2. ASSUME NEW t \in Transports, PortalStep(t) PROVE BaseInv'
  BY <1>2, TypePortalStep, ConnectionPortalStep, OutputPortalStep DEF PortalStep
<1>3. ASSUME NEW t \in Transports, AgentStep(t) PROVE BaseInv'
  <2>1. TypeOK'
    BY <1>3, TypeAgentStep DEF AgentStep
  <2> QED BY <1>3, <2>1, ConnectionAgentStep, OutputAgentStep DEF AgentStep
<1>4. CASE ShellStep
  <2>1. TypeOK'
    BY <1>4, TypeShellStep DEF ShellStep
  <2> QED BY <1>4, <2>1, ConnectionShellStep, OutputShellStep DEF ShellStep
<1>5. CASE UNCHANGED vars
  <2>1. TypeOK'
    BY <1>5 DEF vars, ends, TypeOK
  <2>2. ScreenInv'
    BY <1>5 DEF vars, ends, OutputInv, ScreenInv
  <2>3. ASSUME NEW t \in Transports PROVE StreamInv(t)'
    BY <1>5 DEF vars, ends, OutputInv, StreamInv
  <2> QED BY <1>5, <2>1, <2>2, <2>3, ConnectionShellStep DEF OutputInv
<1> QED BY <1>1, <1>2, <1>3, <1>4, <1>5, Steps

\* The connections and the output are in order in every reachable state: a transport
\* is new, runs and ends once, and what it knows of the output is on the screen.
THEOREM BaseInductive == Spec => []BaseInv
BY BaseInit, BaseStep, PTL DEF Spec

\* Every variable of a session keeps its type.
THEOREM ShellTypeOK == Spec => []TypeOK
<1>1. BaseInv => TypeOK
  BY DEF BaseInv
<1> QED BY <1>1, BaseInductive, PTL

\* The buffer of the agent never holds more than STREAM_BUFFER_BYTES, and what it
\* has discarded is on the screen, until the session is closed: read_stream
\* discards only what the cursor of a transport acknowledges.
THEOREM ShellOutputIsKept == Spec => []OutputIsKept
<1>1. BaseInv => OutputIsKept
  BY DEF BaseInv, OutputInv, ScreenInv, OutputIsKept
<1> QED BY <1>1, BaseInductive, PTL

(***************************************************************************)
(* The first number of a connection.                                       *)
(***************************************************************************)

\* When nothing is pending, the agent has every input.
LEMMA AllServed ==
    ASSUME TypeOK, InputInv, ~browser.stopped, browser.pending = NoPending
    PROVE  /\ NothingNew /\ browser.nextSeq = session.inputSeq + 1 /\ session.pending = NoPending
           /\ Len(received) = typed - browser.queued
BY DEF InputInv, PendingInv, PendingOf

\* A call that is in the agent has been sent.
LEMMA CallSent ==
    ASSUME NEW t \in Transports, write[t].state = "sent"
    PROVE  InputOf(write[t]) \in Sent(t) /\ InputOf(write[t]).seq = write[t].seq
           /\ InputOf(write[t]).data = write[t].data
BY DEF Sent, InputOf

\* A step of the browser that does not make the connection.
LEMMA ReadyTalk ==
    ASSUME TypeOK, NEW t \in Transports, t = browser.socket, ReadyAt(t), Outside,
           browser'.connected = browser.connected,
           Messages(down'[t]) \subseteq Messages(down[t]),
           \A k : Has(down'[t], k) => Has(down[t], k),
           \A k : Only(down[t], k) => Only(down'[t], k),
           up' = up \/ \E m : Puts(t, m) /\ (m.type = "input" => browser.connected),
           \/ browser'.pending = NoPending => browser.pending = NoPending
           \/ browser.connected /\ portal[t].pc # "attaching"
    PROVE  ReadyAt(t)'
<1>1. Has(up'[t], "input") => Has(up[t], "input") \/ browser.connected
  BY PutsKnown
<1>2. UNCHANGED <<portal, write, read, session>>
  BY DEF Outside
<1>3. \A m \in Messages(down'[t]) : Has(down'[t], m.type)
  BY DEF Has
<1>4. CASE browser.connected
  BY <1>1, <1>2, <1>3, <1>4 DEF ReadyAt
<1>5. CASE ~browser.connected
  BY <1>1, <1>2, <1>3, <1>5 DEF ReadyAt
<1> QED BY <1>4, <1>5

LEMMA ReadyBrowserStep == ASSUME BaseInv, ReadyInv, BrowserStep PROVE ReadyInv'
<1> USE DEF BaseInv
<1> SUFFICES ASSUME NEW t \in Transports, t = browser'.socket PROVE ReadyAt(t)'
  BY DEF ReadyInv
<1>0. Nobody \notin Transports /\ (t = browser.socket => ReadyAt(t) /\ browser.socket # Nobody)
  BY Numbers DEF ReadyInv
<1>a. /\ \A k : Has(down[t], k) => Has(down[t], k)
      /\ \A k : Only(down[t], k) => Only(down[t], k)
  OBVIOUS
<1>b. ASSUME TakesDown
      PROVE  LET s == browser.socket
             IN  /\ s # Nobody /\ s \in Transports /\ portal[s].pc # "attaching"
                 /\ Messages(down'[s]) \subseteq Messages(down[s]) /\ Has(down[s], Message.type)
                 /\ \A k : Has(down'[s], k) => Has(down[s], k)
                 /\ \A k : Only(down[s], k) => Only(down'[s], k)
                 /\ \A k : Only(down[s], k) /\ Message.type = k => ~Has(down'[s], k)
  <2>1. browser.socket \in Transports /\ down[browser.socket] # <<>>
    BY <1>b DEF TakesDown
  <2>2. portal[browser.socket].pc # "attaching"
    BY <2>1, <1>0, SocketKnown
  <2> QED BY <1>b, <1>0, <2>1, <2>2, TakesKnown
<1>1. CASE Type
  BY <1>0, <1>1, <1>a, TypeEffect, ReadyTalk DEF Keeps
<1>2. CASE Connect
  <2>1. /\ t = browser.last + 1 /\ t \in Transports /\ browser'.connected = FALSE
        /\ up'[t] = <<[type |-> "hello", cursor |-> browser.cursor]>> /\ portal'[t].pc = "connected"
        /\ UNCHANGED <<down, write, read>>
    BY <1>2, ConnectEffect DEF ConnectionInv, SocketInv
  <2>2. t > browser.last
    BY <2>1, BrowserTyped, BrowserFields, Numbers DEF Nobody
  <2>3. portal[t].pc = "none" /\ down[t] = <<>> /\ write[t] = NoWrite
    BY <2>2 DEF ConnectionInv, TransportInv, New
  <2>4. ~Has(up'[t], "input")
    BY <2>1 DEF Has, Messages
  <2> QED BY <2>1, <2>3, <2>4, Emptying DEF ReadyAt
<1>3. CASE Stop \/ GiveUp
  BY <1>0, <1>3, StopEffect DEF Stops
<1>4. CASE Disconnect
  BY <1>0, <1>4, DisconnectEffect
<1>5. CASE Flush
  <2>1. Outside /\ UNCHANGED down /\ Flushes(browser)
    BY <1>5, Connected, FlushStep
  <2>2. t = browser.socket /\ browser'.connected = browser.connected
        /\ (browser'.pending = NoPending => browser.pending = NoPending)
    BY <2>1 DEF Flushes, Keeps
  <2>3. up' = up \/ \E m : Puts(t, m) /\ (m.type = "input" => browser.connected)
    BY <2>1, <2>2 DEF Flushes
  <2> QED BY <1>0, <1>a, <2>1, <2>2, <2>3, ReadyTalk
<1>6. CASE OnReady
  <2>1. /\ Outside /\ TakesDown /\ Message.type = "ready"
        /\ browser'.connected = TRUE /\ browser'.socket = browser.socket
    BY <1>6, OnReadyEffect DEF Flushes, Keeps
  <2>2. t = browser.socket /\ ReadyAt(t) /\ ~Has(down'[t], "ready") /\ Only(down'[t], "ready")
        /\ portal'[t].pc # "attaching"
    BY <1>0, <1>b, <2>1 DEF Outside, ReadyAt
  <2>3. \A m \in Messages(down'[t]) : m.type # "ready"
    BY <2>2 DEF Has
  <2> QED BY <2>1, <2>2, <2>3 DEF ReadyAt
<1>7. CASE OnInputAck
  <2>1. Outside /\ Message.type = "input_ack" /\ TakesDown
    BY <1>7, OnInputAckEffect
  <2>2. ~Stops
    BY <1>0 DEF Stops
  <2>3. t = browser.socket /\ browser'.connected = browser.connected
    BY <1>7, <2>2, OnInputAckEffect DEF Flushes, Keeps
  <2>4. browser.connected
    BY <1>0, <1>b, <2>1, <2>3 DEF ReadyAt
  <2>5. up' = up \/ \E m : Puts(t, m) /\ (m.type = "input" => browser.connected)
    BY <1>7, <2>2, <2>3, <2>4, OnInputAckEffect DEF Flushes
  <2> QED BY <1>0, <1>b, <2>1, <2>3, <2>4, <2>5, ReadyTalk
<1>8. CASE OnOutput
  <2>1. Outside /\ TakesDown
    BY <1>8, OnOutputEffect
  <2>2. ~Stops
    BY <1>0 DEF Stops
  <2>3. t = browser.socket /\ browser'.connected = browser.connected /\ browser'.pending = browser.pending
    BY <1>8, <2>2, OnOutputEffect DEF Keeps
  <2>4. up' = up \/ \E m : Puts(t, m) /\ (m.type = "input" => browser.connected)
    <3>1. up' = up \/ Puts(t, [type |-> "ack", cursor |-> browser.cursor])
      BY <1>8, <2>2, <2>3, OnOutputEffect
    <3>2. [type |-> "ack", cursor |-> browser.cursor].type = "ack"
      OBVIOUS
    <3> QED BY <3>1, <3>2
  <2> QED BY <1>0, <1>b, <2>1, <2>3, <2>4, ReadyTalk
<1>9. CASE OnEnd
  BY <1>0, <1>9, OnEndEffect DEF Stops
<1>10. CASE Rendered
  <2>1. browser.rendering # Nothing => browser.rendering.from < browser.rendering.to
    BY DEF OutputInv, ScreenInv
  <2>2. Outside /\ UNCHANGED down /\ Keeps(browser) /\ browser'.pending = browser.pending
    BY <1>10, <2>1, RenderedEffect
  <2>3. t = browser.socket /\ browser'.connected = browser.connected
    BY <2>2 DEF Keeps
  <2>4. up' = up \/ \E m : Puts(t, m) /\ (m.type = "input" => browser.connected)
    BY <1>10, <2>1, <2>3, RenderedEffect
  <2> QED BY <1>0, <1>a, <2>2, <2>3, <2>4, ReadyTalk
<1> QED BY <1>1, <1>2, <1>3, <1>4, <1>5, <1>6, <1>7, <1>8, <1>9, <1>10 DEF BrowserStep, OnMessage

LEMMA ReadySame ==
    ASSUME NEW t \in Transports, ReadyAt(t), Same(t), browser' = browser, session'.inputSeq = session.inputSeq
    PROVE  ReadyAt(t)'
BY DEF ReadyAt, Same

\* A step of one transport of the portal.
LEMMA ReadyAlone ==
    ASSUME BaseInv, ReadyInv, NEW t \in Transports, Alone(t), UNCHANGED <<browser, session>>,
           t = browser.socket => ReadyAt(t)'
    PROVE  ReadyInv'
<1> SUFFICES ASSUME NEW u \in Transports, u = browser'.socket PROVE ReadyAt(u)'
  BY DEF ReadyInv
<1>1. CASE u = t
  BY <1>1
<1>2. CASE u # t
  <2>1. ReadyAt(u) /\ Same(u)
    BY <1>2 DEF ReadyInv, Alone, Same
  <2> QED BY <2>1, ReadySame
<1> QED BY <1>1, <1>2

\* What a step of the portal may do to the transport of the browser.
LEMMA ReadyPortal ==
    ASSUME TypeOK, NEW t \in Transports, t = browser.socket, ReadyAt(t), UNCHANGED <<browser, session>>,
           \A k : Has(up'[t], k) => Has(up[t], k),
           write'[t] = NoWrite \/ write'[t] = write[t] \/ Has(up[t], "input"),
           \/ down'[t] = down[t]
           \/ \E m : Gets(t, m) /\ m.type # "ready" /\ (m.type = "input_ack" => write[t] # NoWrite),
           portal'[t].pc # "attaching" \/ read'[t].state # "answered"
    PROVE  ReadyAt(t)'
<1>1. /\ Has(down'[t], "ready") => Has(down[t], "ready")
      /\ Only(down[t], "ready") => Only(down'[t], "ready")
      /\ \A m \in Messages(down'[t]) : m.type = "ready" => m \in Messages(down[t])
      /\ Has(down'[t], "input_ack") => Has(down[t], "input_ack") \/ write[t] # NoWrite
  <2>1. CASE down'[t] = down[t]
    BY <2>1
  <2>2. CASE \E m : Gets(t, m) /\ m.type # "ready" /\ (m.type = "input_ack" => write[t] # NoWrite)
    <3>1. PICK m : Gets(t, m) /\ m.type # "ready" /\ (m.type = "input_ack" => write[t] # NoWrite)
      BY <2>2
    <3>2. /\ Messages(down'[t]) \subseteq Messages(down[t]) \cup {m}
          /\ \A k : Has(down'[t], k) => Has(down[t], k) \/ m.type = k
          /\ Only(down[t], "ready") => Only(down'[t], "ready")
      BY <3>1, GetsKnown
    <3> QED BY <3>1, <3>2
  <2> QED BY <2>1, <2>2
<1> QED BY <1>1 DEF ReadyAt

LEMMA ReadyOver ==
    ASSUME TypeOK, NEW t \in Transports, t = browser.socket, ReadyAt(t), UNCHANGED <<browser, session>>, Over(t),
           \/ down'[t] = down[t]
           \/ \E m : Gets(t, m) /\ m.type \in {"exit", "error"}
    PROVE  ReadyAt(t)'
<1>1. /\ \A k : Has(up'[t], k) => Has(up[t], k)
      /\ write'[t] = NoWrite \/ write'[t] = write[t]
      /\ portal'[t].pc # "attaching"
  BY Emptying DEF Over
<1> QED BY <1>1, ReadyPortal DEF Over

LEMMA ReadyPortalStep == ASSUME BaseInv, ReadyInv, NEW t \in Transports, PortalStep(t) PROVE ReadyInv'
<1> USE DEF BaseInv
<1>0. TransportInv(t) /\ SocketInv /\ StreamInv(t) /\ (t = browser.socket => ReadyAt(t))
  BY DEF ConnectionInv, OutputInv, ReadyInv
<1>a. read[t].state = "answered" /\ read[t].frame # Nothing => read[t].frame.from < read[t].frame.to
  BY <1>0 DEF StreamInv
<1>1. CASE Hello(t)
  <2>1. Alone(t) /\ UNCHANGED <<browser, session>> /\ up[t] # <<>> /\ up'[t] = Tail(up[t]) /\ down'[t] = down[t]
        /\ write'[t] = write[t] /\ read'[t].state = "attach"
    BY <1>0, <1>1, HelloSaid, HelloEffect
  <2>2. \A k : Has(up'[t], k) => Has(up[t], k)
    BY <2>1, HeardKnown
  <2> QED BY <1>0, <2>1, <2>2, ReadyAlone, ReadyPortal
<1>2. CASE Attached(t)
  <2> DEFINE m == [type |-> "ready", inputSeq |-> read[t].inputSeq]
  <2>1. Alone(t) /\ UNCHANGED <<browser, session>> /\ portal[t].pc = "attaching" /\ read[t].state = "answered"
        /\ up'[t] = up[t] /\ Gets(t, m) /\ portal'[t].pc = "open" /\ write'[t] = write[t]
    BY <1>2, AttachedEffect
  <2>2. ASSUME t = browser.socket PROVE ReadyAt(t)'
    <3>1. ReadyAt(t) /\ down[t] = <<>> /\ ~browser.connected
      BY <1>0, <2>1, <2>2 DEF SocketInv
    <3>2. Messages(down'[t]) \subseteq {m} /\ Only(down'[t], "ready") /\ ~Has(down'[t], "input_ack")
      <4>1. m.type = "ready" /\ Messages(down[t]) = {} /\ Only(down[t], "ready")
            /\ ~Has(down[t], "ready") /\ ~Has(down[t], "input_ack")
        BY <3>1, Emptying
      <4> QED BY <2>1, <4>1, GetsKnown
    <3>3. browser.pending = NoPending => m.inputSeq = session.inputSeq
      BY <2>1, <3>1 DEF ReadyAt
    <3> QED BY <2>1, <3>1, <3>2, <3>3 DEF ReadyAt
  <2> QED BY <2>1, <2>2, ReadyAlone
<1>3. CASE OnAck(t)
  <2>1. Alone(t) /\ UNCHANGED <<browser, session>> /\ down'[t] = down[t] /\ up[t] # <<>>
        /\ \/ up'[t] = Tail(up[t]) /\ portal'[t].pc = "open" /\ write'[t] = write[t]
           \/ Over(t)
    BY <1>3, OnAckEffect
  <2>2. up'[t] = Tail(up[t]) => \A k : Has(up'[t], k) => Has(up[t], k)
    BY <2>1, HeardKnown
  <2> QED BY <1>0, <2>1, <2>2, ReadyAlone, ReadyPortal, ReadyOver
<1>4. CASE OnInput(t)
  <2>1. Alone(t) /\ UNCHANGED <<browser, session>> /\ down'[t] = down[t] /\ up[t] # <<>> /\ up'[t] = Tail(up[t])
        /\ Next1(t).type = "input" /\ portal'[t].pc = "writing"
    BY <1>4, OnInputEffect
  <2>2. Has(up[t], "input") /\ \A k : Has(up'[t], k) => Has(up[t], k)
    BY <2>1, HeardKnown
  <2> QED BY <1>0, <2>1, <2>2, ReadyAlone, ReadyPortal
<1>5. CASE Written(t)
  <2> DEFINE m == [type |-> "input_ack", seq |-> write[t].seq, complete |-> write[t].ok, alive |-> write[t].alive]
  <2>1. Alone(t) /\ UNCHANGED <<browser, session>> /\ up'[t] = up[t] /\ Gets(t, m) /\ portal'[t].pc = "open"
        /\ write'[t] = NoWrite /\ write[t].state = "answered"
    BY <1>5, WrittenEffect
  <2>2. m.type = "input_ack" /\ m.type # "ready" /\ write[t] # NoWrite
    BY <2>1, CallFields
  <2> HIDE DEF m
  <2> QED BY <1>0, <2>1, <2>2, ReadyAlone, ReadyPortal
<1>6. CASE AskOutput(t)
  BY <1>0, <1>6, AskOutputEffect, ReadyAlone, ReadyPortal
<1>7. CASE GetOutput(t)
  <2> DEFINE m == [type |-> "output", data |-> read[t].frame, cursor |-> portal'[t].sent]
             x == [type |-> "exit"]
  <2>1. m.type = "output" /\ x.type = "exit"
    OBVIOUS
  <2>2. Alone(t) /\ UNCHANGED <<browser, session>> /\ portal[t].pc # "attaching"
        /\ \/ /\ up'[t] = up[t] /\ portal'[t].pc = portal[t].pc /\ write'[t] = write[t]
              /\ down'[t] = down[t] \/ Gets(t, m)
           \/ Over(t) /\ Gets(t, x)
    BY <1>7, <1>a, GetOutputEffect
  <2> HIDE DEF m, x
  <2> QED BY <1>0, <2>1, <2>2, ReadyAlone, ReadyPortal, ReadyOver
<1>8. CASE RpcRefused(t) \/ RpcTimeout(t) \/ TransportEnds(t)
  <2>1. Alone(t) /\ UNCHANGED <<browser, session>> /\ Over(t) /\ (down'[t] = down[t] \/ Gets(t, [type |-> "error"]))
    BY <1>8, FailEffect DEF RpcRefused, RpcTimeout
  <2>2. [type |-> "error"].type = "error"
    OBVIOUS
  <2> QED BY <1>0, <2>1, <2>2, ReadyAlone, ReadyOver
<1> QED BY <1>1, <1>2, <1>3, <1>4, <1>5, <1>6, <1>7, <1>8 DEF PortalStep, MainThread, OutputLoop

\* A call of the agent never takes an input while the browser waits for none.
LEMMA ReadyAgentStep == ASSUME BaseInv, ReadyInv, InputInv, NEW t \in Transports, AgentStep(t) PROVE ReadyInv'
<1> USE DEF BaseInv
<1> SUFFICES ASSUME NEW u \in Transports, u = browser'.socket PROVE ReadyAt(u)'
  BY DEF ReadyInv
<1>0. session.start <= session.end
  BY DEF OutputInv, ScreenInv
<1>1. Served(t)
  BY <1>0, AttachEffect, ReadStreamEffect, ReadWakesEffect, OrderedWriteEffect, NotFoundEffect
  DEF AgentStep, ServesRead
<1>2. UNCHANGED <<browser, up, down, portal>> /\ u = browser.socket /\ ReadyAt(u)
  BY <1>1 DEF Served, ReadyInv
<1>3. /\ write'[u] = write[u] \/ write[u] # NoWrite
      /\ browser.pending = NoPending => session'.inputSeq = session.inputSeq
      /\ read'[u].state = "answered" => \/ read'[u] = read[u]
                                        \/ read'[u].inputSeq = session.inputSeq
  <2>0. ~browser.stopped
    BY <1>2, SocketKnown, Numbers
  <2>1. CASE Attach(t)
    BY <1>1, <2>1, AttachEffect DEF Served, SameInput
  <2>2. CASE ReadStream(t)
    <3>1. read'[t].state = "answered" => read'[t].inputSeq = session.inputSeq
      BY <1>0, <2>2, ReadStreamEffect, CallFields DEF AnswersRead, RefusesRead
    <3> QED BY <1>0, <1>1, <2>2, <3>1, ReadStreamEffect DEF Served, SameInput
  <2>3. CASE ReadWakes(t)
    <3>1. read'[t].state = "answered" => read'[t].inputSeq = session.inputSeq
      BY <1>0, <2>3, ReadWakesEffect, CallFields DEF AnswersRead, RefusesRead
    <3> QED BY <1>0, <1>1, <2>3, <3>1, ReadWakesEffect DEF Served
  <2>4. CASE OrderedWrite(t)
    <3>1. read'[u] = read[u] /\ (write'[u] = write[u] \/ write[u] # NoWrite)
      BY <1>1, <2>4, OrderedWriteEffect, CallFields DEF Served
    <3>2. ASSUME browser.pending = NoPending PROVE session'.inputSeq = session.inputSeq
      <4>1. write[t].seq <= session.inputSeq
        BY <2>0, <2>4, <3>2, AllServed, CallSent, OrderedWriteEffect DEF NothingNew
      <4>2. write[t].seq # session.inputSeq + 1
        BY <4>1, SessionTyped, SessionFields, TransportTyped, WriteFields
      <4> QED BY <2>4, <4>2, OrderedWriteEffect DEF InOrder
    <3> QED BY <3>1, <3>2
  <2>5. CASE NotFound(t)
    <3>1. read'[t].state = "answered" => read'[t] = read[t]
      BY <2>5, NotFoundEffect, CallFields DEF RefusesRead
    <3> QED BY <1>1, <2>5, <3>1, NotFoundEffect, CallFields DEF Served
  <2> QED BY <2>1, <2>2, <2>3, <2>4, <2>5 DEF AgentStep, ServesRead
<1> QED BY <1>2, <1>3 DEF ReadyAt

LEMMA ReadyShellStep ==
    ASSUME BaseInv, ReadyInv, ShellStep \/ UNCHANGED vars
    PROVE  ReadyInv'
<1>1. UNCHANGED <<browser, up, down, portal, write, read>> /\ session'.inputSeq = session.inputSeq
  BY ShellEffect DEF BaseInv, ShellStep, SameInput, vars
<1> QED BY <1>1 DEF ReadyInv, ReadyAt

LEMMA ReadyInit == Init => ReadyInv
<1> SUFFICES ASSUME Init, NEW t \in Transports PROVE t # browser.socket
  BY DEF ReadyInv
<1> QED BY Numbers DEF Init

(***************************************************************************)
(* Input.                                                                  *)
(***************************************************************************)

LEMMA InputTyped ==
    ASSUME TypeOK
    PROVE  /\ typed \in Nat /\ received \in Seq(Nat) /\ Len(received) \in Nat /\ session.inputSeq \in Nat
           /\ session.offset \in Nat /\ session.pending \in Input /\ session.inputData \in Interval
           /\ browser \in Browser /\ browser.nextSeq \in Nat /\ browser.queued \in Nat /\ browser.pending \in Input
BY SessionTyped, SessionFields, BrowserTyped, BrowserFields DEF TypeOK

LEMMA SentIs ==
    ASSUME NEW t, NEW p \in Sent(t)
    PROVE  \/ \E m \in Messages(up[t]) : m.type = "input" /\ p = InputOf(m)
           \/ write[t].state = "sent" /\ p = InputOf(write[t])
BY DEF Sent

LEMMA AckedIs ==
    ASSUME NEW t, NEW n \in Acked(t)
    PROVE  \/ \E m \in Messages(down[t]) : m.type = "input_ack" /\ m.complete /\ n = m.seq
           \/ write[t].state = "answered" /\ write[t].ok /\ n = write[t].seq
BY DEF Acked

\* Nothing new is sent.
LEMMA SentKept ==
    ASSUME NEW t, \A m \in Messages(up'[t]) : m.type = "input" => m \in Messages(up[t]),
           write'[t].state = "sent" =>
             \/ write[t].state = "sent" /\ InputOf(write'[t]) = InputOf(write[t])
             \/ \E m \in Messages(up[t]) : m.type = "input" /\ InputOf(write'[t]) = InputOf(m)
    PROVE  Sent(t)' \subseteq Sent(t)
BY DEF Sent, InputOf

\* Nothing new is acknowledged.
LEMMA AckedKept ==
    ASSUME NEW t,
           \A m \in Messages(down'[t]) : m.type = "input_ack" /\ m.complete =>
             m \in Messages(down[t]) \/ (write[t].state = "answered" /\ write[t].ok /\ m.seq = write[t].seq),
           write'[t].state = "answered" /\ write'[t].ok =>
             write[t].state = "answered" /\ write[t].ok /\ write'[t].seq = write[t].seq
    PROVE  Acked(t)' \subseteq Acked(t)
BY DEF Acked

\* While nothing is sent, acknowledged or taken, the order is kept.
LEMMA InputKept ==
    ASSUME TypeOK, InputInv, UNCHANGED <<typed, received>>, SameInput,
           \A t \in Transports : Sent(t)' \subseteq Sent(t) /\ Acked(t)' \subseteq Acked(t),
           ~browser'.stopped => /\ ~browser.stopped /\ browser'.pending = browser.pending
                                /\ browser'.queued = browser.queued /\ browser'.nextSeq = browser.nextSeq
    PROVE  InputInv'
<1>1. PICK d \in [from : 0..typed, to : 0..typed] : NextInput(d) /\ PendingInv(d)
  BY DEF InputInv
<1>2. NextInput(d)'
  BY <1>1 DEF NextInput, SameInput
<1>3. NothingNew => NothingNew'
  BY DEF NothingNew, SameInput
<1>4. PendingInv(d)'
  BY <1>1, <1>3 DEF PendingInv, PendingOf, SameInput
<1> QED BY <1>1, <1>2, <1>4 DEF InputInv, SameInput

\* What a flush sends is what is pending after it.
LEMMA Resent ==
    ASSUME NEW p \in Input
    PROVE  InputOf(InputMessage(p)) = p /\ InputMessage(p).type = "input"
BY DEF Input, InputOf, InputMessage

LEMMA PutsSent ==
    ASSUME TypeOK, NEW t \in Transports, NEW p \in Input, Puts(t, InputMessage(p)), UNCHANGED write
    PROVE  \A u \in Transports : Sent(u)' \subseteq IF u = t THEN Sent(u) \cup {p} ELSE Sent(u)
<1> SUFFICES ASSUME NEW u \in Transports, NEW q \in Sent(u)' PROVE q \in IF u = t THEN Sent(u) \cup {p} ELSE Sent(u)
  OBVIOUS
<1>1. CASE u # t
  BY <1>1 DEF Puts, Sent
<1>2. CASE u = t
  <2>1. Messages(up'[t]) \subseteq Messages(up[t]) \cup {InputMessage(p)}
    BY PutsKnown
  <2> QED BY <1>2, <2>1, Resent DEF Sent
<1> QED BY <1>1, <1>2

\* A flush of the browser b, whose queue and pending input are in order.
LEMMA InputFlush ==
    ASSUME TypeOK, NEW b \in Browser, b.queued <= typed, Flushes(b), b.connected => ~b.stopped,
           NEW d \in [from : 0..typed, to : 0..typed], NextInput(d), PendingOf(b, d),
           UNCHANGED <<typed, received, write, session>>
    PROVE  \E e \in [from : 0..typed, to : 0..typed] : NextInput(e)' /\ PendingInv(e)'
<1>0. /\ typed \in Nat /\ Len(received) \in Nat /\ session.inputSeq \in Nat /\ session.pending \in Input
      /\ b.queued \in Nat /\ b.nextSeq \in Nat /\ b.pending \in Input
  BY InputTyped, BrowserFields
<1>1. CASE up' = up /\ browser'.pending = b.pending /\ browser'.queued = b.queued
  <2>1. \A t \in Transports : Sent(t)' = Sent(t)
    BY <1>1 DEF Sent
  <2>2. NextInput(d)'
    BY <2>1 DEF NextInput
  <2>3. NothingNew => NothingNew'
    BY <2>1 DEF NothingNew
  <2>4. PendingInv(d)'
    BY <1>1, <2>3 DEF PendingInv, PendingOf, Flushes, Keeps
  <2> QED BY <2>2, <2>4
<1>2. CASE /\ b.connected /\ Puts(b.socket, InputMessage(b.pending))
           /\ b.pending # NoPending /\ browser'.pending = b.pending /\ browser'.queued = b.queued
  <2>1. \A t \in Transports : Sent(t)' \subseteq Sent(t) \cup {b.pending}
    <3>1. b.socket \in Transports
      BY <1>2 DEF Puts
    <3> QED BY <1>0, <1>2, <3>1, PutsSent
  <2>2. /\ b.pending.seq = b.nextSeq /\ ~b.stopped
        /\ \/ b.nextSeq = session.inputSeq + 1 /\ b.pending.data = d
           \/ b.nextSeq = session.inputSeq /\ b.nextSeq > 0 /\ b.pending.data = session.inputData /\ NothingNew
    BY <1>2 DEF PendingOf
  <2>3. NextInput(d)'
    <3> SUFFICES ASSUME NEW t \in Transports, NEW p \in Sent(t)'
                 PROVE  /\ p.seq \in 1..session.inputSeq + 1
                        /\ p.seq = session.inputSeq => p.data = session.inputData
                        /\ p.seq = session.inputSeq + 1 => p.data = d
      BY DEF NextInput
    <3>1. CASE p \in Sent(t)
      BY <3>1 DEF NextInput
    <3>2. CASE p = b.pending
      BY <1>0, <2>2, <3>2
    <3> QED BY <2>1, <3>1, <3>2
  <2>4. NothingNew /\ b.nextSeq = session.inputSeq => NothingNew'
    BY <1>0, <2>1, <2>2 DEF NothingNew
  <2>5. PendingInv(d)'
    BY <1>0, <1>2, <2>2, <2>4 DEF PendingInv, PendingOf, Flushes, Keeps
  <2> QED BY <2>3, <2>5
<1>3. CASE /\ b.connected /\ Puts(b.socket, InputMessage(browser'.pending)) /\ b.pending = NoPending
           /\ \E n \in 1..b.queued :
                /\ browser'.queued = b.queued - n
                /\ browser'.pending = [seq |-> b.nextSeq,
                     data |-> [from |-> typed - b.queued, to |-> typed - b.queued + n]]
  <2>1. PICK n \in 1..b.queued :
                /\ browser'.queued = b.queued - n
                /\ browser'.pending = [seq |-> b.nextSeq,
                     data |-> [from |-> typed - b.queued, to |-> typed - b.queued + n]]
    BY <1>3
  <2>e. PICK e : e = [from |-> typed - b.queued, to |-> typed - b.queued + n]
    OBVIOUS
  <2>p. PICK p : p = [seq |-> b.nextSeq, data |-> e]
    OBVIOUS
  <2>2. /\ b.nextSeq = session.inputSeq + 1 /\ session.pending = NoPending
        /\ Len(received) = typed - b.queued /\ NothingNew /\ ~b.stopped
    BY <1>3 DEF PendingOf
  <2>3. e.from = Len(received) /\ e.to = Len(received) + n /\ e.to = typed - browser'.queued /\ e.to <= typed
        /\ e \in [from : 0..typed, to : 0..typed] /\ e \in Interval
    BY SMTT(30), <1>0, <2>1, <2>2, <2>e DEF Interval
  <2>4. browser'.pending = p /\ p.seq = session.inputSeq + 1 /\ p.data = e /\ p \in Input
    BY <1>0, <2>1, <2>2, <2>3, <2>e, <2>p DEF Input
  <2>5. p # NoPending
    BY <1>0, <2>4 DEF NoPending
  <2>6. \A t \in Transports : Sent(t)' \subseteq Sent(t) \cup {p}
    <3>1. b.socket \in Transports /\ Puts(b.socket, InputMessage(p))
      BY <1>3, <2>4 DEF Puts
    <3> QED BY <2>4, <3>1, PutsSent
  <2>7. NextInput(e)'
    <3>1. ASSUME NEW t \in Transports, NEW q \in Sent(t)'
          PROVE  /\ q.seq \in 1..session.inputSeq + 1
                 /\ q.seq = session.inputSeq => q.data = session.inputData
                 /\ q.seq = session.inputSeq + 1 => q.data = e
      <4>1. CASE q \in Sent(t)
        <5>1. q.seq \in 1..session.inputSeq + 1 /\ (q.seq = session.inputSeq => q.data = session.inputData)
          BY <4>1 DEF NextInput
        <5>2. q.seq <= session.inputSeq
          BY <2>2, <4>1 DEF NothingNew
        <5> QED BY <1>0, <5>1, <5>2
      <4>2. CASE q = p
        BY <1>0, <2>4, <4>2
      <4> QED BY <2>6, <4>1, <4>2
    <3>2. session.offset = 0 /\ session.pending.seq = 0
      BY <2>2 DEF NextInput, NoPending
    <3>3. e.from + session.offset = Len(received) /\ Len(received) <= e.to /\ e.to <= typed
      BY <1>0, <2>1, <2>3, <3>2
    <3>4. session' = session /\ received' = received /\ typed' = typed
      OBVIOUS
    <3>5. e.from + session'.offset = Len(received') /\ Len(received') <= e.to /\ e.to <= typed'
      BY <3>3, <3>4
    <3>6. session'.pending.seq = 0 /\ session'.pending = NoPending /\ session'.offset = 0
      BY <2>2, <3>2, <3>4
    <3> QED BY <3>1, <3>4, <3>5, <3>6 DEF NextInput
  <2>8. PendingInv(e)'
    <3>1. browser'.nextSeq = session'.inputSeq + 1 /\ browser'.pending # NoPending
          /\ browser'.pending.seq = browser'.nextSeq
          /\ browser'.pending.data = e /\ browser'.pending.data.to = typed' - browser'.queued
      BY <2>2, <2>3, <2>4, <2>5 DEF Flushes
    <3> QED BY <3>1 DEF PendingInv, PendingOf
  <2> QED BY <2>3, <2>7, <2>8
<1>4. \/ up' = up /\ browser'.pending = b.pending /\ browser'.queued = b.queued
      \/ b.connected /\ Puts(b.socket, InputMessage(b.pending)) /\ b.pending # NoPending
           /\ browser'.pending = b.pending /\ browser'.queued = b.queued
      \/ /\ b.connected /\ Puts(b.socket, InputMessage(browser'.pending)) /\ b.pending = NoPending
         /\ \E n \in 1..b.queued :
                /\ browser'.queued = b.queued - n
                /\ browser'.pending = [seq |-> b.nextSeq,
                     data |-> [from |-> typed - b.queued, to |-> typed - b.queued + n]]
  BY DEF Flushes
<1> QED BY <1>1, <1>2, <1>3, <1>4

\* What the browser takes from its channel adds nothing.
LEMMA TakesKept ==
    ASSUME TypeOK, TakesDown, UNCHANGED write
    PROVE  \A t \in Transports : Acked(t)' \subseteq Acked(t)
<1> SUFFICES ASSUME NEW t \in Transports PROVE Acked(t)' \subseteq Acked(t)
  OBVIOUS
<1>1. Messages(down'[t]) \subseteq Messages(down[t])
  BY TakesKnown DEF TakesDown
<1> QED BY <1>1, AckedKept

LEMMA PutsKept ==
    ASSUME TypeOK, NEW t \in Transports, NEW m, Puts(t, m), m.type # "input", UNCHANGED write
    PROVE  \A u \in Transports : Sent(u)' \subseteq Sent(u)
<1> SUFFICES ASSUME NEW u \in Transports PROVE Sent(u)' \subseteq Sent(u)
  OBVIOUS
<1>1. Messages(up'[u]) \subseteq Messages(up[u]) \cup {m}
  BY PutsKnown DEF Puts
<1> QED BY <1>1, SentKept

\* A flush after a message of the portal, or without one.
LEMMA InputFlushes ==
    ASSUME TypeOK, InputInv, NEW b \in Browser, b.queued <= typed, Flushes(b), b.connected => ~b.stopped,
           NEW d \in [from : 0..typed, to : 0..typed], NextInput(d), PendingOf(b, d),
           UNCHANGED <<typed, received, write, session>>,
           \A t \in Transports : Acked(t)' \subseteq Acked(t)
    PROVE  InputInv'
<1>1. \E e \in [from : 0..typed, to : 0..typed] : NextInput(e)' /\ PendingInv(e)'
  BY InputFlush
<1> QED BY <1>1 DEF InputInv

LEMMA InputBrowserStep == ASSUME BaseInv, ReadyInv, InputInv, BrowserStep PROVE InputInv'
<1> USE DEF BaseInv
<1>a. /\ UNCHANGED <<received, write, session>> =>
           UNCHANGED <<received, write>> /\ SameInput
      /\ UNCHANGED <<up, write>> => \A t \in Transports : Sent(t)' \subseteq Sent(t)
      /\ UNCHANGED <<down, write>> => \A t \in Transports : Acked(t)' \subseteq Acked(t)
  BY DEF SameInput, Sent, Acked
<1>b. browser.connected => ~browser.stopped
  BY Connected, SocketKnown
<1>1. CASE Type
  <2>1. /\ UNCHANGED <<received, write, session, up, down>> /\ typed' = typed + 1
        /\ browser'.queued = browser.queued + 1
        /\ browser'.stopped = browser.stopped /\ browser'.pending = browser.pending
        /\ browser'.nextSeq = browser.nextSeq
    BY <1>1, TypeEffect DEF Outside, Keeps
  <2>2. PICK d \in [from : 0..typed, to : 0..typed] : NextInput(d) /\ PendingInv(d)
    BY DEF InputInv
  <2>3. /\ typed \in Nat /\ browser.queued \in Nat /\ Len(received) \in Nat
        /\ typed' - browser'.queued = typed - browser.queued /\ 0..typed \subseteq 0..typed'
    <3>1. typed \in Nat /\ browser.queued \in Nat /\ Len(received) \in Nat
      BY InputTyped
    <3>2. typed' = typed + 1 /\ browser'.queued = browser.queued + 1
      BY <2>1
    <3> HIDE <2>1
    <3> QED BY <3>1, <3>2
  <2>4. (\A t \in Transports : Sent(t)' = Sent(t) /\ Acked(t)' = Acked(t)) /\ (NothingNew => NothingNew')
    BY <2>1 DEF Sent, Acked, NothingNew
  <2>5. NextInput(d)'
    <3>1. d.to \in 0..typed /\ (d.to <= typed => d.to <= typed')
      BY <2>1, <2>3
    <3>2. session' = session /\ received' = received
      BY <2>1
    <3> QED BY <2>2, <2>4, <3>1, <3>2 DEF NextInput
  <2>6. PendingInv(d)'
    <3>1. session' = session /\ received' = received
      BY <2>1
    <3>2. CASE browser.pending = NoPending
      BY <2>1, <2>2, <2>3, <2>4, <3>1, <3>2 DEF PendingInv, PendingOf
    <3>3. CASE browser.pending # NoPending
      BY <2>1, <2>2, <2>3, <2>4, <3>1, <3>3 DEF PendingInv, PendingOf
    <3> QED BY <3>2, <3>3
  <2>7. d \in [from : 0..typed', to : 0..typed']
    BY <2>3
  <2>8. \A i \in 1..Len(received') : received'[i] = i
    BY <2>1 DEF InputInv
  <2>9. \A t \in Transports : \A n \in Acked(t)' : n \in 1..session'.inputSeq
    BY <2>1, <2>4 DEF InputInv
  <2> QED BY <2>5, <2>6, <2>7, <2>8, <2>9 DEF InputInv
<1>2. CASE Connect
  <2>1. /\ UNCHANGED <<typed, received, write, session, down>> /\ browser'.pending = browser.pending
        /\ browser'.stopped = browser.stopped /\ browser'.queued = browser.queued
        /\ browser'.nextSeq = browser.nextSeq
    BY <1>2, ConnectEffect DEF ends
  <2>2. ASSUME NEW u \in Transports PROVE Sent(u)' \subseteq Sent(u)
    <3>1. CASE u = browser.last + 1
      <4>1. up'[u] = <<[type |-> "hello", cursor |-> browser.cursor]>>
        BY <1>2, <3>1, ConnectEffect
      <4>2. \A m \in Messages(up'[u]) : m.type = "hello"
        BY <4>1 DEF Messages
      <4> QED BY <2>1, <4>2, SentKept
    <3>2. CASE u # browser.last + 1
      BY <1>2, <2>1, <3>2, ConnectEffect, SentKept
    <3> QED BY <3>1, <3>2
  <2> QED BY <1>a, <2>1, <2>2, InputKept
<1>3. CASE Stop \/ GiveUp
  BY <1>a, <1>3, StopEffect, InputKept DEF Stops, Outside
<1>4. CASE Disconnect
  <2>1. /\ UNCHANGED <<typed, received, write, session, up>> /\ browser'.pending = browser.pending
        /\ browser'.stopped = browser.stopped /\ browser'.queued = browser.queued
        /\ browser'.nextSeq = browser.nextSeq
    BY <1>4, DisconnectEffect DEF Outside
  <2>2. ASSUME NEW u \in Transports PROVE Acked(u)' \subseteq Acked(u)
    <3>1. Messages(down'[u]) \subseteq Messages(down[u])
      BY <1>4, DisconnectEffect, Emptying
    <3> QED BY <2>1, <3>1, AckedKept
  <2> QED BY <1>a, <2>1, <2>2, InputKept
<1>5. CASE Flush
  <2>1. UNCHANGED <<typed, received, write, session, down>> /\ Flushes(browser)
    BY <1>5, Connected, FlushStep DEF Outside
  <2>2. PICK d \in [from : 0..typed, to : 0..typed] : NextInput(d) /\ PendingOf(browser, d)
    BY DEF InputInv, PendingInv
  <2> QED BY <1>a, <1>b, <2>1, <2>2, BrowserTyped, InputFlushes
<1>6. CASE OnReady
  <2>1. PICK b \in Browser :
                /\ Flushes(b)
                /\ b.socket = browser.socket /\ b.last = browser.last /\ b.connected = TRUE
                /\ b.stopped = browser.stopped /\ b.cursor = browser.cursor /\ b.queued = browser.queued
                /\ b.pending = browser.pending /\ b.rendering = browser.rendering /\ b.timer = browser.timer
                /\ b.nextSeq = IF browser.pending = NoPending THEN Message.inputSeq + 1 ELSE browser.nextSeq
    BY <1>6, OnReadyEffect
  <2>2. UNCHANGED <<typed, received, write, session>> /\ TakesDown /\ Message.type = "ready"
    BY <1>6, OnReadyEffect DEF Outside
  <2>3. PICK d \in [from : 0..typed, to : 0..typed] : NextInput(d) /\ PendingOf(browser, d)
    BY DEF InputInv, PendingInv
  <2>4. browser.socket \in Transports /\ ReadyAt(browser.socket) /\ Message \in Messages(down[browser.socket])
    BY <2>2 DEF TakesDown, ReadyInv
  <2>5. ~browser.stopped
    BY <2>4, SocketKnown, Numbers
  <2>6. browser.pending = NoPending => Message.inputSeq = session.inputSeq
    BY <2>2, <2>4 DEF ReadyAt
  <2>7. PendingOf(b, d)
    BY <2>1, <2>3, <2>6 DEF PendingOf
  <2> QED BY <2>1, <2>2, <2>3, <2>5, <2>7, BrowserTyped, TakesKept, InputFlushes
<1>7. CASE OnInputAck
  <2>1. UNCHANGED <<typed, received, write, session>> /\ TakesDown /\ Message.type = "input_ack"
    BY <1>7, OnInputAckEffect DEF Outside
  <2>2. PICK d \in [from : 0..typed, to : 0..typed] : NextInput(d) /\ PendingOf(browser, d)
    BY DEF InputInv, PendingInv
  <2>3. browser.socket \in Transports /\ Message \in Messages(down[browser.socket])
    BY <2>1 DEF TakesDown
  <2>4. ~browser.stopped
    BY <2>3, SocketKnown, Numbers
  <2>5. \A t \in Transports : Acked(t)' \subseteq Acked(t)
    BY <2>1, TakesKept
  <2>6. CASE up' = up /\ Stops
    BY <1>a, <2>1, <2>5, <2>6, InputKept DEF Stops
  <2>7. CASE up' = up /\ Keeps(browser) /\ browser'.nextSeq = browser.nextSeq
             /\ browser'.pending = browser.pending /\ browser'.queued = browser.queued
    BY <1>a, <2>1, <2>5, <2>7, InputKept DEF Keeps
  <2>8. ASSUME browser.pending.seq = Message.seq, Message.complete, NEW b \in Browser, Flushes(b),
               b.connected = browser.connected, b.stopped = browser.stopped, b.queued = browser.queued,
               b.pending = NoPending, b.nextSeq = Message.seq + 1
        PROVE  InputInv'
    <3>1. Message.seq \in 1..session.inputSeq
      <4>1. Message.seq \in Acked(browser.socket)
        BY <2>1, <2>3, <2>8 DEF Acked
      <4> QED BY <2>3, <4>1 DEF InputInv
    <3>2. browser.pending # NoPending /\ session.inputSeq \in Nat
      BY <2>8, <3>1, InputTyped DEF NoPending
    <3>3. /\ Message.seq = session.inputSeq /\ Len(received) = typed - browser.queued
          /\ session.pending = NoPending /\ NothingNew
      BY <2>2, <2>4, <2>8, <3>1, <3>2 DEF PendingOf
    <3>4. PendingOf(b, d)
      BY <2>8, <3>3 DEF PendingOf
    <3> QED BY <1>b, <2>1, <2>2, <2>5, <2>8, <3>4, BrowserTyped, InputFlushes
  <2> QED BY <1>7, <2>6, <2>7, <2>8, OnInputAckEffect
<1>8. CASE OnOutput
  <2>1. UNCHANGED <<typed, received, write, session>> /\ TakesDown /\ browser.socket \in Transports
    BY <1>8, OnOutputEffect DEF Outside, TakesDown
  <2>2. \A t \in Transports : Sent(t)' \subseteq Sent(t)
    <3>1. up' = up \/ Puts(browser.socket, [type |-> "ack", cursor |-> browser.cursor])
      BY <1>8, OnOutputEffect
    <3>2. [type |-> "ack", cursor |-> browser.cursor].type # "input"
      OBVIOUS
    <3> QED BY <1>a, <2>1, <3>1, <3>2, PutsKept
  <2>3. ~browser'.stopped => /\ ~browser.stopped /\ browser'.pending = browser.pending
                             /\ browser'.queued = browser.queued /\ browser'.nextSeq = browser.nextSeq
    BY <1>8, OnOutputEffect DEF Stops, Keeps
  <2> QED BY <1>a, <2>1, <2>2, <2>3, TakesKept, InputKept
<1>9. CASE OnEnd
  BY <1>a, <1>9, OnEndEffect, TakesKept, InputKept DEF Stops, Outside
<1>10. CASE Rendered
  <2>1. browser.rendering # Nothing => browser.rendering.from < browser.rendering.to
    BY DEF OutputInv, ScreenInv
  <2>2. /\ UNCHANGED <<typed, received, write, session, down>> /\ Keeps(browser)
        /\ browser'.nextSeq = browser.nextSeq /\ browser'.queued = browser.queued /\ browser'.pending = browser.pending
    BY <1>10, <2>1, RenderedEffect DEF Outside
  <2>3. \A t \in Transports : Sent(t)' \subseteq Sent(t)
    <3>1. up' = up \/ Puts(browser.socket, [type |-> "ack", cursor |-> browser'.cursor])
      BY <1>10, <2>1, RenderedEffect
    <3>2. [type |-> "ack", cursor |-> browser'.cursor].type # "input"
      OBVIOUS
    <3> QED BY <1>a, <2>2, <3>1, <3>2, PutsKept DEF Puts
  <2> QED BY <1>a, <2>2, <2>3, InputKept DEF Keeps
<1> QED BY <1>1, <1>2, <1>3, <1>4, <1>5, <1>6, <1>7, <1>8, <1>9, <1>10 DEF BrowserStep, OnMessage

\* A step of one transport of the portal.
LEMMA InputAlone ==
    ASSUME TypeOK, InputInv, NEW t \in Transports, Alone(t), UNCHANGED <<typed, received, browser, session>>,
           Sent(t)' \subseteq Sent(t), Acked(t)' \subseteq Acked(t)
    PROVE  InputInv'
<1>1. ASSUME NEW u \in Transports PROVE Sent(u)' \subseteq Sent(u) /\ Acked(u)' \subseteq Acked(u)
  <2>1. CASE u = t
    BY <2>1
  <2>2. CASE u # t
    BY <2>2 DEF Alone, Sent, Acked
  <2> QED BY <2>1, <2>2
<1>2. SameInput
  BY DEF SameInput
<1> QED BY <1>1, <1>2, InputKept

\* What a transport of the portal may do with its inputs.
LEMMA InputPortal ==
    ASSUME TypeOK, NEW t \in Transports,
           Messages(up'[t]) \subseteq Messages(up[t]),
           \/ down'[t] = down[t]
           \/ \E m : Gets(t, m) /\ (m.type = "input_ack" /\ m.complete =>
                       write[t].state = "answered" /\ write[t].ok /\ m.seq = write[t].seq),
           \/ write'[t] = NoWrite \/ write'[t] = write[t]
           \/ /\ write'[t].state = "sent"
              /\ \E m \in Messages(up[t]) : m.type = "input" /\ InputOf(write'[t]) = InputOf(m)
    PROVE  Sent(t)' \subseteq Sent(t) /\ Acked(t)' \subseteq Acked(t)
<1>1. Sent(t)' \subseteq Sent(t)
  BY CallFields, SentKept
<1>2. \A m \in Messages(down'[t]) : m.type = "input_ack" /\ m.complete =>
        m \in Messages(down[t]) \/ (write[t].state = "answered" /\ write[t].ok /\ m.seq = write[t].seq)
  <2>1. CASE down'[t] = down[t]
    BY <2>1
  <2>2. CASE \E m : Gets(t, m) /\ (m.type = "input_ack" /\ m.complete =>
                       write[t].state = "answered" /\ write[t].ok /\ m.seq = write[t].seq)
    <3>1. PICK m : Gets(t, m) /\ (m.type = "input_ack" /\ m.complete =>
                       write[t].state = "answered" /\ write[t].ok /\ m.seq = write[t].seq)
      BY <2>2
    <3>2. Messages(down'[t]) \subseteq Messages(down[t]) \cup {m}
      BY <3>1, GetsKnown
    <3> QED BY <3>1, <3>2
  <2> QED BY <2>1, <2>2
<1>3. write'[t].state = "answered" /\ write'[t].ok =>
        write[t].state = "answered" /\ write[t].ok /\ write'[t].seq = write[t].seq
  BY CallFields
<1>4. Acked(t)' \subseteq Acked(t)
  BY <1>2, <1>3, AckedKept
<1> QED BY <1>1, <1>4

LEMMA InputPortalStep == ASSUME BaseInv, InputInv, NEW t \in Transports, PortalStep(t) PROVE InputInv'
<1> USE DEF BaseInv
<1>0. TransportInv(t) /\ StreamInv(t)
  BY DEF ConnectionInv, OutputInv
<1>a. read[t].state = "answered" /\ read[t].frame # Nothing => read[t].frame.from < read[t].frame.to
  BY <1>0 DEF StreamInv
<1>b. ASSUME Over(t) PROVE Messages(up'[t]) \subseteq Messages(up[t]) /\ (write'[t] = NoWrite \/ write'[t] = write[t])
  BY <1>b, Emptying DEF Over
<1>1. CASE Hello(t)
  <2>1. Alone(t) /\ UNCHANGED <<ends, browser, session>> /\ up[t] # <<>> /\ up'[t] = Tail(up[t]) /\ down'[t] = down[t]
        /\ write'[t] = write[t]
    BY <1>0, <1>1, HelloSaid, HelloEffect
  <2>2. Messages(up'[t]) \subseteq Messages(up[t])
    BY <2>1, HeardKnown
  <2> QED BY <2>1, <2>2, InputAlone, InputPortal DEF ends
<1>2. CASE Attached(t)
  <2> DEFINE m == [type |-> "ready", inputSeq |-> read[t].inputSeq]
  <2>1. Alone(t) /\ UNCHANGED <<ends, browser, session>> /\ up'[t] = up[t] /\ Gets(t, m) /\ write'[t] = write[t]
    BY <1>2, AttachedEffect
  <2>2. m.type # "input_ack"
    OBVIOUS
  <2> HIDE DEF m
  <2> QED BY <2>1, <2>2, InputAlone, InputPortal DEF ends
<1>3. CASE OnAck(t)
  <2>1. Alone(t) /\ UNCHANGED <<ends, browser, session>> /\ down'[t] = down[t] /\ up[t] # <<>>
        /\ \/ up'[t] = Tail(up[t]) /\ write'[t] = write[t]
           \/ Over(t)
    BY <1>3, OnAckEffect
  <2>2. up'[t] = Tail(up[t]) => Messages(up'[t]) \subseteq Messages(up[t])
    BY <2>1, HeardKnown
  <2> QED BY <1>b, <2>1, <2>2, InputAlone, InputPortal DEF ends
<1>4. CASE OnInput(t)
  <2>1. Alone(t) /\ UNCHANGED <<ends, browser, session>> /\ down'[t] = down[t] /\ up[t] # <<>> /\ up'[t] = Tail(up[t])
        /\ Next1(t).type = "input" /\ write'[t].state = "sent" /\ write'[t].seq = Next1(t).seq
        /\ write'[t].data = Next1(t).data
    BY <1>4, OnInputEffect
  <2>2. Messages(up'[t]) \subseteq Messages(up[t]) /\ Next1(t) \in Messages(up[t])
        /\ InputOf(write'[t]) = InputOf(Next1(t))
    BY <2>1, HeardKnown DEF InputOf
  <2> QED BY <2>1, <2>2, InputAlone, InputPortal DEF ends
<1>5. CASE Written(t)
  <2> DEFINE m == [type |-> "input_ack", seq |-> write[t].seq, complete |-> write[t].ok, alive |-> write[t].alive]
  <2>1. Alone(t) /\ UNCHANGED <<ends, browser, session>> /\ up'[t] = up[t] /\ Gets(t, m)
        /\ write'[t] = NoWrite /\ write[t].state = "answered"
    BY <1>5, WrittenEffect
  <2>2. m.complete = write[t].ok /\ m.seq = write[t].seq
    OBVIOUS
  <2> HIDE DEF m
  <2> QED BY <2>1, <2>2, InputAlone, InputPortal DEF ends
<1>6. CASE AskOutput(t)
  BY <1>6, AskOutputEffect, InputAlone, InputPortal DEF ends
<1>7. CASE GetOutput(t)
  <2> DEFINE m == [type |-> "output", data |-> read[t].frame, cursor |-> portal'[t].sent]
             x == [type |-> "exit"]
  <2>1. m.type # "input_ack" /\ x.type # "input_ack"
    OBVIOUS
  <2>2. Alone(t) /\ UNCHANGED <<ends, browser, session>>
        /\ \/ up'[t] = up[t] /\ write'[t] = write[t] /\ (down'[t] = down[t] \/ Gets(t, m))
           \/ Over(t) /\ Gets(t, x)
    BY <1>7, <1>a, GetOutputEffect
  <2> HIDE DEF m, x
  <2> QED BY <1>b, <2>1, <2>2, InputAlone, InputPortal DEF ends
<1>8. CASE RpcRefused(t) \/ RpcTimeout(t) \/ TransportEnds(t)
  <2>1. Alone(t) /\ UNCHANGED <<ends, browser, session>> /\ Over(t) /\ (down'[t] = down[t] \/ Gets(t, [type |-> "error"]))
    BY <1>8, FailEffect DEF RpcRefused, RpcTimeout
  <2>2. [type |-> "error"].type # "input_ack"
    OBVIOUS
  <2> QED BY <1>b, <2>1, <2>2, InputAlone, InputPortal DEF ends
<1> QED BY <1>1, <1>2, <1>3, <1>4, <1>5, <1>6, <1>7, <1>8 DEF PortalStep, MainThread, OutputLoop

\* The agent serves a call: what it answers as complete it has.
LEMMA ServedSent ==
    ASSUME NEW t \in Transports, Served(t), write'[t].state = "sent" => write'[t] = write[t]
    PROVE  \A u \in Transports : Sent(u)' \subseteq Sent(u)
<1> SUFFICES ASSUME NEW u \in Transports PROVE Sent(u)' \subseteq Sent(u)
  OBVIOUS
<1>1. Messages(up'[u]) \subseteq Messages(up[u]) /\ (write'[u].state = "sent" => write'[u] = write[u])
  BY DEF Served
<1> QED BY <1>1, SentKept

LEMMA ServedAcked ==
    ASSUME NEW t \in Transports, Served(t), NEW n,
           write'[t].state = "answered" /\ write'[t].ok => write'[t] = write[t] \/ write'[t].seq = n
    PROVE  \A u \in Transports : Acked(u)' \subseteq Acked(u) \cup {n}
BY DEF Acked, Served

\* The calls of the agent that take no input.
LEMMA InputServed ==
    ASSUME TypeOK, InputInv, NEW t \in Transports, Served(t), received' = received, SameInput,
           write'[t].state = "sent" => write'[t] = write[t],
           write'[t].state = "answered" /\ write'[t].ok => write'[t] = write[t] \/ (Repeated(t) /\ write'[t].seq = write[t].seq)
    PROVE  InputInv'
<1>1. \A u \in Transports : Sent(u)' \subseteq Sent(u)
  BY ServedSent
<1>2. PICK d \in [from : 0..typed, to : 0..typed] : NextInput(d) /\ PendingInv(d)
  BY DEF InputInv
<1>3. NextInput(d)' /\ PendingInv(d)'
  <2>1. NextInput(d)'
    BY <1>1, <1>2 DEF NextInput, SameInput, Served
  <2>2. NothingNew => NothingNew'
    BY <1>1 DEF NothingNew, SameInput
  <2>3. PendingInv(d)'
    BY <1>2, <2>2 DEF PendingInv, PendingOf, SameInput, Served
  <2> QED BY <2>1, <2>3
<1>4. ASSUME NEW u \in Transports, NEW n \in Acked(u)' PROVE n \in 1..session'.inputSeq
  <2>0. session.inputSeq \in Nat /\ session'.inputSeq = session.inputSeq
    BY InputTyped DEF SameInput
  <2>1. CASE Repeated(t)
    <3>1. Acked(u)' \subseteq Acked(u) \cup {session.inputSeq}
      BY <2>1, ServedAcked DEF Repeated, Acked
    <3>2. session.inputSeq > 0
      BY <2>1 DEF Repeated
    <3> QED BY <2>0, <3>1, <3>2 DEF InputInv
  <2>2. CASE ~Repeated(t)
    <3>1. Acked(u)' \subseteq Acked(u)
      BY <2>2, AckedKept DEF Served
    <3> QED BY <2>0, <3>1 DEF InputInv
  <2> QED BY <2>1, <2>2
<1> QED BY <1>2, <1>3, <1>4 DEF InputInv, Served

\* The PTY takes the next characters.
LEMMA Arrives ==
    ASSUME TypeOK, NEW d, NEW n \in Nat, Reaches(d, n), InputInv, d.from + session.offset = Len(received)
    PROVE  \A i \in 1..Len(received') : received'[i] = i
<1> SUFFICES ASSUME NEW i \in 1..Len(received') PROVE received'[i] = i
  OBVIOUS
<1>1. Len(received) \in Nat /\ Len(received') = Len(received) + n
  BY InputTyped DEF Reaches
<1>2. CASE i \in 1..Len(received)
  BY <1>2 DEF Reaches, InputInv
<1>3. CASE i \notin 1..Len(received)
  <2>1. PICK j \in 1..n : i = Len(received) + j
    <3>1. i - Len(received) \in 1..n /\ i = Len(received) + (i - Len(received))
      BY <1>1, <1>3
    <3> QED BY <3>1
  <2>2. received'[Len(received) + j] = d.from + session.offset + j
    BY <2>1 DEF Reaches
  <2> QED BY <2>1, <2>2
<1> QED BY <1>2, <1>3

\* A part of the next input arrives, or all the rest of it.
LEMMA InputTaken ==
    ASSUME TypeOK, ConnectionInv, InputInv, NEW t \in Transports, Served(t), SameOutput,
           write[t].state = "sent", InOrder(t), NEW n \in Nat,
           Reaches(write[t].data, n), session.offset + n <= Length(write[t].data),
           IF session.offset + n = Length(write[t].data)
           THEN /\ AnswersWrite(t, TRUE)
                /\ session'.inputSeq = write[t].seq /\ session'.inputData = write[t].data
                /\ session'.pending = NoPending /\ session'.offset = 0
           ELSE /\ AnswersWrite(t, FALSE)
                /\ session'.inputSeq = session.inputSeq /\ session'.inputData = session.inputData
                /\ session'.pending = [seq |-> write[t].seq, data |-> write[t].data]
                /\ session'.offset = session.offset + n
    PROVE  InputInv'
<1>0. typed \in Nat /\ Len(received) \in Nat /\ session.inputSeq \in Nat /\ session.offset \in Nat
  BY InputTyped
<1>1. PICK d \in [from : 0..typed, to : 0..typed] : NextInput(d) /\ PendingInv(d)
  BY DEF InputInv
<1>2. /\ InputOf(write[t]) \in Sent(t) /\ write[t].seq = session.inputSeq + 1 /\ write[t].data = d
      /\ ~NothingNew
  <2>1. InputOf(write[t]) \in Sent(t) /\ InputOf(write[t]).seq = session.inputSeq + 1
        /\ InputOf(write[t]).data = write[t].data /\ write[t].seq = session.inputSeq + 1
    BY CallSent DEF InOrder
  <2>2. InputOf(write[t]).data = d
    BY <1>1, <2>1 DEF NextInput
  <2> QED BY <1>0, <2>1, <2>2 DEF NothingNew
<1>3. /\ d.from + session.offset = Len(received) /\ d.to <= typed /\ d.from \in Nat /\ d.to \in Nat
      /\ Len(received') = Len(received) + n /\ Len(received') \in Nat /\ Length(d) = d.to - d.from
  BY <1>0, <1>1, <1>2 DEF NextInput, Reaches, Length
<1>4. \A i \in 1..Len(received') : received'[i] = i
  BY <1>2, <1>3, Arrives
<1>5. ~browser.stopped => /\ browser.pending # NoPending /\ browser.pending.seq = browser.nextSeq
                          /\ browser.pending.data.to = typed - browser.queued
                          /\ browser.nextSeq = session.inputSeq + 1 /\ browser.pending.data = d
  BY <1>1, <1>2 DEF PendingInv, PendingOf
<1>6. UNCHANGED <<typed, browser>>
  BY DEF Served
<1>7. \A u \in Transports : Sent(u)' \subseteq Sent(u)
  <2>1. write'[t].state # "sent"
    BY CallFields DEF AnswersWrite
  <2> QED BY <2>1, ServedSent
<1>8. CASE session.offset + n = Length(write[t].data)
  <2>1. /\ session'.inputSeq = session.inputSeq + 1 /\ session'.inputData = d
        /\ session'.pending = NoPending /\ session'.offset = 0 /\ Len(received') = d.to
    BY SMTT(30), <1>0, <1>2, <1>3, <1>8
  <2>2. PICK e : e = [from |-> Len(received'), to |-> Len(received')]
    OBVIOUS
  <2>3. e \in [from : 0..typed, to : 0..typed] /\ e.from = Len(received') /\ e.to = Len(received') /\ e.to <= typed
    BY <1>0, <1>3, <2>1, <2>2
  <2>4. ASSUME NEW u \in Transports, NEW p \in Sent(u)'
        PROVE  p.seq \in 1..session'.inputSeq /\ (p.seq = session'.inputSeq => p.data = session'.inputData)
    BY <1>0, <1>1, <1>7, <2>1, <2>4 DEF NextInput
  <2>5. NextInput(e)'
    <3>1. ASSUME NEW u \in Transports, NEW p \in Sent(u)'
          PROVE  /\ p.seq \in 1..session'.inputSeq + 1
                 /\ p.seq = session'.inputSeq => p.data = session'.inputData
                 /\ p.seq = session'.inputSeq + 1 => p.data = e
      BY <1>0, <2>1, <2>4
    <3>2. e.from + session'.offset = Len(received') /\ Len(received') <= e.to /\ e.to <= typed'
      BY <1>3, <1>6, <2>1, <2>3
    <3>3. session'.pending.seq = 0
      BY <2>1 DEF NoPending
    <3> QED BY <2>1, <3>1, <3>2, <3>3 DEF NextInput
  <2>6. NothingNew'
    BY <1>0, <2>1, <2>4 DEF NothingNew
  <2>7. PendingInv(e)'
    BY <1>0, <1>5, <1>6, <2>1, <2>6 DEF PendingInv, PendingOf
  <2>8. ASSUME NEW u \in Transports, NEW k \in Acked(u)' PROVE k \in 1..session'.inputSeq
    <3>1. Acked(u)' \subseteq Acked(u) \cup {session'.inputSeq}
      <4>1. write'[t].state = "answered" => write'[t].seq = session'.inputSeq
        BY <1>2, <1>8, <2>1, CallFields DEF AnswersWrite
      <4> QED BY <4>1, ServedAcked
    <3> QED BY <1>0, <2>1, <2>8, <3>1 DEF InputInv
  <2> QED BY <1>4, <1>6, <2>3, <2>5, <2>7, <2>8 DEF InputInv
<1>9. CASE session.offset + n # Length(write[t].data)
  <2>1. /\ session'.inputSeq = session.inputSeq /\ session'.inputData = session.inputData
        /\ session'.pending = [seq |-> session.inputSeq + 1, data |-> d]
        /\ session'.offset = session.offset + n /\ Len(received') <= d.to
    BY <1>0, <1>2, <1>3, <1>9
  <2>2. NextInput(d)'
    <3>1. d.from + session'.offset = Len(received') /\ Len(received') <= d.to /\ d.to <= typed'
      BY <1>0, <1>3, <1>6, <2>1
    <3>2. session'.pending.seq # 0
      BY <1>0, <2>1
    <3> QED BY <1>1, <1>7, <2>1, <3>1, <3>2 DEF NextInput
  <2>3. PendingInv(d)'
    BY <1>5, <1>6, <2>1 DEF PendingInv, PendingOf
  <2>4. ASSUME NEW u \in Transports PROVE Acked(u)' \subseteq Acked(u)
    <3>1. write'[t].state = "answered" => ~write'[t].ok
      BY <1>9, CallFields DEF AnswersWrite
    <3> QED BY <3>1, AckedKept DEF Served
  <2> QED BY <1>1, <1>4, <1>6, <2>1, <2>2, <2>3, <2>4 DEF InputInv
<1> QED BY <1>8, <1>9

LEMMA InputAgentStep == ASSUME BaseInv, InputInv, NEW t \in Transports, AgentStep(t) PROVE InputInv'
<1> USE DEF BaseInv
<1>0. session.start <= session.end
  BY DEF OutputInv, ScreenInv
<1>1. CASE Attach(t)
  BY <1>1, AttachEffect, InputServed
<1>2. CASE ReadStream(t)
  BY <1>0, <1>2, ReadStreamEffect, InputServed
<1>3. CASE ReadWakes(t)
  BY <1>0, <1>3, ReadWakesEffect, InputServed DEF SameInput
<1>4. CASE NotFound(t)
  <2>1. write'[t].state \in {"sent", "answered"} => write'[t] = write[t]
    BY <1>4, NotFoundEffect, CallFields DEF RefusesWrite
  <2> QED BY <1>4, <2>1, NotFoundEffect, InputServed DEF SameInput
<1>5. CASE OrderedWrite(t)
  <2>1. CASE UNCHANGED <<received, session>> /\ RefusesWrite(t)
    <3>1. write'[t].state \notin {"sent", "answered"}
      BY <2>1, CallFields DEF RefusesWrite
    <3> QED BY <1>5, <2>1, <3>1, OrderedWriteEffect, InputServed DEF SameInput
  <2>2. CASE UNCHANGED <<received, session>> /\ Repeated(t) /\ AnswersWrite(t, TRUE)
    <3>1. write'[t].state # "sent" /\ (write'[t].state = "answered" => write'[t].seq = write[t].seq)
      BY <2>2, CallFields DEF AnswersWrite
    <3> QED BY <1>5, <2>2, <3>1, OrderedWriteEffect, InputServed DEF SameInput
  <2>3. CASE InOrder(t) /\ \E n \in Nat :
                      /\ Reaches(write[t].data, n) /\ session.offset + n <= Length(write[t].data)
                      /\ IF session.offset + n = Length(write[t].data)
                         THEN /\ AnswersWrite(t, TRUE)
                              /\ session'.inputSeq = write[t].seq /\ session'.inputData = write[t].data
                              /\ session'.pending = NoPending /\ session'.offset = 0
                         ELSE /\ AnswersWrite(t, FALSE)
                              /\ session'.inputSeq = session.inputSeq /\ session'.inputData = session.inputData
                              /\ session'.pending = [seq |-> write[t].seq, data |-> write[t].data]
                              /\ session'.offset = session.offset + n
    BY <1>5, <2>3, OrderedWriteEffect, InputTaken
  <2> QED BY <1>5, <2>1, <2>2, <2>3, OrderedWriteEffect
<1> QED BY <1>1, <1>2, <1>3, <1>4, <1>5 DEF AgentStep, ServesRead

LEMMA InputShellStep ==
    ASSUME BaseInv, InputInv, ShellStep \/ UNCHANGED vars
    PROVE  InputInv'
<1>1. UNCHANGED <<typed, received, browser, up, down, write>> /\ SameInput
  BY ShellEffect DEF BaseInv, ShellStep, SameInput, vars, ends
<1>2. \A t \in Transports : Sent(t)' \subseteq Sent(t) /\ Acked(t)' \subseteq Acked(t)
  BY <1>1 DEF Sent, Acked
<1> QED BY <1>1, <1>2, InputKept DEF BaseInv

LEMMA InputInit == Init => InputInv
<1> SUFFICES ASSUME Init PROVE InputInv
  OBVIOUS
<1>1. \A t \in Transports : Sent(t) = {} /\ Acked(t) = {}
  <2> SUFFICES ASSUME NEW t \in Transports PROVE Sent(t) = {} /\ Acked(t) = {}
    OBVIOUS
  <2>1. Messages(up[t]) = {} /\ Messages(down[t]) = {} /\ write[t].state = "none"
    BY Emptying, CallFields DEF Init
  <2> QED BY <2>1 DEF Sent, Acked
<1>2. PICK d : d = [from |-> 0, to |-> 0]
  OBVIOUS
<1>3. Len(received) = 0 /\ typed = 0 /\ session.offset = 0 /\ session.pending = NoPending /\ session.inputSeq = 0
      /\ browser.pending = NoPending /\ browser.queued = 0 /\ browser.nextSeq = 1 /\ received = <<>>
  BY DEF Init
<1>4. NextInput(d) /\ PendingInv(d) /\ d \in [from : 0..typed, to : 0..typed]
  BY <1>1, <1>2, <1>3 DEF NextInput, PendingInv, PendingOf, NothingNew, NoPending
<1> QED BY <1>1, <1>3, <1>4 DEF InputInv

(***************************************************************************)
(* The order of the characters.                                            *)
(***************************************************************************)

OrderInv == BaseInv /\ ReadyInv /\ InputInv

LEMMA OrderStep == OrderInv /\ [Next]_vars => OrderInv'
<1> SUFFICES ASSUME OrderInv, [Next]_vars PROVE OrderInv'
  OBVIOUS
<1> USE DEF OrderInv
<1>0. BaseInv'
  BY BaseStep
<1>1. CASE BrowserStep
  BY <1>0, <1>1, ReadyBrowserStep, InputBrowserStep
<1>2. ASSUME NEW t \in Transports, PortalStep(t) PROVE OrderInv'
  BY <1>0, <1>2, ReadyPortalStep, InputPortalStep
<1>3. ASSUME NEW t \in Transports, AgentStep(t) PROVE OrderInv'
  BY <1>0, <1>3, ReadyAgentStep, InputAgentStep
<1>4. CASE ShellStep \/ UNCHANGED vars
  BY <1>0, <1>4, ReadyShellStep, InputShellStep
<1> QED BY <1>1, <1>2, <1>3, <1>4, Steps

\* The inputs are in order in every reachable state: what the browser waits for is
\* the next input of ordered_write or the last one, and nothing older is taken again.
THEOREM OrderInductive == Spec => []OrderInv
<1>1. Init => OrderInv
  BY BaseInit, ReadyInit, InputInit DEF OrderInv
<1> QED BY <1>1, OrderStep, PTL DEF Spec

LEMMA Counted ==
    ASSUME NEW s \in Seq(Nat), \A i \in 1..Len(s) : s[i] = i
    PROVE  s = Terminal!Count(Len(s))
BY DEF Terminal!Count

LEMMA ShownStep == ASSUME OrderInv, OrderInv', BrowserStep PROVE [Terminal!Next]_(Terminal!terminal)
<1> USE DEF OrderInv, BaseInv
<1>1. CASE Type
  <2>1. typed' = typed + 1 /\ UNCHANGED <<received, printed, shown>> /\ typed \in Nat
    BY <1>1, TypeEffect, InputTyped DEF Outside
  <2> QED BY <2>1 DEF Terminal!Next, Terminal!Type
<1>2. CASE Rendered
  <2>1. browser.rendering # Nothing => browser.rendering.from < browser.rendering.to
    BY DEF OutputInv, ScreenInv
  <2>2. /\ UNCHANGED <<typed, received, printed>> /\ shown' \in Seq(Nat) /\ Len(shown) < Len(shown')
    BY <1>2, <2>1, RenderedEffect, ScreenTyped DEF Outside
  <2>3. /\ \A i \in 1..Len(shown') : shown'[i] = i
        /\ Len(shown') <= session'.end /\ session'.end <= printed'
    BY DEF OutputInv, ScreenInv
  <2>4. Len(shown') \in Len(shown) + 1..printed
    <3>1. Len(shown) \in Nat /\ Len(shown') \in Nat /\ session'.end \in Nat /\ printed \in Nat /\ printed' = printed
      BY <2>2, ScreenTyped, SessionFields DEF TypeOK
    <3> QED BY <2>2, <2>3, <3>1
  <2>5. shown' = Terminal!Count(Len(shown'))
    BY <2>2, <2>3, Counted
  <2> QED BY <2>2, <2>4, <2>5 DEF Terminal!Next, Terminal!Show
<1>3. CASE Connect \/ Stop \/ GiveUp \/ Disconnect \/ Flush \/ OnMessage
  <2>1. UNCHANGED <<typed, received, printed, shown>>
    <3>1. CASE Connect
      BY <3>1, ConnectEffect DEF ends
    <3>2. CASE Stop \/ GiveUp
      BY <3>2, StopEffect DEF Outside
    <3>3. CASE Disconnect
      BY <3>3, DisconnectEffect DEF Outside
    <3>4. CASE Flush
      BY <3>4, FlushStep, Connected DEF Outside
    <3>5. CASE OnMessage
      BY <3>5, OnReadyEffect, OnInputAckEffect, OnOutputEffect, OnEndEffect DEF OnMessage, Outside
    <3> QED BY <1>3, <3>1, <3>2, <3>3, <3>4, <3>5
  <2> QED BY <2>1 DEF Terminal!terminal
<1> QED BY <1>1, <1>2, <1>3 DEF BrowserStep

LEMMA ReceivedStep ==
    ASSUME OrderInv, OrderInv', NEW t \in Transports, AgentStep(t)
    PROVE  [Terminal!Next]_(Terminal!terminal)
<1> USE DEF OrderInv, BaseInv
<1>0. session.start <= session.end
  BY DEF OutputInv, ScreenInv
<1>1. UNCHANGED <<typed, printed, shown>>
  BY <1>0, AttachEffect, ReadStreamEffect, ReadWakesEffect, OrderedWriteEffect, NotFoundEffect
  DEF AgentStep, ServesRead, Served
<1>2. received' = received \/ (OrderedWrite(t) /\ \E n \in Nat : Reaches(write[t].data, n))
  BY <1>0, AttachEffect, ReadStreamEffect, ReadWakesEffect, OrderedWriteEffect, NotFoundEffect
  DEF AgentStep, ServesRead
<1>3. CASE received' = received
  BY <1>1, <1>3 DEF Terminal!terminal
<1>4. CASE \E n \in Nat : Reaches(write[t].data, n)
  <2>1. PICK n \in Nat : Reaches(write[t].data, n)
    BY <1>4
  <2>2. /\ received' \in Seq(Nat) /\ Len(received') = Len(received) + n /\ (n = 0 => received' = received)
        /\ \A i \in 1..Len(received') : received'[i] = i
    BY <2>1 DEF Reaches, InputInv
  <2>3. received' = Terminal!Count(Len(received'))
    BY <2>2, Counted
  <2>4. Len(received') <= typed
    <3>1. PICK d \in [from : 0..typed', to : 0..typed'] : NextInput(d)'
      BY DEF InputInv
    <3>2. Len(received') <= d.to /\ d.to <= typed'
      BY <3>1 DEF NextInput
    <3>3. typed' = typed /\ typed \in Nat /\ d.to \in Nat /\ Len(received') \in Nat
      BY <1>1, <2>2, <3>1, InputTyped
    <3> QED BY <3>2, <3>3
  <2>5. CASE n = 0
    BY <1>1, <2>2, <2>5 DEF Terminal!terminal
  <2>6. CASE n # 0
    <3>1. Len(received') \in Len(received) + 1..typed
      BY <2>2, <2>4, <2>6, InputTyped
    <3> QED BY <1>1, <2>3, <3>1 DEF Terminal!Next, Terminal!Receive
  <2> QED BY <2>5, <2>6
<1> QED BY <1>2, <1>3, <1>4

\* What is typed reaches the PTY once and in order, and what the PTY prints reaches
\* the screen once and in order, whatever is lost, repeated or answered too late:
\* a session of shell_stream.py, root-shell.js and RootShellSession is a terminal.
THEOREM ShellImplementsTerminal == Spec => ImplementsTerminal
<1>1. Init => Terminal!Init
  BY DEF Init, Terminal!Init
<1>2. ASSUME OrderInv, OrderInv', [Next]_vars PROVE [Terminal!Next]_(Terminal!terminal)
  <2>1. CASE BrowserStep
    BY <1>2, <2>1, ShownStep
  <2>2. ASSUME NEW t \in Transports, PortalStep(t) PROVE [Terminal!Next]_(Terminal!terminal)
    <3>0. /\ TypeOK /\ TransportInv(t)
          /\ read[t].state = "answered" /\ read[t].frame # Nothing => read[t].frame.from < read[t].frame.to
      BY <1>2 DEF OrderInv, BaseInv, ConnectionInv, OutputInv, StreamInv
    <3>1. UNCHANGED ends
      BY <2>2, <3>0, HelloSaid, HelloEffect, AttachedEffect, OnAckEffect, OnInputEffect, WrittenEffect, AskOutputEffect,
         GetOutputEffect, FailEffect
      DEF PortalStep, MainThread, OutputLoop, RpcRefused, RpcTimeout
    <3> QED BY <3>1 DEF ends, Terminal!terminal
  <2>3. ASSUME NEW t \in Transports, AgentStep(t) PROVE [Terminal!Next]_(Terminal!terminal)
    BY <1>2, <2>3, ReceivedStep
  <2>4. CASE ShellStep
    <3>1. UNCHANGED <<typed, received, shown>> /\ (printed' = printed \/ printed' = printed + 1) /\ printed \in Nat
      BY <1>2, <2>4, ShellEffect DEF OrderInv, BaseInv, ShellStep, TypeOK
    <3> QED BY <3>1 DEF Terminal!terminal, Terminal!Next, Terminal!PtyPrints
  <2>5. CASE UNCHANGED vars
    BY <2>5 DEF vars, ends, Terminal!terminal
  <2> QED BY <1>2, <2>1, <2>2, <2>3, <2>4, <2>5, Steps
<1> QED BY <1>1, <1>2, OrderInductive, PTL DEF Spec, ImplementsTerminal, Terminal!Spec

(***************************************************************************)
(* The checks of sequence numbers: one input at a time.                    *)
(***************************************************************************)

LEMMA None ==
    ASSUME NEW s, NEW k, ~Has(s, k)
    PROVE  Only(s, k) /\ \A m \in Messages(s) : m.type # k
BY DEF Has, Only, Messages

Idle(t) == ~InputUp(t) /\ ~InputCall(t) /\ ~InputDown(t)

LEMMA ChainIdle == ASSUME NEW t \in Transports, Idle(t)' PROVE ChainAt(t)'
BY None DEF Idle, ChainAt, InputUp, InputCall, InputDown

\* A step of the browser that sends no input.
LEMMA ChainTalk ==
    ASSUME TypeOK, NEW t \in Transports, t = browser.socket, ChainAt(t), Outside,
           Messages(down'[t]) \subseteq Messages(down[t]),
           \A k : Has(down'[t], k) => Has(down[t], k),
           \A k : Only(down[t], k) => Only(down'[t], k),
           up' = up \/ \E m : Puts(t, m) /\ m.type # "input",
           browser'.pending = browser.pending,
           browser.pending # NoPending /\ ~browser.timer => ~browser'.timer
    PROVE  ChainAt(t)'
<1>1. /\ Has(up'[t], "input") => Has(up[t], "input")
      /\ Only(up[t], "input") => Only(up'[t], "input")
      /\ \A m \in Messages(up'[t]) : m.type = "input" => m \in Messages(up[t])
  <2>1. CASE up' = up
    BY <2>1
  <2>2. CASE \E m : Puts(t, m) /\ m.type # "input"
    <3>1. PICK m : Puts(t, m) /\ m.type # "input"
      BY <2>2
    <3>2. /\ Messages(up'[t]) \subseteq Messages(up[t]) \cup {m}
          /\ \A k : Has(up'[t], k) => Has(up[t], k) \/ m.type = k
          /\ Only(up[t], "input") => Only(up'[t], "input")
      BY <3>1, PutsKnown
    <3> QED BY <3>1, <3>2
  <2> QED BY <2>1, <2>2
<1>2. write' = write
  BY DEF Outside
<1> QED BY <1>1, <1>2 DEF ChainAt, InputUp, InputCall, InputDown

\* A flush, while no input of the browser is on its way.
LEMMA ChainFlush ==
    ASSUME TypeOK, TypeOK', NEW t \in Transports, ~InputUp(t), ~InputCall(t), ~InputDown(t)', UNCHANGED <<typed, write>>,
           NEW b \in Browser, b.queued <= typed, Flushes(b), b.socket = t
    PROVE  ChainAt(t)'
<1>1. CASE up' = up
  BY <1>1, ChainIdle DEF Idle, InputUp, InputCall
<1>2. CASE up' # up
  <2>1. Puts(t, InputMessage(browser'.pending))
    BY <1>2 DEF Flushes
  <2>2. browser'.pending \in Input /\ typed \in Nat /\ b.queued \in Nat
    BY BrowserFields, InputTyped DEF TypeOK
  <2>3. browser'.pending # NoPending
    <3>1. CASE b.pending # NoPending /\ browser'.pending = b.pending
      BY <3>1
    <3>2. CASE \E n \in 1..b.queued :
                 browser'.pending = [seq |-> b.nextSeq,
                          data |-> [from |-> typed - b.queued, to |-> typed - b.queued + n]]
      <4>1. PICK n \in 1..b.queued :
                 browser'.pending = [seq |-> b.nextSeq,
                          data |-> [from |-> typed - b.queued, to |-> typed - b.queued + n]]
        BY <3>2
      <4>2. browser'.pending.data.from # browser'.pending.data.to
        BY <2>2, <4>1
      <4> QED BY <4>2 DEF NoPending, Nothing
    <3> QED BY <1>2, <3>1, <3>2 DEF Flushes
  <2>4. /\ InputOf(InputMessage(browser'.pending)) = browser'.pending
        /\ InputMessage(browser'.pending).type = "input"
    BY <2>2, Resent
  <2>5. Messages(up'[t]) \subseteq Messages(up[t]) \cup {InputMessage(browser'.pending)} /\ Only(up'[t], "input")
    BY <2>1, None, PutsKnown DEF InputUp
  <2>6. \A m \in Messages(up'[t]) : m.type = "input" => InputOf(m) = browser'.pending
    BY <2>4, <2>5, None DEF InputUp
  <2>7. ~InputCall(t)' /\ ~browser'.timer
    BY DEF InputCall, Flushes
  <2> QED BY <2>3, <2>5, <2>6, <2>7, None DEF ChainAt, InputUp, InputCall, InputDown
<1> QED BY <1>1, <1>2

LEMMA ChainBrowserStep ==
    ASSUME BaseInv, BaseInv', ReadyInv, ChainInv, BrowserStep
    PROVE  ChainInv'
<1> USE DEF BaseInv
<1> SUFFICES ASSUME NEW t \in Transports, t = browser'.socket PROVE ChainAt(t)'
  BY DEF ChainInv
<1>0. Nobody \notin Transports /\ (t = browser.socket => ChainAt(t) /\ ReadyAt(t) /\ browser.socket # Nobody)
  BY Numbers DEF ChainInv, ReadyInv
<1>a. /\ \A k : Has(down[t], k) => Has(down[t], k)
      /\ \A k : Only(down[t], k) => Only(down[t], k)
  OBVIOUS
<1>b. ASSUME TakesDown
      PROVE  LET s == browser.socket
             IN  /\ Messages(down'[s]) \subseteq Messages(down[s]) /\ Has(down[s], Message.type)
                 /\ \A k : Has(down'[s], k) => Has(down[s], k)
                 /\ \A k : Only(down[s], k) => Only(down'[s], k)
                 /\ \A k : Only(down[s], k) /\ Message.type = k => ~Has(down'[s], k)
  BY <1>b, TakesKnown
<1>1. CASE Type
  BY <1>0, <1>1, <1>a, TypeEffect, ChainTalk DEF Keeps
<1>2. CASE Connect
  <2>1. /\ t = browser.last + 1 /\ t \in Transports
        /\ up'[t] = <<[type |-> "hello", cursor |-> browser.cursor]>>
        /\ UNCHANGED <<down, write>>
    BY <1>2, ConnectEffect
  <2>2. t > browser.last
    BY <2>1, BrowserTyped, BrowserFields, Numbers DEF Nobody
  <2>3. down[t] = <<>> /\ write[t] = NoWrite
    BY <2>2 DEF ConnectionInv, TransportInv, New
  <2>4. ~Has(up'[t], "input")
    BY <2>1 DEF Has, Messages
  <2> QED BY <2>1, <2>3, <2>4, Emptying, CallFields, ChainIdle DEF Idle, InputUp, InputCall, InputDown
<1>3. CASE Stop \/ GiveUp
  BY <1>0, <1>3, StopEffect DEF Stops
<1>4. CASE Disconnect
  BY <1>0, <1>4, DisconnectEffect
<1>5. CASE Flush
  <2>1. UNCHANGED <<typed, write, down>> /\ browser.timer /\ Flushes(browser)
    BY <1>5, Connected, FlushStep DEF Outside
  <2>2. t = browser.socket
    BY <2>1 DEF Flushes, Keeps
  <2>3. Idle(t)
    BY <1>0, <2>1, <2>2 DEF ChainAt, Idle
  <2> QED BY <2>1, <2>2, <2>3, BrowserTyped, ChainFlush DEF Idle, InputDown
<1>6. CASE OnReady
  <2>1. PICK b \in Browser : Flushes(b) /\ b.socket = browser.socket /\ b.queued = browser.queued
    BY <1>6, OnReadyEffect
  <2>2. UNCHANGED <<typed, write>> /\ TakesDown /\ Message.type = "ready"
    BY <1>6, OnReadyEffect DEF Outside
  <2>3. t = browser.socket
    BY <2>1 DEF Flushes, Keeps
  <2>4. Idle(t) /\ ~InputDown(t)'
    BY <1>0, <1>b, <2>2, <2>3, CallFields DEF ReadyAt, Idle, InputUp, InputCall, InputDown
  <2> QED BY <2>1, <2>2, <2>3, <2>4, BrowserTyped, ChainFlush DEF Idle
<1>7. CASE OnInputAck
  <2>1. UNCHANGED <<typed, write>> /\ Outside /\ TakesDown /\ Message.type = "input_ack"
    BY <1>7, OnInputAckEffect DEF Outside
  <2>2. t = browser.socket
    BY <1>0, <1>7, OnInputAckEffect DEF Stops, Flushes, Keeps
  <2>3. ~InputUp(t) /\ ~InputCall(t) /\ ~InputDown(t)'
    BY <1>0, <1>b, <2>1, <2>2 DEF ChainAt, InputUp, InputCall, InputDown
  <2>4. CASE up' = up
    BY <2>1, <2>3, <2>4, ChainIdle DEF Idle, InputUp, InputCall
  <2>5. CASE \E b \in Browser : Flushes(b) /\ b.socket = browser.socket /\ b.queued = browser.queued
    <3>1. PICK b \in Browser : Flushes(b) /\ b.socket = browser.socket /\ b.queued = browser.queued
      BY <2>5
    <3> QED BY <2>1, <2>2, <2>3, <3>1, BrowserTyped, ChainFlush
  <2> QED BY <1>7, <2>4, <2>5, OnInputAckEffect
<1>8. CASE OnOutput
  <2>1. Outside /\ TakesDown
    BY <1>8, OnOutputEffect
  <2>2. t = browser.socket /\ browser'.pending = browser.pending /\ browser'.timer = browser.timer
    BY <1>0, <1>8, OnOutputEffect DEF Stops, Keeps
  <2>3. up' = up \/ \E m : Puts(t, m) /\ m.type # "input"
    <3>1. up' = up \/ Puts(t, [type |-> "ack", cursor |-> browser.cursor])
      BY <1>8, <2>2, OnOutputEffect
    <3>2. [type |-> "ack", cursor |-> browser.cursor].type # "input"
      OBVIOUS
    <3> QED BY <3>1, <3>2
  <2> QED BY <1>0, <1>b, <2>1, <2>2, <2>3, ChainTalk
<1>9. CASE OnEnd
  BY <1>0, <1>9, OnEndEffect DEF Stops
<1>10. CASE Rendered
  <2>1. browser.rendering # Nothing => browser.rendering.from < browser.rendering.to
    BY DEF OutputInv, ScreenInv
  <2>2. Outside /\ UNCHANGED down /\ Keeps(browser) /\ browser'.pending = browser.pending
        /\ browser'.timer = browser.timer
    BY <1>10, <2>1, RenderedEffect
  <2>3. up' = up \/ \E m : Puts(t, m) /\ m.type # "input"
    <3>1. up' = up \/ Puts(browser.socket, [type |-> "ack", cursor |-> browser'.cursor])
      BY <1>10, <2>1, RenderedEffect
    <3>2. [type |-> "ack", cursor |-> browser'.cursor].type # "input"
      OBVIOUS
    <3> QED BY <2>2, <3>1, <3>2 DEF Keeps
  <2> QED BY <1>0, <1>a, <2>2, <2>3, ChainTalk DEF Keeps
<1> QED BY <1>1, <1>2, <1>3, <1>4, <1>5, <1>6, <1>7, <1>8, <1>9, <1>10 DEF BrowserStep, OnMessage

\* A step of one transport of the portal: the browser waits meanwhile.
LEMMA ChainAlone ==
    ASSUME ChainInv, NEW t \in Transports, Alone(t), browser' = browser,
           t = browser.socket => ChainAt(t)'
    PROVE  ChainInv'
<1> SUFFICES ASSUME NEW u \in Transports, u = browser'.socket PROVE ChainAt(u)'
  BY DEF ChainInv
<1>1. CASE u = t
  BY <1>1
<1>2. CASE u # t
  <2>1. ChainAt(u) /\ up'[u] = up[u] /\ down'[u] = down[u] /\ write'[u] = write[u]
    BY <1>2 DEF ChainInv, Alone
  <2> QED BY <2>1 DEF ChainAt, InputUp, InputCall, InputDown
<1> QED BY <1>1, <1>2

\* A transport that neither takes an input nor gives an answer.
LEMMA ChainPortal ==
    ASSUME TypeOK, NEW t \in Transports, ChainAt(t), browser' = browser,
           Messages(up'[t]) \subseteq Messages(up[t]),
           \A k : Has(up'[t], k) => Has(up[t], k),
           \A k : Only(up[t], k) => Only(up'[t], k),
           write'[t] = write[t] \/ write'[t] = NoWrite,
           down'[t] = down[t] \/ \E m : Gets(t, m) /\ m.type # "input_ack"
    PROVE  ChainAt(t)'
<1>1. /\ Has(down'[t], "input_ack") => Has(down[t], "input_ack")
      /\ Only(down[t], "input_ack") => Only(down'[t], "input_ack")
      /\ \A m \in Messages(down'[t]) : m.type = "input_ack" => m \in Messages(down[t])
  <2>1. CASE down'[t] = down[t]
    BY <2>1
  <2>2. CASE \E m : Gets(t, m) /\ m.type # "input_ack"
    <3>1. PICK m : Gets(t, m) /\ m.type # "input_ack"
      BY <2>2
    <3>2. /\ Messages(down'[t]) \subseteq Messages(down[t]) \cup {m}
          /\ \A k : Has(down'[t], k) => Has(down[t], k) \/ m.type = k
          /\ Only(down[t], "input_ack") => Only(down'[t], "input_ack")
      BY <3>1, GetsKnown
    <3> QED BY <3>1, <3>2
  <2> QED BY <2>1, <2>2
<1>2. write'[t].state # "none" => write'[t] = write[t]
  BY CallFields
<1> QED BY <1>1, <1>2 DEF ChainAt, InputUp, InputCall, InputDown

LEMMA OverHeard ==
    ASSUME NEW t \in Transports, Over(t)
    PROVE  /\ Messages(up'[t]) \subseteq Messages(up[t])
           /\ \A k : Has(up'[t], k) => Has(up[t], k)
           /\ \A k : Only(up[t], k) => Only(up'[t], k)
           /\ write'[t] = write[t] \/ write'[t] = NoWrite
BY Emptying DEF Over

LEMMA ChainPortalStep == ASSUME BaseInv, ChainInv, NEW t \in Transports, PortalStep(t) PROVE ChainInv'
<1> USE DEF BaseInv
<1>0. TransportInv(t) /\ StreamInv(t) /\ (t = browser.socket => ChainAt(t))
  BY DEF ConnectionInv, OutputInv, ChainInv
<1>a. read[t].state = "answered" /\ read[t].frame # Nothing => read[t].frame.from < read[t].frame.to
  BY <1>0 DEF StreamInv
<1>1. CASE Hello(t)
  <2>1. Alone(t) /\ browser' = browser /\ up[t] # <<>> /\ up'[t] = Tail(up[t]) /\ down'[t] = down[t] /\ write'[t] = write[t]
    BY <1>0, <1>1, HelloSaid, HelloEffect
  <2> QED BY <1>0, <2>1, HeardKnown, ChainAlone, ChainPortal
<1>2. CASE Attached(t)
  <2> DEFINE m == [type |-> "ready", inputSeq |-> read[t].inputSeq]
  <2>1. Alone(t) /\ browser' = browser /\ up'[t] = up[t] /\ Gets(t, m) /\ write'[t] = write[t]
    BY <1>2, AttachedEffect
  <2>2. m.type # "input_ack"
    OBVIOUS
  <2> HIDE DEF m
  <2> QED BY <1>0, <2>1, <2>2, ChainAlone, ChainPortal
<1>3. CASE OnAck(t)
  <2>1. Alone(t) /\ browser' = browser /\ down'[t] = down[t] /\ up[t] # <<>>
        /\ \/ up'[t] = Tail(up[t]) /\ write'[t] = write[t]
           \/ Over(t)
    BY <1>3, OnAckEffect
  <2> QED BY <1>0, <2>1, HeardKnown, OverHeard, ChainAlone, ChainPortal
<1>4. CASE OnInput(t)
  <2>1. Alone(t) /\ browser' = browser /\ down'[t] = down[t] /\ up[t] # <<>> /\ up'[t] = Tail(up[t])
        /\ Next1(t).type = "input" /\ write'[t].seq = Next1(t).seq /\ write'[t].data = Next1(t).data
    BY <1>4, OnInputEffect
  <2>2. ASSUME ChainAt(t) PROVE ChainAt(t)'
    <3>1. Has(up[t], "input") /\ Next1(t) \in Messages(up[t]) /\ ~Has(up'[t], "input")
      BY <2>1, <2>2, HeardKnown DEF ChainAt
    <3>2. InputOf(write'[t]) = browser'.pending
      BY <2>1, <2>2, <3>1 DEF ChainAt, InputOf
    <3> QED BY <2>1, <2>2, <3>1, <3>2, None DEF ChainAt, InputUp, InputCall, InputDown
  <2> QED BY <1>0, <2>1, <2>2, ChainAlone
<1>5. CASE Written(t)
  <2> DEFINE m == [type |-> "input_ack", seq |-> write[t].seq, complete |-> write[t].ok, alive |-> write[t].alive]
  <2>1. Alone(t) /\ browser' = browser /\ up'[t] = up[t] /\ Gets(t, m) /\ write'[t] = NoWrite
        /\ write[t].state = "answered" /\ m.seq = write[t].seq
    BY <1>5, WrittenEffect
  <2> HIDE DEF m
  <2>2. ASSUME ChainAt(t) PROVE ChainAt(t)'
    <3>1. /\ InputCall(t) /\ ~InputUp(t) /\ ~Has(down[t], "input_ack") /\ Only(down[t], "input_ack")
          /\ browser.pending # NoPending /\ ~browser.timer /\ InputOf(write[t]) = browser.pending
      BY <2>1, <2>2 DEF ChainAt, InputCall, InputDown
    <3>2. m.seq = browser.pending.seq
      BY <2>1, <3>1 DEF InputOf
    <3>3. Messages(down'[t]) \subseteq Messages(down[t]) \cup {m} /\ Only(down'[t], "input_ack")
      BY <2>1, <3>1, GetsKnown
    <3>4. \A x \in Messages(down'[t]) : x.type = "input_ack" => x.seq = browser.pending.seq
      BY <3>1, <3>2, <3>3, None
    <3>5. ~InputCall(t)' /\ ~InputUp(t)'
      BY <2>1, <3>1, CallFields DEF InputCall, InputUp
    <3> QED BY <2>1, <3>1, <3>3, <3>4, <3>5, None DEF ChainAt, InputUp
  <2> QED BY <1>0, <2>1, <2>2, ChainAlone
<1>6. CASE AskOutput(t)
  BY <1>0, <1>6, AskOutputEffect, ChainAlone, ChainPortal
<1>7. CASE GetOutput(t)
  <2> DEFINE m == [type |-> "output", data |-> read[t].frame, cursor |-> portal'[t].sent]
             x == [type |-> "exit"]
  <2>1. m.type # "input_ack" /\ x.type # "input_ack"
    OBVIOUS
  <2>2. Alone(t) /\ browser' = browser
        /\ \/ up'[t] = up[t] /\ write'[t] = write[t] /\ (down'[t] = down[t] \/ Gets(t, m))
           \/ Over(t) /\ Gets(t, x)
    BY <1>7, <1>a, GetOutputEffect
  <2> HIDE DEF m, x
  <2> QED BY <1>0, <2>1, <2>2, OverHeard, ChainAlone, ChainPortal
<1>8. CASE RpcRefused(t) \/ RpcTimeout(t) \/ TransportEnds(t)
  <2>1. Alone(t) /\ browser' = browser /\ Over(t) /\ (down'[t] = down[t] \/ Gets(t, [type |-> "error"]))
    BY <1>8, FailEffect DEF RpcRefused, RpcTimeout
  <2>2. [type |-> "error"].type # "input_ack"
    OBVIOUS
  <2> QED BY <1>0, <2>1, <2>2, OverHeard, ChainAlone, ChainPortal
<1> QED BY <1>1, <1>2, <1>3, <1>4, <1>5, <1>6, <1>7, <1>8 DEF PortalStep, MainThread, OutputLoop

LEMMA ChainAgentStep == ASSUME BaseInv, ChainInv, NEW t \in Transports, AgentStep(t) PROVE ChainInv'
<1> USE DEF BaseInv
<1>0. session.start <= session.end
  BY DEF OutputInv, ScreenInv
<1>1. Served(t)
  BY <1>0, AttachEffect, ReadStreamEffect, ReadWakesEffect, OrderedWriteEffect, NotFoundEffect
  DEF AgentStep, ServesRead
<1>2. \/ write'[t] = write[t] \/ write'[t] = NoWrite
      \/ write[t].state # "none" /\ write'[t].seq = write[t].seq /\ write'[t].data = write[t].data
  <2>1. CASE OrderedWrite(t)
    BY <2>1, OrderedWriteEffect DEF RefusesWrite, AnswersWrite
  <2>2. CASE ServesRead(t) \/ NotFound(t)
    BY <1>0, <2>2, AttachEffect, ReadStreamEffect, ReadWakesEffect, NotFoundEffect DEF ServesRead, RefusesWrite
  <2> QED BY <2>1, <2>2 DEF AgentStep
<1> SUFFICES ASSUME NEW u \in Transports, u = browser'.socket PROVE ChainAt(u)'
  BY DEF ChainInv
<1>3. ChainAt(u) /\ UNCHANGED <<browser, up, down>>
  BY <1>1 DEF Served, ChainInv
<1>4. InputCall(u)' => InputCall(u) /\ InputOf(write'[u]) = InputOf(write[u])
  BY <1>1, <1>2, CallFields DEF Served, InputCall, InputOf
<1> QED BY <1>3, <1>4 DEF ChainAt, InputUp, InputDown

LEMMA ChainShellStep == ASSUME BaseInv, ChainInv, ShellStep \/ UNCHANGED vars PROVE ChainInv'
<1>1. UNCHANGED <<browser, up, down, write>>
  BY ShellEffect DEF BaseInv, ShellStep, vars
<1> QED BY <1>1 DEF ChainInv, ChainAt, InputUp, InputCall, InputDown

LEMMA ChainInit == Init => ChainInv
<1> SUFFICES ASSUME Init, NEW t \in Transports PROVE t # browser.socket
  BY DEF ChainInv
<1> QED BY Numbers DEF Init

(***************************************************************************)
(* The checks of cursors: one frame at a time.                             *)
(***************************************************************************)

LEMMA HeadOther ==
    ASSUME NEW S, NEW s \in Seq(S), s # <<>>, NEW k, Head(s).type # k
    PROVE  Has(Tail(s), k) <=> Has(s, k)
<1>1. /\ Len(Tail(s)) = Len(s) - 1 /\ Len(s) \in Nat /\ Len(s) > 0 /\ Head(s) = s[1]
      /\ \A i \in 1..Len(Tail(s)) : Tail(s)[i] = s[i + 1]
  OBVIOUS
<1>2. ASSUME NEW i \in 1..Len(s), s[i].type = k PROVE \E j \in 1..Len(Tail(s)) : Tail(s)[j].type = k
  <2>1. i # 1 /\ i - 1 \in 1..Len(Tail(s)) /\ s[(i - 1) + 1].type = k
    BY <1>1, <1>2
  <2> QED BY <1>1, <2>1
<1>3. Has(s, k) => Has(Tail(s), k)
  BY <1>2 DEF Has, Messages
<1>4. Has(Tail(s), k) => Has(s, k)
  BY Taking
<1> QED BY <1>3, <1>4

LEMMA FlushSends ==
    ASSUME NEW b, Flushes(b), b.socket = browser.socket
    PROVE  \/ up' = up
           \/ \E m : Puts(browser.socket, m) /\ m.type = "input"
<1>1. InputMessage(browser'.pending).type = "input"
  BY DEF InputMessage
<1> QED BY <1>1 DEF Flushes

\* A frame that arrives is the one that comes next.
LEMMA OnOutputRenders ==
    ASSUME BaseInv, FrameInv, OnOutput
    PROVE  /\ Outside /\ UNCHANGED <<typed, shown, up, mismatch>> /\ Message.type = "output" /\ TakesDown
           /\ Keeps(browser) /\ browser'.cursor = browser.cursor /\ browser'.rendering = Message.data
           /\ Message.data \in Interval /\ Message.data # Nothing /\ Message.cursor = Message.data.to
           /\ Message.data.from = browser.cursor
<1>1. Message.type = "output" /\ TakesDown /\ browser.socket \in Transports /\ Message \in Messages(down[browser.socket])
  BY OnOutputEffect DEF BaseInv, TakesDown
<1>2. /\ Message.data \in Interval /\ Message.data.from \in Nat /\ Message.data.to \in Nat
      /\ browser.cursor \in Nat /\ Message.cursor \in Nat
  BY <1>1, StreamTyped, ScreenTyped DEF BaseInv
<1>3. Message.data.from = browser.cursor
  BY <1>1 DEF FrameInv, FrameAt
<1>4. Message.cursor = Message.data.to /\ Message.data.from < Message.data.to
  BY <1>1 DEF BaseInv, OutputInv, StreamInv
<1>5. Message.cursor > browser.cursor /\ Message.cursor - (Message.data.to - Message.data.from) = browser.cursor
  BY <1>2, <1>3, <1>4
<1>6. Message.data # Nothing
  BY <1>2, <1>4 DEF Nothing
<1>7. /\ ~(Message.cursor <= browser.cursor)
      /\ ~(Message.cursor - (Message.data.to - Message.data.from) # browser.cursor)
  BY <1>2, <1>5
<1>8. /\ Outside /\ UNCHANGED <<typed, shown>> /\ mismatch' = mismatch /\ up' = up
      /\ Keeps(browser) /\ browser'.cursor = browser.cursor /\ browser'.rendering = Message.data
  BY <1>7, OnOutputEffect DEF BaseInv
<1> QED BY <1>1, <1>2, <1>3, <1>4, <1>6, <1>8

\* What is rendered is what the transport has sent, and is acknowledged once.
LEMMA RenderedAcks ==
    ASSUME BaseInv, FrameInv, Rendered, NEW t \in Transports, t = browser.socket
    PROVE  /\ Outside /\ UNCHANGED <<typed, down, mismatch>> /\ Keeps(browser) /\ browser'.rendering = Nothing
           /\ Puts(t, [type |-> "ack", cursor |-> browser'.cursor])
           /\ portal[t].pc \in {"open", "writing", "ended"} /\ ~Has(down[t], "output")
           /\ portal[t].pc \in Running =>
                /\ portal[t].sent # portal[t].cursor /\ ~Has(up[t], "ack") /\ browser'.cursor = portal[t].sent
<1> USE DEF BaseInv
<1>1. browser.rendering # Nothing => browser.rendering.from < browser.rendering.to
  BY DEF OutputInv, ScreenInv
<1>2. /\ Outside /\ UNCHANGED <<typed, down, mismatch>> /\ Keeps(browser) /\ browser'.rendering = Nothing
      /\ browser.rendering # Nothing
      /\ browser'.cursor = IF browser.stopped THEN browser.cursor
                           ELSE browser.cursor + (browser.rendering.to - browser.rendering.from)
      /\ browser.socket # Nobody => Puts(t, [type |-> "ack", cursor |-> browser'.cursor])
  BY <1>1, RenderedEffect
<1>3. browser.socket # Nobody /\ ~browser.stopped /\ portal[t].pc \in {"open", "writing", "ended"}
  BY <1>2, SocketKnown, Numbers
<1>4. FrameAt(t)
  BY DEF FrameInv
<1>5. ~Has(down[t], "output")
  BY <1>2, <1>4 DEF FrameAt
<1>6. ASSUME portal[t].pc \in Running
      PROVE  /\ portal[t].sent # portal[t].cursor /\ ~Has(up[t], "ack")
             /\ browser.rendering = [from |-> portal[t].cursor, to |-> portal[t].sent]
  BY <1>2, <1>4, <1>5, <1>6 DEF FrameAt
<1>7. ASSUME portal[t].pc \in Running PROVE browser'.cursor = portal[t].sent
  <2>1. browser.rendering.from = portal[t].cursor /\ browser.rendering.to = portal[t].sent
    BY <1>6, <1>7
  <2>2. browser.rendering.from = browser.cursor
    BY <1>2, <1>3 DEF OutputInv, ScreenInv
  <2> QED BY <1>2, <1>3, <2>1, <2>2, StreamTyped, ScreenTyped
<1> QED BY <1>2, <1>3, <1>5, <1>6, <1>7

LEMMA CursorTalk ==
    ASSUME TypeOK, NEW t \in Transports, CursorInv(t), UNCHANGED <<portal, read>>,
           \/ up'[t] = up[t]
           \/ \E m : /\ Puts(t, m)
                     /\ \/ m.type = "input"
                        \/ /\ m.type = "ack"
                           /\ portal[t].pc \in Running =>
                                m.cursor = portal[t].sent /\ portal[t].sent # portal[t].cursor /\ ~Has(up[t], "ack")
    PROVE  CursorInv(t)'
<1>1. CASE up'[t] = up[t]
  BY <1>1 DEF CursorInv
<1>2. ASSUME NEW m, Puts(t, m), m.type = "input" PROVE CursorInv(t)'
  <2>1. /\ \A x \in Messages(up'[t]) : x.type = "ack" => x \in Messages(up[t])
        /\ Has(up'[t], "ack") => Has(up[t], "ack")
        /\ Only(up[t], "ack") => Only(up'[t], "ack")
    BY <1>2, PutsKnown
  <2> QED BY <2>1 DEF CursorInv
<1>3. ASSUME NEW m, Puts(t, m), m.type = "ack",
             portal[t].pc \in Running =>
                                m.cursor = portal[t].sent /\ portal[t].sent # portal[t].cursor /\ ~Has(up[t], "ack")
      PROVE  CursorInv(t)'
  <2>1. /\ Messages(up'[t]) \subseteq Messages(up[t]) \cup {m}
        /\ Only(up[t], "ack") /\ ~Has(up[t], "ack") => Only(up'[t], "ack")
    BY <1>3, PutsKnown
  <2> QED BY <1>3, <2>1 DEF CursorInv
<1> QED BY <1>1, <1>2, <1>3

LEMMA CursorBrowserStep ==
    ASSUME BaseInv, FrameInv, BrowserStep, NEW t \in Transports, CursorInv(t)
    PROVE  CursorInv(t)'
<1> USE DEF BaseInv
<1>1. CASE Connect
  <2>1. CASE t # browser.last + 1
    BY <1>1, <2>1, ConnectEffect DEF CursorInv
  <2>2. CASE t = browser.last + 1
    <3>1. portal'[t].pc = "connected" /\ portal'[t].cursor = portal[t].cursor /\ portal'[t].sent = portal[t].sent
          /\ read' = read
      BY <1>1, <2>2, ConnectEffect
    <3> QED BY <3>1 DEF CursorInv, Running
  <2> QED BY <2>1, <2>2
<1>2. CASE Rendered
  <2>1. browser.rendering # Nothing => browser.rendering.from < browser.rendering.to
    BY DEF OutputInv, ScreenInv
  <2>2. UNCHANGED <<portal, read>>
    BY <1>2, <2>1, RenderedEffect DEF Outside
  <2>3. CASE t # browser.socket
    <3>1. up'[t] = up[t]
      BY <1>2, <2>1, <2>3, RenderedEffect DEF Puts
    <3> QED BY <2>2, <3>1, CursorTalk
  <2>4. CASE t = browser.socket
    <3> DEFINE m == [type |-> "ack", cursor |-> browser'.cursor]
    <3>1. /\ Puts(t, m) /\ m.type = "ack" /\ m.cursor = browser'.cursor
          /\ portal[t].pc \in Running =>
                portal[t].sent # portal[t].cursor /\ ~Has(up[t], "ack") /\ browser'.cursor = portal[t].sent
      BY <1>2, <2>4, RenderedAcks
    <3> HIDE DEF m
    <3> QED BY <2>2, <3>1, CursorTalk
  <2> QED BY <2>3, <2>4
<1>3. CASE OnOutput
  BY <1>3, OnOutputRenders, CursorTalk DEF Outside
<1>4. CASE Type \/ Stop \/ GiveUp \/ Disconnect \/ OnEnd
  <2>1. UNCHANGED <<portal, read, up>>
    BY <1>4, TypeEffect, StopEffect, DisconnectEffect, OnEndEffect DEF Outside
  <2> QED BY <2>1, CursorTalk
<1>5. CASE Flush \/ OnReady \/ OnInputAck
  <2>1. UNCHANGED <<portal, read>>
    BY <1>5, Connected, FlushStep, OnReadyEffect, OnInputAckEffect DEF Outside
  <2>2. \/ up' = up
        \/ \E m : Puts(browser.socket, m) /\ m.type = "input"
    BY <1>5, Connected, FlushStep, OnReadyEffect, OnInputAckEffect, FlushSends
  <2>3. CASE t = browser.socket
    BY <2>1, <2>2, <2>3, CursorTalk
  <2>4. CASE t # browser.socket
    <3>1. up'[t] = up[t]
      BY <2>2, <2>4 DEF Puts
    <3> QED BY <2>1, <3>1, CursorTalk
  <2> QED BY <2>3, <2>4
<1> QED BY <1>1, <1>2, <1>3, <1>4, <1>5 DEF BrowserStep, OnMessage

\* An acknowledgement is for the frame that was sent last.
LEMMA AckMatches ==
    ASSUME BaseInv, NEW t \in Transports, CursorInv(t), OnAck(t)
    PROVE  /\ Next1(t).cursor = portal[t].sent /\ portal[t].sent # portal[t].cursor /\ read[t].state = "none"
           /\ ~Has(up'[t], "ack") /\ up'[t] = Tail(up[t]) /\ mismatch' = mismatch
           /\ portal'[t].pc = "open" /\ portal'[t].cursor = portal[t].sent /\ portal'[t].sent = portal[t].sent
           /\ read'[t] = read[t] /\ Has(up[t], "ack")
<1> USE DEF BaseInv
<1>1. portal[t].pc = "open" /\ up[t] # <<>> /\ Next1(t).type = "ack"
  BY OnAckEffect
<1>2. Next1(t) \in Messages(up[t]) /\ Has(up[t], "ack")
  BY <1>1, Heard DEF Has
<1>3. Next1(t).cursor = portal[t].sent /\ portal[t].sent # portal[t].cursor /\ read[t].state = "none"
      /\ Only(up[t], "ack") /\ portal[t].cursor <= portal[t].sent
  BY <1>1, <1>2 DEF CursorInv, Running
<1>4. Next1(t).cursor \in portal[t].cursor..portal[t].sent
  BY <1>3, StreamTyped
<1>5. up'[t] = Tail(up[t]) /\ mismatch' = mismatch
           /\ portal'[t].pc = "open" /\ portal'[t].cursor = Next1(t).cursor /\ portal'[t].sent = portal[t].sent
           /\ read'[t] = read[t]
  BY <1>4, OnAckEffect
<1>6. ~Has(up'[t], "ack")
  BY <1>1, <1>3, <1>5, HeardKnown
<1> QED BY <1>2, <1>3, <1>5, <1>6

LEMMA CursorPortalStep ==
    ASSUME BaseInv, NEW t \in Transports, PortalStep(t), NEW u \in Transports, CursorInv(u)
    PROVE  CursorInv(u)'
<1> USE DEF BaseInv
<1>0. TransportInv(t) /\ StreamInv(t) /\ TypeOK /\ NoRead.state = "none"
  BY CallFields DEF ConnectionInv, OutputInv
<1>a. read[t].state = "answered" /\ read[t].frame # Nothing => read[t].frame.from < read[t].frame.to
  BY <1>0 DEF StreamInv
<1>b. Alone(t)
  BY <1>0, <1>a, HelloSaid, HelloEffect, AttachedEffect, OnAckEffect, OnInputEffect, WrittenEffect, AskOutputEffect,
     GetOutputEffect, FailEffect
  DEF PortalStep, MainThread, OutputLoop, RpcRefused, RpcTimeout
<1>c. CASE u # t
  BY <1>b, <1>c DEF Alone, CursorInv
<1>d. ASSUME CursorInv(t) PROVE CursorInv(t)'
  <2>0. CursorInv(t) /\ portal[t].cursor \in Nat /\ portal[t].sent \in Nat
    BY <1>d, StreamTyped
  <2>a. ASSUME Over(t) PROVE CursorInv(t)'
    BY <1>0, <2>0, <2>a DEF Over, CursorInv, Running
  <2>1. CASE Hello(t)
    <3>1. /\ portal[t].pc = "connected" /\ up[t] # <<>> /\ up'[t] = Tail(up[t])
          /\ portal'[t].cursor = Next1(t).cursor /\ portal'[t].sent = Next1(t).cursor
          /\ read'[t].cursor = Next1(t).cursor /\ Next1(t).type = "hello"
      BY <1>0, <2>1, HelloSaid, HelloEffect
    <3>2. Messages(up'[t]) \subseteq Messages(up[t]) /\ Next1(t) \in Messages(up[t])
      BY <3>1, HeardKnown
    <3>3. ~Has(up'[t], "ack")
      BY <1>0, <3>1, <3>2 DEF TransportInv, Has
    <3>4. Next1(t).cursor \in Nat
      BY <3>1, <3>2, StreamTyped
    <3> QED BY <3>1, <3>3, <3>4, None DEF CursorInv
  <2>2. CASE Attached(t)
    <3>1. portal[t].pc \in Running
      BY <2>2, AttachedEffect DEF Running
    <3> QED BY <1>0, <2>0, <2>2, <3>1, AttachedEffect DEF CursorInv
  <2>3. CASE OnAck(t)
    <3>1. portal'[t].cursor = portal'[t].sent /\ ~Has(up'[t], "ack") /\ read'[t].state = "none" /\ portal'[t].sent \in Nat
      BY <2>0, <2>3, AckMatches
    <3> QED BY <3>1, None DEF CursorInv
  <2>4. CASE OnInput(t)
    <3>1. portal[t].pc \in Running /\ up[t] # <<>> /\ up'[t] = Tail(up[t])
      BY <2>4, OnInputEffect DEF Running
    <3>2. Messages(up'[t]) \subseteq Messages(up[t]) /\ (Has(up'[t], "ack") => Has(up[t], "ack"))
          /\ (Only(up[t], "ack") => Only(up'[t], "ack"))
      BY <3>1, HeardKnown
    <3> QED BY <2>0, <2>4, <3>1, <3>2, OnInputEffect DEF CursorInv
  <2>5. CASE Written(t)
    <3>1. portal[t].pc \in Running
      BY <2>5, WrittenEffect DEF Running
    <3> QED BY <2>0, <2>5, <3>1, WrittenEffect DEF CursorInv
  <2>6. CASE AskOutput(t)
    BY <2>0, <2>6, AskOutputEffect DEF CursorInv
  <2>7. CASE GetOutput(t)
    <3>0. portal[t].pc \in Running /\ read[t].state = "answered"
      BY <1>a, <2>7, GetOutputEffect DEF Running
    <3>1. portal[t].sent = portal[t].cursor /\ ~Has(up[t], "ack") /\ read[t].cursor = portal[t].cursor
      BY <2>0, <3>0 DEF CursorInv
    <3>2. CASE /\ up'[t] = up[t] /\ portal'[t].cursor = portal[t].cursor
               /\ portal'[t].sent = read[t].cursor /\ read'[t] = NoRead
      BY <1>0, <2>0, <3>1, <3>2, None DEF CursorInv
    <3>3. CASE /\ up'[t] = up[t] /\ portal'[t].cursor = portal[t].cursor /\ read[t].frame # Nothing
               /\ portal'[t].sent = read[t].cursor + (read[t].frame.to - read[t].frame.from) /\ read'[t] = NoRead
      <4>1. portal'[t].sent > portal'[t].cursor
        BY <1>a, <3>0, <3>1, <3>3, StreamTyped
      <4> QED BY <1>0, <2>0, <3>1, <3>3, <4>1, None, StreamTyped DEF CursorInv
    <3> QED BY <1>a, <2>a, <2>7, <3>2, <3>3, GetOutputEffect
  <2>8. CASE RpcRefused(t) \/ RpcTimeout(t) \/ TransportEnds(t)
    BY <2>a, <2>8, FailEffect DEF RpcRefused, RpcTimeout
  <2> QED BY <2>1, <2>2, <2>3, <2>4, <2>5, <2>6, <2>7, <2>8 DEF PortalStep, MainThread, OutputLoop
<1>e. CASE u = t
  BY <1>d, <1>e
<1> QED BY <1>c, <1>e

\* The agent keeps the cursor of a call, until its answer is lost.
LEMMA CursorServed ==
    ASSUME BaseInv, NEW t \in Transports, AgentStep(t)
    PROVE  /\ Served(t) /\ session'.end = session.end
           /\ \/ read'[t] = read[t]
              \/ read'[t] = NoRead
              \/ read[t].state # "none" /\ read'[t].cursor = read[t].cursor
<1> USE DEF BaseInv
<1>0. session.start <= session.end
  BY DEF OutputInv, ScreenInv
<1>1. Served(t) /\ session'.end = session.end
  BY <1>0, AttachEffect, ReadStreamEffect, ReadWakesEffect, OrderedWriteEffect, NotFoundEffect
  DEF AgentStep, ServesRead, SameOutput
<1>2. CASE ServesRead(t)
  BY <1>0, <1>1, <1>2, AttachEffect, ReadStreamEffect, ReadWakesEffect DEF ServesRead, RefusesRead, AnswersRead
<1>3. CASE OrderedWrite(t) \/ NotFound(t)
  BY <1>1, <1>3, OrderedWriteEffect, NotFoundEffect DEF RefusesRead
<1> QED BY <1>1, <1>2, <1>3 DEF AgentStep

LEMMA CursorAgentStep ==
    ASSUME BaseInv, NEW t \in Transports, AgentStep(t), NEW u \in Transports, CursorInv(u)
    PROVE  CursorInv(u)'
<1>1. up' = up /\ portal' = portal /\ Served(t)
  BY CursorServed DEF Served
<1>2. CASE u # t
  BY <1>1, <1>2 DEF CursorInv, Served
<1>3. CASE u = t
  BY <1>1, <1>3, CursorServed, CallFields DEF CursorInv
<1> QED BY <1>2, <1>3

LEMMA CursorShellStep ==
    ASSUME BaseInv, ShellStep \/ UNCHANGED vars, NEW u \in Transports, CursorInv(u)
    PROVE  CursorInv(u)'
<1>1. UNCHANGED <<up, portal, read>>
  BY ShellEffect DEF BaseInv, ShellStep, vars
<1> QED BY <1>1 DEF CursorInv

LEMMA CursorInit == Init => \A t \in Transports : CursorInv(t)
<1> SUFFICES ASSUME Init, NEW t \in Transports PROVE CursorInv(t)
  OBVIOUS
<1>1. portal[t].pc = "none" /\ portal[t].cursor = 0 /\ portal[t].sent = 0 /\ read[t] = NoRead
  BY DEF Init
<1> QED BY <1>1, CallFields DEF CursorInv, Running

\* A step of the browser that neither takes a frame nor shows one.
LEMMA FrameTalk ==
    ASSUME TypeOK, NEW t \in Transports, FrameAt(t), portal' = portal,
           browser'.cursor = browser.cursor, browser'.rendering = browser.rendering,
           Messages(down'[t]) \subseteq Messages(down[t]),
           Has(down'[t], "output") <=> Has(down[t], "output"),
           Only(down[t], "output") => Only(down'[t], "output"),
           up' = up \/ \E m : Puts(t, m) /\ m.type = "input"
    PROVE  FrameAt(t)'
<1>1. /\ \A m \in Messages(up'[t]) : m.type = "hello" => m \in Messages(up[t])
      /\ Has(up'[t], "ack") => Has(up[t], "ack")
  <2>1. CASE up' = up
    BY <2>1
  <2>2. ASSUME NEW m, Puts(t, m), m.type = "input"
        PROVE  /\ \A x \in Messages(up'[t]) : x.type = "hello" => x \in Messages(up[t])
               /\ Has(up'[t], "ack") => Has(up[t], "ack")
    BY <2>2, PutsKnown
  <2> QED BY <2>1, <2>2
<1> QED BY <1>1 DEF FrameAt

LEMMA FrameBrowserStep ==
    ASSUME BaseInv, FrameInv, \A t \in Transports : CursorInv(t), BrowserStep
    PROVE  FrameInv'
<1> USE DEF BaseInv
<1> SUFFICES ASSUME NEW t \in Transports, t = browser'.socket PROVE FrameAt(t)'
  BY DEF FrameInv
<1>0. /\ Nobody \notin Transports
      /\ t = browser.socket => FrameAt(t) /\ TransportInv(t) /\ StreamInv(t) /\ CursorInv(t) /\ browser.socket # Nobody
  BY Numbers DEF FrameInv, ConnectionInv, OutputInv
<1>a. Only(down[t], "output") => Only(down[t], "output")
  OBVIOUS
<1>b. ASSUME TakesDown
      PROVE  LET s == browser.socket
             IN  /\ Messages(down'[s]) \subseteq Messages(down[s]) /\ Message \in Messages(down[s])
                 /\ \A k : Only(down[s], k) => Only(down'[s], k)
                 /\ \A k : Only(down[s], k) /\ Message.type = k => ~Has(down'[s], k)
                 /\ Message.type # "output" => (Has(down'[s], "output") <=> Has(down[s], "output"))
  <2>1. /\ browser.socket \in Transports /\ down[browser.socket] # <<>>
        /\ Message = Head(down[browser.socket]) /\ down'[browser.socket] = Tail(down[browser.socket])
    BY <1>b DEF TakesDown
  <2>2. down[browser.socket] \in Seq(DownMessage)
    BY <2>1, TransportTyped
  <2>3. Message.type # "output" => (Has(down'[browser.socket], "output") <=> Has(down[browser.socket], "output"))
    BY <2>1, <2>2, HeadOther
  <2> QED BY <1>b, <2>1, <2>3, TakesKnown DEF TakesDown
<1>1. CASE Type
  BY <1>0, <1>1, <1>a, TypeEffect, FrameTalk DEF Keeps, Outside
<1>2. CASE Connect
  <2>1. /\ t = browser.last + 1 /\ t \in Transports /\ portal'[t].pc = "connected"
        /\ up'[t] = <<[type |-> "hello", cursor |-> browser.cursor]>> /\ browser'.cursor = browser.cursor
        /\ UNCHANGED <<down, write>>
    BY <1>2, ConnectEffect
  <2>2. t > browser.last
    BY <2>1, BrowserTyped, BrowserFields, Numbers DEF Nobody
  <2>3. down[t] = <<>>
    BY <2>2 DEF ConnectionInv, TransportInv
  <2>4. \A m \in Messages(up'[t]) : m.cursor = browser'.cursor
    BY <2>1 DEF Messages
  <2> QED BY <2>1, <2>3, <2>4, Emptying DEF FrameAt, Running
<1>3. CASE Stop \/ GiveUp
  BY <1>0, <1>3, StopEffect DEF Stops
<1>4. CASE Disconnect
  BY <1>0, <1>4, DisconnectEffect
<1>5. CASE Flush
  <2>1. Outside /\ UNCHANGED down /\ Flushes(browser)
    BY <1>5, Connected, FlushStep
  <2>2. t = browser.socket /\ browser'.cursor = browser.cursor /\ browser'.rendering = browser.rendering
    BY <2>1 DEF Flushes, Keeps
  <2> QED BY <1>0, <1>a, <2>1, <2>2, FlushSends, FrameTalk DEF Outside
<1>6. CASE OnReady
  <2>1. PICK b \in Browser : Flushes(b) /\ b.socket = browser.socket
                             /\ b.cursor = browser.cursor /\ b.rendering = browser.rendering
    BY <1>6, OnReadyEffect
  <2>2. Outside /\ TakesDown /\ Message.type = "ready"
    BY <1>6, OnReadyEffect
  <2>3. t = browser.socket /\ browser'.cursor = browser.cursor /\ browser'.rendering = browser.rendering
    BY <2>1 DEF Flushes, Keeps
  <2> QED BY <1>0, <1>b, <2>1, <2>2, <2>3, FlushSends, FrameTalk DEF Outside
<1>7. CASE OnInputAck
  <2>1. Outside /\ TakesDown /\ Message.type = "input_ack"
    BY <1>7, OnInputAckEffect
  <2>2. t = browser.socket /\ browser'.cursor = browser.cursor /\ browser'.rendering = browser.rendering
    BY <1>0, <1>7, OnInputAckEffect DEF Stops, Flushes, Keeps
  <2>3. \/ up' = up
        \/ \E m : Puts(browser.socket, m) /\ m.type = "input"
    BY <1>7, OnInputAckEffect, FlushSends
  <2> QED BY <1>0, <1>b, <2>1, <2>2, <2>3, FrameTalk DEF Outside
<1>8. CASE OnOutput
  <2>1. /\ TakesDown /\ Message.type = "output" /\ Keeps(browser) /\ UNCHANGED <<up, portal>>
        /\ browser'.cursor = browser.cursor /\ browser'.rendering = Message.data
        /\ Message.data \in Interval /\ Message.data # Nothing /\ Message.cursor = Message.data.to
        /\ Message.data.from = browser.cursor
    BY <1>8, OnOutputRenders DEF Outside
  <2>2. t = browser.socket /\ FrameAt(t) /\ Message \in Messages(down[t]) /\ Has(down[t], "output")
    BY <1>0, <1>b, <2>1 DEF Keeps, Has
  <2>3. ~Has(down'[t], "output")
    BY <1>b, <2>1, <2>2 DEF FrameAt
  <2>4. ASSUME portal[t].pc \in Running
        PROVE  /\ portal[t].sent # portal[t].cursor /\ ~Has(up[t], "ack")
               /\ browser'.rendering = [from |-> portal[t].cursor, to |-> portal[t].sent]
    <3>1. /\ portal[t].sent # portal[t].cursor /\ ~Has(up[t], "ack") /\ Message.cursor = portal[t].sent
          /\ browser.cursor = portal[t].cursor
      BY <2>1, <2>2, <2>4 DEF FrameAt
    <3> QED BY <2>1, <3>1 DEF Interval
  <2>5. \A m \in Messages(up[t]) : m.type = "hello" => m.cursor = browser.cursor
    BY <2>2 DEF FrameAt
  <2> QED BY <2>1, <2>3, <2>4, <2>5, None DEF FrameAt
<1>9. CASE OnEnd
  BY <1>0, <1>9, OnEndEffect DEF Stops
<1>10. CASE Rendered
  <2> DEFINE a == [type |-> "ack", cursor |-> browser'.cursor]
  <2>0. browser.rendering # Nothing => browser.rendering.from < browser.rendering.to
    BY DEF OutputInv, ScreenInv
  <2>1. t = browser.socket
    BY <1>10, <2>0, RenderedEffect DEF Keeps
  <2>2. /\ UNCHANGED <<down, portal>> /\ browser'.rendering = Nothing /\ Puts(t, a) /\ a.type = "ack"
        /\ portal[t].pc \in {"open", "writing", "ended"} /\ ~Has(down[t], "output")
        /\ portal[t].pc \in Running => portal[t].sent # portal[t].cursor /\ browser'.cursor = portal[t].sent
    BY <1>10, <2>1, RenderedAcks DEF Outside
  <2> HIDE DEF a
  <2>3. ~Has(up'[t], "hello")
    <3>1. ~Has(up[t], "hello")
      BY <1>0, <2>1, <2>2, Emptying DEF TransportInv, Running
    <3> QED BY <2>2, <3>1, PutsKnown
  <2> QED BY <2>2, <2>3, None DEF FrameAt
<1> QED BY <1>1, <1>2, <1>3, <1>4, <1>5, <1>6, <1>7, <1>8, <1>9, <1>10 DEF BrowserStep, OnMessage

LEMMA FrameAlone ==
    ASSUME FrameInv, NEW t \in Transports, Alone(t), browser' = browser,
           t = browser.socket => FrameAt(t)'
    PROVE  FrameInv'
<1> SUFFICES ASSUME NEW u \in Transports, u = browser'.socket PROVE FrameAt(u)'
  BY DEF FrameInv
<1>1. CASE u = t
  BY <1>1
<1>2. CASE u # t
  <2>1. FrameAt(u) /\ up'[u] = up[u] /\ down'[u] = down[u] /\ portal'[u] = portal[u]
    BY <1>2 DEF FrameInv, Alone
  <2> QED BY <2>1 DEF FrameAt
<1> QED BY <1>1, <1>2

\* A message of the portal that is no frame.
LEMMA FrameGets ==
    ASSUME TypeOK, NEW t \in Transports, down'[t] = down[t] \/ \E m : Gets(t, m) /\ m.type # "output"
    PROVE  /\ \A m \in Messages(down'[t]) : m.type = "output" => m \in Messages(down[t])
           /\ Has(down'[t], "output") <=> Has(down[t], "output")
           /\ Only(down[t], "output") => Only(down'[t], "output")
<1>1. CASE down'[t] = down[t]
  BY <1>1
<1>2. ASSUME NEW m, Gets(t, m), m.type # "output"
      PROVE  /\ \A x \in Messages(down'[t]) : x.type = "output" => x \in Messages(down[t])
             /\ Has(down'[t], "output") <=> Has(down[t], "output")
             /\ Only(down[t], "output") => Only(down'[t], "output")
  <2>1. down[t] \in Seq(DownMessage) /\ m \in DownMessage
    BY <1>2, TransportTyped DEF Gets
  <2>2. Has(down[t], "output") => Has(down'[t], "output")
    BY <1>2, <2>1, Appending DEF Gets
  <2> QED BY <1>2, <2>2, GetsKnown
<1> QED BY <1>1, <1>2

\* A transport that sends no frame and learns of no acknowledgement.
LEMMA FramePortal ==
    ASSUME TypeOK, NEW t \in Transports, FrameAt(t), browser' = browser,
           Messages(up'[t]) \subseteq Messages(up[t]),
           \A k : Has(up'[t], k) => Has(up[t], k),
           down'[t] = down[t] \/ \E m : Gets(t, m) /\ m.type # "output",
           portal'[t].pc \in Running =>
             portal[t].pc \in Running /\ portal'[t].cursor = portal[t].cursor /\ portal'[t].sent = portal[t].sent
    PROVE  FrameAt(t)'
BY FrameGets DEF FrameAt

LEMMA FramePortalStep ==
    ASSUME BaseInv, FrameInv, NEW t \in Transports, PortalStep(t), CursorInv(t)
    PROVE  FrameInv'
<1> USE DEF BaseInv
<1>0. TransportInv(t) /\ SocketInv /\ StreamInv(t) /\ (t = browser.socket => FrameAt(t))
  BY DEF ConnectionInv, OutputInv, FrameInv
<1>a. read[t].state = "answered" /\ read[t].frame # Nothing => read[t].frame.from < read[t].frame.to
  BY <1>0 DEF StreamInv
<1>b. ASSUME Over(t) PROVE portal'[t].pc \notin Running
  BY <1>b DEF Over, Running
<1>1. CASE Hello(t)
  <2>1. /\ Alone(t) /\ browser' = browser /\ up[t] # <<>> /\ up'[t] = Tail(up[t]) /\ down'[t] = down[t]
        /\ portal[t].pc = "connected" /\ portal'[t].cursor = Next1(t).cursor /\ portal'[t].sent = Next1(t).cursor
        /\ Next1(t).type = "hello"
    BY <1>0, <1>1, HelloSaid, HelloEffect
  <2>2. ASSUME t = browser.socket PROVE FrameAt(t)'
    <3>1. FrameAt(t) /\ down[t] = <<>> /\ browser.rendering = Nothing
      BY <1>0, <2>1, <2>2 DEF SocketInv
    <3>2. Next1(t).cursor = browser.cursor /\ Messages(up'[t]) \subseteq Messages(up[t])
      BY <2>1, <3>1, HeardKnown DEF FrameAt
    <3> QED BY <2>1, <3>1, <3>2, Emptying DEF FrameAt
  <2> QED BY <2>1, <2>2, FrameAlone
<1>2. CASE Attached(t)
  <2> DEFINE m == [type |-> "ready", inputSeq |-> read[t].inputSeq]
  <2>1. Alone(t) /\ browser' = browser /\ up'[t] = up[t] /\ Gets(t, m) /\ portal[t].pc = "attaching"
        /\ portal'[t].cursor = portal[t].cursor /\ portal'[t].sent = portal[t].sent
    BY <1>2, AttachedEffect
  <2>2. m.type # "output"
    OBVIOUS
  <2> HIDE DEF m
  <2> QED BY <1>0, <2>1, <2>2, FrameAlone, FramePortal DEF Running
<1>3. CASE OnAck(t)
  <2>1. Alone(t) /\ browser' = browser /\ down'[t] = down[t] /\ portal[t].pc = "open" /\ up[t] # <<>>
    BY <1>3, OnAckEffect
  <2>2. /\ portal[t].sent # portal[t].cursor /\ Has(up[t], "ack") /\ up'[t] = Tail(up[t])
        /\ portal'[t].cursor = portal[t].sent /\ portal'[t].sent = portal[t].sent
    BY <1>3, AckMatches
  <2>3. ASSUME t = browser.socket PROVE FrameAt(t)'
    <3>1. browser.cursor = portal[t].sent /\ browser.rendering = Nothing /\ ~Has(down[t], "output")
      BY <1>0, <2>1, <2>2, <2>3 DEF FrameAt, Running
    <3>2. Messages(up'[t]) \subseteq Messages(up[t])
      BY <2>1, <2>2, HeardKnown
    <3> QED BY <1>0, <2>1, <2>2, <2>3, <3>1, <3>2 DEF FrameAt
  <2> QED BY <2>1, <2>3, FrameAlone
<1>4. CASE OnInput(t)
  <2>1. Alone(t) /\ browser' = browser /\ down'[t] = down[t] /\ up[t] # <<>> /\ up'[t] = Tail(up[t])
        /\ portal[t].pc = "open" /\ portal'[t].cursor = portal[t].cursor /\ portal'[t].sent = portal[t].sent
    BY <1>4, OnInputEffect
  <2> QED BY <1>0, <2>1, HeardKnown, FrameAlone, FramePortal DEF Running
<1>5. CASE Written(t)
  <2> DEFINE m == [type |-> "input_ack", seq |-> write[t].seq, complete |-> write[t].ok, alive |-> write[t].alive]
  <2>1. Alone(t) /\ browser' = browser /\ up'[t] = up[t] /\ Gets(t, m)
        /\ portal[t].pc = "writing" /\ portal'[t].cursor = portal[t].cursor /\ portal'[t].sent = portal[t].sent
    BY <1>5, WrittenEffect
  <2>2. m.type # "output"
    OBVIOUS
  <2> HIDE DEF m
  <2> QED BY <1>0, <2>1, <2>2, FrameAlone, FramePortal DEF Running
<1>6. CASE AskOutput(t)
  BY <1>0, <1>6, AskOutputEffect, FrameAlone, FramePortal
<1>7. CASE GetOutput(t)
  <2> DEFINE m == [type |-> "output", data |-> read[t].frame, cursor |-> portal'[t].sent]
             x == [type |-> "exit"]
  <2>0. x.type # "output" /\ m.type = "output" /\ m.data = read[t].frame /\ m.cursor = portal'[t].sent
    OBVIOUS
  <2>1. Alone(t) /\ browser' = browser /\ portal[t].pc \in Running /\ read[t].state = "answered"
    BY <1>a, <1>7, GetOutputEffect DEF Running
  <2>2. portal[t].sent = portal[t].cursor /\ ~Has(up[t], "ack") /\ read[t].cursor = portal[t].cursor
    BY <2>1 DEF CursorInv
  <2>3. CASE /\ up'[t] = up[t] /\ down'[t] = down[t]
             /\ portal'[t].cursor = portal[t].cursor /\ portal'[t].sent = read[t].cursor
    BY <1>0, <2>1, <2>2, <2>3, FrameAlone, FramePortal
  <2>4. CASE /\ read[t].frame # Nothing /\ up'[t] = up[t]
             /\ portal'[t].cursor = portal[t].cursor
             /\ portal'[t].sent = read[t].cursor + (read[t].frame.to - read[t].frame.from)
             /\ Gets(t, m)
    <3> HIDE DEF m, x
    <3>1. ASSUME t = browser.socket PROVE FrameAt(t)'
      <4>1. FrameAt(t) /\ browser.cursor = portal[t].cursor /\ browser.rendering = Nothing /\ ~Has(down[t], "output")
        BY <1>0, <2>1, <2>2, <3>1 DEF FrameAt
      <4>2. read[t].frame.from = browser.cursor
        BY <1>0, <2>1, <2>2, <2>4, <4>1 DEF StreamInv
      <4>3. Messages(down'[t]) \subseteq Messages(down[t]) \cup {m} /\ Only(down'[t], "output")
        BY <2>4, <4>1, None, GetsKnown
      <4>4. \A y \in Messages(down'[t]) : y.type = "output" => y.data.from = browser.cursor /\ y.cursor = portal'[t].sent
        BY <2>0, <4>1, <4>2, <4>3, None
      <4>5. Has(down'[t], "output")
        <5>1. down[t] \in Seq(DownMessage) /\ m \in DownMessage
          BY <2>4, TransportTyped DEF Gets
        <5> QED BY <2>0, <2>4, <3>1, <5>1, Appending DEF Gets
      <4>6. portal'[t].sent # portal'[t].cursor
        BY <1>a, <2>1, <2>2, <2>4, StreamTyped
      <4>7. /\ browser' = browser /\ up'[t] = up[t] /\ portal'[t].cursor = portal[t].cursor
            /\ \A y \in Messages(up[t]) : y.type = "hello" => y.cursor = browser.cursor
        BY <2>1, <2>4, <4>1 DEF FrameAt
      <4> QED BY <2>2, <4>1, <4>3, <4>4, <4>5, <4>6, <4>7 DEF FrameAt
    <3> QED BY <2>1, <3>1, FrameAlone
  <2>5. CASE Over(t) /\ Gets(t, x)
    <3> HIDE DEF m, x
    <3> QED BY <1>0, <1>b, <2>0, <2>1, <2>5, OverHeard, FrameAlone, FramePortal
  <2> QED BY <1>a, <1>7, <2>3, <2>4, <2>5, GetOutputEffect
<1>8. CASE RpcRefused(t) \/ RpcTimeout(t) \/ TransportEnds(t)
  <2>1. Alone(t) /\ browser' = browser /\ Over(t) /\ (down'[t] = down[t] \/ Gets(t, [type |-> "error"]))
    BY <1>8, FailEffect DEF RpcRefused, RpcTimeout
  <2>2. [type |-> "error"].type # "output"
    OBVIOUS
  <2> QED BY <1>0, <1>b, <2>1, <2>2, OverHeard, FrameAlone, FramePortal
<1> QED BY <1>1, <1>2, <1>3, <1>4, <1>5, <1>6, <1>7, <1>8 DEF PortalStep, MainThread, OutputLoop

LEMMA FrameElse ==
    ASSUME FrameInv, UNCHANGED <<browser, up, down, portal>>
    PROVE  FrameInv'
BY DEF FrameInv, FrameAt

LEMMA FrameInit == Init => FrameInv
<1> SUFFICES ASSUME Init, NEW t \in Transports PROVE t # browser.socket
  BY DEF FrameInv
<1> QED BY Numbers DEF Init

\* The browser leaves the transports to themselves, but for what it says.
LEMMA BrowserLeaves ==
    ASSUME BaseInv, BrowserStep, ~Connect
    PROVE  /\ UNCHANGED <<portal, read, session>>
           /\ \A u \in Transports : u # browser.socket => up'[u] = up[u]
           /\ browser'.socket \in {browser.socket, Nobody}
<1> USE DEF BaseInv
<1>0. browser.rendering # Nothing => browser.rendering.from < browser.rendering.to
  BY DEF OutputInv, ScreenInv
<1>1. CASE Type \/ Stop \/ GiveUp \/ Disconnect \/ OnEnd
  BY <1>1, TypeEffect, StopEffect, DisconnectEffect, OnEndEffect DEF Outside, Keeps, Stops
<1>2. CASE Flush \/ OnReady \/ OnInputAck
  <2>1. UNCHANGED <<portal, read, session>>
    BY <1>2, Connected, FlushStep, OnReadyEffect, OnInputAckEffect DEF Outside
  <2>2. up' = up \/ \E m : Puts(browser.socket, m) /\ m.type = "input"
    BY <1>2, Connected, FlushStep, OnReadyEffect, OnInputAckEffect, FlushSends
  <2>3. browser'.socket \in {browser.socket, Nobody}
    BY <1>2, Connected, FlushStep, OnReadyEffect, OnInputAckEffect DEF Flushes, Keeps, Stops
  <2> QED BY <2>1, <2>2, <2>3 DEF Puts
<1>3. CASE OnOutput
  BY <1>3, OnOutputEffect DEF Outside, Keeps, Stops, Puts
<1>4. CASE Rendered
  BY <1>0, <1>4, RenderedEffect DEF Outside, Keeps, Puts
<1> QED BY <1>1, <1>2, <1>3, <1>4 DEF BrowserStep, OnMessage

LEMMA FloorBrowserStep == ASSUME BaseInv, FloorInv, BrowserStep PROVE FloorInv'
<1> USE DEF BaseInv
<1> SUFFICES ASSUME NEW t \in Transports, t = browser'.socket, Live(t)' PROVE FloorAt(t)'
  BY DEF FloorInv
<1>0. Nobody \notin Transports
  BY Numbers
<1>1. CASE Connect
  <2>1. t = browser.last + 1 /\ portal'[t].pc = "connected" /\ read' = read
    BY <1>1, ConnectEffect
  <2>2. t > browser.last
    BY <2>1, BrowserTyped, BrowserFields, Numbers DEF Nobody
  <2>3. read[t] = NoRead
    BY <2>2 DEF ConnectionInv, TransportInv, New
  <2> QED BY <2>1, <2>3, CallFields DEF Live, Running
<1>2. CASE ~Connect
  <2>1. t = browser.socket /\ UNCHANGED <<portal, read, session>>
        /\ \A u \in Transports \ {t} : up'[u] = up[u]
    BY <1>0, <1>2, BrowserLeaves
  <2>2. FloorAt(t)
    BY <2>1 DEF FloorInv, Live
  <2> QED BY <2>1, <2>2 DEF FloorAt
<1> QED BY <1>1, <1>2

\* What a step of the portal does to the cursors of its transport.
Grows(t) ==
    /\ Messages(up'[t]) \subseteq Messages(up[t])
    /\ \/ portal'[t].cursor = portal[t].cursor
       \/ \E m \in Messages(up[t]) : m.type \in {"hello", "ack"} /\ portal'[t].cursor = m.cursor
    /\ read'[t].cursor \in {0, read[t].cursor, portal'[t].cursor}
    /\ portal[t].cursor <= portal'[t].cursor /\ (Live(t)' => Live(t))

LEMMA GrowsOver == ASSUME BaseInv, NEW t \in Transports, Over(t) PROVE Grows(t)
<1>1. portal[t].cursor <= portal[t].cursor
  BY StreamTyped DEF BaseInv
<1> QED BY <1>1, CallFields, Emptying DEF Over, Grows, Live, Running

LEMMA FloorEffect ==
    ASSUME BaseInv, NEW t \in Transports, PortalStep(t), CursorInv(t)
    PROVE  /\ Alone(t) /\ UNCHANGED <<ends, browser, session>>
           /\ \/ Grows(t)
              \/ /\ Hello(t) /\ Next1(t) \in Messages(up[t]) /\ Next1(t).type = "hello"
                 /\ Messages(up'[t]) \subseteq Messages(up[t])
                 /\ portal'[t].cursor = Next1(t).cursor /\ read'[t].cursor = Next1(t).cursor
<1> USE DEF BaseInv
<1>0. TransportInv(t) /\ StreamInv(t) /\ TypeOK /\ NoRead.state = "none" /\ NoRead.cursor = 0
      /\ portal[t].cursor \in Nat /\ portal[t].sent \in Nat /\ portal[t].cursor <= portal[t].cursor
  BY CallFields, StreamTyped DEF ConnectionInv, OutputInv
<1>a. read[t].state = "answered" /\ read[t].frame # Nothing => read[t].frame.from < read[t].frame.to
  BY <1>0 DEF StreamInv
<1>1. CASE Hello(t)
  <2>1. Next1(t).type = "hello" /\ up[t] # <<>> /\ up'[t] = Tail(up[t])
    BY <1>0, <1>1, HelloSaid, HelloEffect
  <2> QED BY <1>0, <1>1, <2>1, HelloEffect, HeardKnown
<1>2. CASE Attached(t)
  BY <1>0, <1>2, AttachedEffect DEF Grows, Live, Running
<1>3. CASE OnAck(t)
  <2>1. up[t] # <<>> /\ up'[t] = Tail(up[t]) /\ portal[t].pc = "open" /\ Next1(t).type = "ack"
        /\ Alone(t) /\ UNCHANGED <<ends, browser, session>>
    BY <1>0, <1>3, AckMatches, OnAckEffect
  <2>2. portal'[t].cursor = Next1(t).cursor /\ read'[t] = read[t] /\ Next1(t).cursor = portal[t].sent
    BY <1>0, <1>3, AckMatches
  <2>3. Messages(up'[t]) \subseteq Messages(up[t]) /\ Next1(t) \in Messages(up[t])
    BY <1>0, <2>1, HeardKnown
  <2>4. portal[t].cursor <= portal'[t].cursor
    BY <2>2 DEF CursorInv
  <2> QED BY <2>1, <2>2, <2>3, <2>4 DEF Grows, Live, Running
<1>4. CASE OnInput(t)
  <2>1. up[t] # <<>> /\ up'[t] = Tail(up[t])
    BY <1>0, <1>4, OnInputEffect
  <2> QED BY <1>0, <1>4, <2>1, OnInputEffect, HeardKnown DEF Grows, Live, Running
<1>5. CASE Written(t)
  BY <1>0, <1>5, WrittenEffect DEF Grows, Live, Running
<1>6. CASE AskOutput(t)
  BY <1>0, <1>6, AskOutputEffect DEF Grows, Live, Running
<1>7. CASE GetOutput(t)
  <2>1. Alone(t) /\ UNCHANGED <<ends, browser, session>> /\ portal[t].pc \in Running
        /\ \/ up'[t] = up[t] /\ portal'[t].cursor = portal[t].cursor /\ read'[t] = NoRead
           \/ Over(t)
    BY <1>0, <1>a, <1>7, GetOutputEffect DEF Running
  <2> QED BY <1>0, <2>1, GrowsOver DEF Grows, Live
<1>8. CASE RpcRefused(t) \/ RpcTimeout(t) \/ TransportEnds(t)
  BY <1>0, <1>8, FailEffect, GrowsOver DEF RpcRefused, RpcTimeout
<1> QED BY <1>1, <1>2, <1>3, <1>4, <1>5, <1>6, <1>7, <1>8 DEF PortalStep, MainThread, OutputLoop

LEMMA FloorPortalStep ==
    ASSUME BaseInv, FloorInv, FrameInv, NEW t \in Transports, PortalStep(t), CursorInv(t)
    PROVE  FloorInv'
<1> USE DEF BaseInv
<1> SUFFICES ASSUME NEW s \in Transports, s = browser'.socket, Live(s)' PROVE FloorAt(s)'
  BY DEF FloorInv
<1>0. /\ s = browser.socket /\ UNCHANGED <<shown, browser, session>> /\ Alone(t)
      /\ \A u \in Transports : /\ portal[u].cursor \in Nat /\ read[u].cursor \in Nat
                               /\ \A m \in Messages(up[u]) : m.type \in {"hello", "ack"} => m.cursor \in Nat
  BY FloorEffect, StreamTyped DEF ends
<1>1. CASE t = s /\ Grows(t)
  <2>1. FloorAt(s) /\ portal[s].cursor <= portal'[s].cursor
    BY <1>0, <1>1 DEF FloorInv, Grows
  <2>2. session.start \in Nat /\ portal'[s].cursor \in Nat
    BY <1>0, <1>1, ScreenTyped DEF Grows
  <2>3. session.registered => session.start <= portal'[s].cursor
    BY <1>0, <2>1, <2>2 DEF FloorAt
  <2>4. ASSUME NEW u \in Transports \ {s}
        PROVE  /\ portal'[u].cursor <= portal'[s].cursor /\ read'[u].cursor <= portal'[s].cursor
               /\ \A m \in Messages(up'[u]) : m.type \in {"hello", "ack"} => m.cursor <= portal'[s].cursor
    <3>1. portal'[u] = portal[u] /\ read'[u] = read[u] /\ up'[u] = up[u]
      BY <1>0, <1>1, <2>4 DEF Alone
    <3>2. /\ portal[u].cursor <= portal[s].cursor /\ read[u].cursor <= portal[s].cursor
          /\ \A m \in Messages(up[u]) : m.type \in {"hello", "ack"} => m.cursor <= portal[s].cursor
      BY <2>1, <2>4 DEF FloorAt
    <3> QED BY <1>0, <2>1, <2>2, <3>1, <3>2
  <2> QED BY <1>0, <2>3, <2>4 DEF FloorAt
<1>2. CASE t = s /\ ~Grows(t)
  <2>1. Next1(t) \in Messages(up[t]) /\ Next1(t).type = "hello" /\ portal'[t].cursor = Next1(t).cursor
    BY <1>2, FloorEffect
  <2>2. Next1(t).cursor = browser.cursor
    BY <1>0, <1>2, <2>1 DEF FrameInv, FrameAt
  <2>3. browser.cursor = Len(shown)
    <3>1. ~browser.stopped
      BY <1>0, SocketKnown, Numbers
    <3> QED BY <3>1 DEF OutputInv, ScreenInv
  <2>4. session.registered => session.start <= Len(shown)
    BY DEF OutputInv, ScreenInv
  <2>5. ASSUME NEW u \in Transports \ {s}
        PROVE  /\ portal'[u].cursor <= Len(shown) /\ read'[u].cursor <= Len(shown)
               /\ \A m \in Messages(up'[u]) : m.type \in {"hello", "ack"} => m.cursor <= Len(shown)
    <3>1. portal'[u] = portal[u] /\ read'[u] = read[u] /\ up'[u] = up[u]
      BY <1>0, <1>2, <2>5 DEF Alone
    <3> QED BY <3>1 DEF OutputInv, StreamInv
  <2> QED BY <1>0, <1>2, <2>1, <2>2, <2>3, <2>4, <2>5 DEF FloorAt
<1>3. CASE t # s
  <2>1. portal'[s] = portal[s] /\ read'[s] = read[s] /\ FloorAt(s)
    BY <1>0, <1>3 DEF Alone, FloorInv, Live
  <2>2. ASSUME NEW u \in Transports \ {s}
        PROVE  /\ portal'[u].cursor <= portal'[s].cursor /\ read'[u].cursor <= portal'[s].cursor
               /\ \A m \in Messages(up'[u]) : m.type \in {"hello", "ack"} => m.cursor <= portal'[s].cursor
    <3>1. /\ portal[u].cursor <= portal[s].cursor /\ read[u].cursor <= portal[s].cursor
          /\ \A m \in Messages(up[u]) : m.type \in {"hello", "ack"} => m.cursor <= portal[s].cursor
      BY <2>1, <2>2 DEF FloorAt
    <3>2. CASE u # t
      BY <1>0, <2>1, <3>1, <3>2 DEF Alone
    <3>3. CASE u = t /\ Grows(t)
      BY <1>0, <2>1, <3>1, <3>3 DEF Grows
    <3>4. CASE u = t /\ ~Grows(t)
      BY <2>1, <3>1, <3>4, FloorEffect
    <3> QED BY <3>2, <3>3, <3>4
  <2> QED BY <1>0, <2>1, <2>2 DEF FloorAt
<1> QED BY <1>1, <1>2, <1>3

LEMMA FloorAgentStep ==
    ASSUME BaseInv, FloorInv, \A u \in Transports : CursorInv(u), NEW t \in Transports, AgentStep(t)
    PROVE  FloorInv'
<1> USE DEF BaseInv
<1> SUFFICES ASSUME NEW s \in Transports, s = browser'.socket, Live(s)' PROVE FloorAt(s)'
  BY DEF FloorInv
<1>0. session.start <= session.end
  BY DEF OutputInv, ScreenInv
<1>1. /\ UNCHANGED <<browser, portal, up>> /\ \A u \in Transports \ {t} : read'[u] = read[u]
      /\ \/ read'[t] = read[t] \/ read'[t] = NoRead
         \/ read[t].state # "none" /\ read'[t].cursor = read[t].cursor
  BY CursorServed DEF Served
<1>2. Live(s)
  <2>1. portal[s].pc = portal'[s].pc /\ (read'[s].state # "none" => read[s].state # "none")
    BY <1>1, CallFields
  <2> QED BY <2>1 DEF Live
<1>3. FloorAt(s)
  BY <1>1, <1>2 DEF FloorInv
<1>4. session'.registered => session'.start <= portal[s].cursor
  <2>1. \/ session'.registered = session.registered /\ session'.start = session.start
        \/ read[t].state = "sent" /\ session'.start = read[t].cursor
    BY <1>0, AttachEffect, ReadStreamEffect, ReadWakesEffect, OrderedWriteEffect, NotFoundEffect
    DEF AgentStep, ServesRead, SameOutput
  <2>2. read[t].state = "sent" => read[t].cursor <= portal[s].cursor
    <3>1. CASE t = s
      <4>1. portal[s].cursor \in Nat
        BY StreamTyped
      <4>2. read[t].state = "sent" => read[t].cursor = portal[s].cursor
        BY <3>1 DEF CursorInv
      <4> QED BY <4>1, <4>2
    <3>2. CASE t # s
      BY <1>3, <3>2 DEF FloorAt
    <3> QED BY <3>1, <3>2
  <2>3. CASE session'.registered = session.registered /\ session'.start = session.start
    BY <1>3, <2>3 DEF FloorAt
  <2> QED BY <2>1, <2>2, <2>3
<1>5. ASSUME NEW u \in Transports \ {s}
      PROVE  portal[u].cursor <= portal[s].cursor /\ read'[u].cursor <= portal[s].cursor
  <2>1. read'[u].cursor = read[u].cursor \/ read'[u].cursor = 0
    <3>1. CASE u = t
      BY <1>1, <3>1, CallFields
    <3>2. CASE u # t
      BY <1>1, <3>2
    <3> QED BY <3>1, <3>2
  <2>2. portal[s].cursor \in Nat
    BY StreamTyped
  <2> QED BY <1>3, <2>1, <2>2 DEF FloorAt
<1> QED BY <1>1, <1>3, <1>4, <1>5 DEF FloorAt

LEMMA FloorShellStep == ASSUME BaseInv, FloorInv, ShellStep \/ UNCHANGED vars PROVE FloorInv'
<1> SUFFICES ASSUME NEW s \in Transports, s = browser'.socket, Live(s)' PROVE FloorAt(s)'
  BY DEF FloorInv
<1>1. /\ UNCHANGED <<browser, portal, up, read>>
      /\ session'.registered => session.registered /\ session'.start = session.start
  BY ShellEffect DEF BaseInv, ShellStep, vars
<1>2. FloorAt(s)
  BY <1>1 DEF FloorInv, Live
<1> QED BY <1>1, <1>2 DEF FloorAt

LEMMA FloorInit == Init => FloorInv
BY Numbers DEF Init, FloorInv

(***************************************************************************)
(* No check fails: one induction for all that is on its way.               *)
(***************************************************************************)

\* The answer the browser gets is for the input it waits for, and the output it gets
\* follows what the screen shows.
LEMMA BrowserMatches == ASSUME BaseInv, ChainInv, FrameInv, BrowserStep PROVE mismatch' = mismatch
<1> USE DEF BaseInv
<1>1. CASE OnInputAck
  <2>1. Message.type = "input_ack" /\ Message.type # "none" /\ Receives
    BY <1>1 DEF OnInputAck
  <2>2. browser.socket \in Transports /\ Message \in Messages(down[browser.socket])
    BY <2>1, Taken1
  <2>3. Message.seq = browser.pending.seq
    BY <2>1, <2>2 DEF ChainInv, ChainAt
  <2> QED BY <1>1, <2>3 DEF OnInputAck
<1>2. CASE OnOutput
  BY <1>2, OnOutputRenders
<1>3. CASE ~OnInputAck /\ ~OnOutput
  BY <1>3 DEF BrowserStep, OnMessage, Type, Connect, Stop, GiveUp, Disconnect, Flush, OnReady, OnEnd, Rendered
<1> QED BY <1>1, <1>2, <1>3

LEMMA PortalMatches ==
    ASSUME BaseInv, NEW t \in Transports, PortalStep(t), CursorInv(t) PROVE mismatch' = mismatch
<1>1. CASE OnAck(t)
  BY <1>1, AckMatches
<1>2. CASE ~OnAck(t)
  BY <1>2 DEF PortalStep, MainThread, OutputLoop, Hello, Attached, OnInput, Written, AskOutput, GetOutput,
     RpcRefused, RpcTimeout, TransportEnds, Fail
<1> QED BY <1>1, <1>2

\* What the transport of the browser asks for is still buffered.
LEMMA ReadMatches ==
    ASSUME BaseInv, FloorInv, NEW t \in Transports, ReadStream(t), CursorInv(t) PROVE mismatch' = mismatch
<1> USE DEF BaseInv
<1>0. session.start <= session.end /\ Len(shown) <= session.end /\ mismatch \in BOOLEAN
  BY DEF OutputInv, ScreenInv, TypeOK
<1>1. read[t].state = "sent" /\ session.registered
  BY DEF ReadStream
<1>2. CASE t = browser.socket
  <2>1. session.start <= portal[t].cursor /\ read[t].cursor = portal[t].cursor
    BY <1>1, <1>2 DEF FloorInv, FloorAt, Live, CursorInv
  <2>2. read[t].cursor <= Len(shown)
    BY DEF OutputInv, StreamInv
  <2>3. read[t].cursor \in session.start..session.end
    BY <1>0, <2>1, <2>2, StreamTyped, ScreenTyped
  <2> QED BY <1>0, <2>3, ReadStreamEffect
<1>3. CASE t # browser.socket
  BY <1>0, <1>3 DEF ReadStream
<1> QED BY <1>2, <1>3

\* The input of the transport of the browser is the last one or the next one.
LEMMA WriteMatches ==
    ASSUME BaseInv, InputInv, ChainInv, NEW t \in Transports, OrderedWrite(t) PROVE mismatch' = mismatch
<1> USE DEF BaseInv
<1>0. write[t].state = "sent" /\ mismatch \in BOOLEAN
  BY DEF OrderedWrite, TypeOK
<1>1. CASE t = browser.socket
  <2>1. InputOf(write[t]) = browser.pending /\ browser.pending # NoPending
    BY <1>0, <1>1 DEF ChainInv, ChainAt, InputCall
  <2>2. ~browser.stopped
    BY <1>1, SocketKnown, Numbers
  <2>3. PICK d \in [from : 0..typed, to : 0..typed] : NextInput(d) /\ PendingInv(d)
    BY DEF InputInv
  <2>4. write[t].seq = browser.pending.seq /\ write[t].data = browser.pending.data
    BY <2>1 DEF InputOf
  <2>5. /\ browser.pending.seq = browser.nextSeq
        /\ \/ browser.nextSeq = session.inputSeq + 1 /\ browser.pending.data = d
           \/ browser.nextSeq = session.inputSeq /\ browser.nextSeq > 0 /\ browser.pending.data = session.inputData
    BY <2>1, <2>2, <2>3 DEF PendingInv, PendingOf
  <2>6. IF session.pending.seq = 0 THEN session.pending = NoPending
        ELSE session.pending = [seq |-> session.inputSeq + 1, data |-> d]
    BY <2>3 DEF NextInput
  <2>7. session.inputSeq \in Nat
    BY SessionTyped, SessionFields
  <2>8. IF Repeated(t) THEN write[t].data = session.inputData ELSE InOrder(t)
    <3>1. CASE browser.nextSeq = session.inputSeq + 1 /\ browser.pending.data = d
      <4>1. write[t].seq = session.inputSeq + 1 /\ write[t].data = d
        BY <2>4, <2>5, <3>1
      <4> QED BY <2>6, <2>7, <4>1 DEF Repeated, InOrder
    <3>2. CASE browser.nextSeq = session.inputSeq /\ browser.nextSeq > 0 /\ browser.pending.data = session.inputData
      BY <2>4, <2>5, <3>2 DEF Repeated
    <3> QED BY <2>5, <3>1, <3>2
  <2> QED BY <1>0, <2>8, OrderedWriteEffect
<1>2. CASE t # browser.socket
  BY <1>0, <1>2 DEF OrderedWrite
<1> QED BY <1>1, <1>2

LEMMA AgentMatches ==
    ASSUME BaseInv, InputInv, ChainInv, FloorInv, NEW t \in Transports, AgentStep(t), CursorInv(t)
    PROVE  mismatch' = mismatch
<1>1. CASE ReadStream(t)
  BY <1>1, ReadMatches
<1>2. CASE OrderedWrite(t)
  BY <1>2, WriteMatches
<1>3. CASE Attach(t) \/ ReadWakes(t) \/ NotFound(t)
  BY <1>3 DEF Attach, ReadWakes, NotFound
<1> QED BY <1>1, <1>2, <1>3 DEF AgentStep, ServesRead

LEMMA MatchStep == OrderInv /\ OrderInv' /\ MatchInv /\ [Next]_vars => MatchInv'
<1> SUFFICES ASSUME OrderInv, OrderInv', MatchInv, [Next]_vars PROVE MatchInv'
  OBVIOUS
<1>0. /\ BaseInv /\ BaseInv' /\ ReadyInv /\ InputInv
      /\ ChainInv /\ FloorInv /\ FrameInv /\ ~mismatch /\ \A t \in Transports : CursorInv(t)
  BY DEF OrderInv, MatchInv
<1>1. CASE BrowserStep
  <2>1. ChainInv'
    BY <1>0, <1>1, ChainBrowserStep
  <2>2. \A t \in Transports : CursorInv(t)'
    BY <1>0, <1>1, CursorBrowserStep
  <2>3. FrameInv'
    BY <1>0, <1>1, FrameBrowserStep
  <2>4. FloorInv'
    BY <1>0, <1>1, FloorBrowserStep
  <2>5. ~mismatch'
    BY <1>0, <1>1, BrowserMatches
  <2> QED BY <2>1, <2>2, <2>3, <2>4, <2>5 DEF MatchInv
<1>2. ASSUME NEW t \in Transports, PortalStep(t) PROVE MatchInv'
  <2>1. ChainInv'
    BY <1>0, <1>2, ChainPortalStep
  <2>2. \A u \in Transports : CursorInv(u)'
    BY <1>0, <1>2, CursorPortalStep
  <2>3. FrameInv'
    BY <1>0, <1>2, FramePortalStep
  <2>4. FloorInv'
    BY <1>0, <1>2, FloorPortalStep
  <2>5. ~mismatch'
    BY <1>0, <1>2, PortalMatches
  <2> QED BY <2>1, <2>2, <2>3, <2>4, <2>5 DEF MatchInv
<1>3. ASSUME NEW t \in Transports, AgentStep(t) PROVE MatchInv'
  <2>1. ChainInv'
    BY <1>0, <1>3, ChainAgentStep
  <2>2. \A u \in Transports : CursorInv(u)'
    BY <1>0, <1>3, CursorAgentStep
  <2>3. FrameInv'
    BY <1>0, <1>3, CursorServed, FrameElse DEF Served
  <2>4. FloorInv'
    BY <1>0, <1>3, FloorAgentStep
  <2>5. ~mismatch'
    BY <1>0, <1>3, AgentMatches
  <2> QED BY <2>1, <2>2, <2>3, <2>4, <2>5 DEF MatchInv
<1>4. CASE ShellStep \/ UNCHANGED vars
  <2>1. ChainInv'
    BY <1>0, <1>4, ChainShellStep
  <2>2. \A u \in Transports : CursorInv(u)'
    BY <1>0, <1>4, CursorShellStep
  <2>3. FrameInv' /\ ~mismatch'
    <3>1. UNCHANGED <<browser, up, down, portal, mismatch>>
      BY <1>0, <1>4, ShellEffect DEF BaseInv, ShellStep, vars
    <3> QED BY <1>0, <3>1, FrameElse
  <2>4. FloorInv'
    BY <1>0, <1>4, FloorShellStep
  <2> QED BY <2>1, <2>2, <2>3, <2>4 DEF MatchInv
<1> QED BY <1>1, <1>2, <1>3, <1>4, Steps

\* The checks of sequence numbers and cursors (root-shell.js, shell_stream.py and
\* ordered_write and read_stream) never end a session that is in order: reconnects,
\* lost answers and late requests of a transport that is gone included.
THEOREM ShellNoMismatch == Spec => []NoMismatch
<1>1. Init => MatchInv
  BY ChainInit, CursorInit, FloorInit, FrameInit DEF MatchInv, Init
<1>2. MatchInv => NoMismatch
  BY DEF MatchInv, NoMismatch
<1> QED BY <1>1, <1>2, MatchStep, OrderInductive, PTL DEF Spec
=============================================================================
