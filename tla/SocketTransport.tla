--------------------------- MODULE SocketTransport ---------------------------
(***************************************************************************)
(* The life of one socketIO value (oddsockets/socket.go): connect, the     *)
(* read loop it starts, the writers that share the connection through      *)
(* writeMu, and close, which connect, the read loop and Client.Disconnect  *)
(* may all call.                                                           *)
(*                                                                         *)
(* The WebSocket connection (gorilla/websocket) is a FIFO of frames each   *)
(* way.  It may break, and the worker may stop reading: then a write       *)
(* blocks, since no write deadline is set.                                 *)
(***************************************************************************)
EXTENDS Naturals, Sequences

CONSTANTS
    Writers,     \* goroutines that call Emit
    MaxFrames,   \* bound: frames the worker sends after the handshake
    MaxEmits     \* bound: calls of Emit

ASSUME WritersAssumption ==
    Writers \cap {"connect", "reader", "closer", "nobody"} = {}
ASSUME BoundsAssumption == MaxFrames \in Nat /\ MaxEmits \in Nat

VARIABLES
    pc,         \* where each goroutine is
    out,        \* the frame a goroutine is about to write
    conn,       \* the connection: none, open, broken or closed by us
    inbox,      \* frames sent by the worker and not read yet
    wire,       \* frames written to the connection, in order
    frames,     \* frames the worker has sent after the handshake
    emits,      \* calls of Emit so far
    acked,      \* connectedCh is closed
    closes,     \* how often close(s.closeCh) has run
    once,       \* closeOnce: no, running or done
    writeMu,    \* who holds writeMu
    connected,  \* the atomic flag isConnected reads
    stalled     \* the worker has stopped reading

vars == <<pc, out, conn, inbox, wire, frames, emits, acked, closes, once,
          writeMu, connected, stalled>>

\* The goroutine in connect, the read loop, and the one in Disconnect.
Processes == {"connect", "reader", "closer"} \cup Writers

\* OPEN, CONNECT ack, CONNECT_ERROR, PING, EVENT, CLOSE.
InFrames == {"open", "ack", "refuse", "ping", "event", "close"}

\* CONNECT with the credentials, PONG, EVENT, DISCONNECT.
OutFrames == {"auth", "pong", "emit", "bye"}

Pcs == {"off", "idle", "dial", "dialFailed", "wait", "store", "up", "failed",
        "read", "ended", "gone", "lock", "write",
        "close", "closeChan", "closeLock", "closeWrite", "closeConn"}

TypeOK ==
    /\ pc \in [Processes -> Pcs]
    /\ out \in [Processes -> OutFrames \ {"bye"}]
    /\ conn \in {"none", "open", "broken", "closed"}
    /\ inbox \in Seq(InFrames)
    /\ wire \in Seq(OutFrames)
    /\ frames \in Nat
    /\ emits \in Nat
    /\ acked \in BOOLEAN
    /\ closes \in Nat
    /\ once \in {"no", "running", "done"}
    /\ writeMu \in Processes \cup {"nobody"}
    /\ connected \in BOOLEAN
    /\ stalled \in BOOLEAN

\* newSocketIO.
Init ==
    /\ pc = [p \in Processes |-> CASE p = "connect" -> "dial"
                                   [] p = "reader"  -> "off"
                                   [] OTHER         -> "idle"]
    /\ out = [p \in Processes |-> "emit"]
    /\ conn = "none"
    /\ inbox = <<>>
    /\ wire = <<>>
    /\ frames = 0
    /\ emits = 0
    /\ acked = FALSE
    /\ closes = 0
    /\ once = "no"
    /\ writeMu = "nobody"
    /\ connected = FALSE
    /\ stalled = FALSE

Goto(p, from, to) ==
    /\ pc[p] = from
    /\ pc' = [pc EXCEPT ![p] = to]

-----------------------------------------------------------------------------
(* connect.                                                                *)

\* DialContext, and the go statement for the read loop.
Dial ==
    /\ pc["connect"] = "dial"
    /\ \/ /\ conn' = "open"
          /\ inbox' = <<"open">>
          /\ pc' = [pc EXCEPT !["connect"] = "wait", !["reader"] = "read"]
       \/ /\ pc' = [pc EXCEPT !["connect"] = "dialFailed"]
          /\ UNCHANGED <<conn, inbox>>
    /\ UNCHANGED <<out, wire, frames, emits, acked, closes, once, writeMu,
                   connected, stalled>>

\* The select takes connectedCh.  closeCh is not one of its cases.
SelectConnected ==
    /\ acked
    /\ Goto("connect", "wait", "store")
    /\ UNCHANGED <<out, conn, inbox, wire, frames, emits, acked, closes, once,
                   writeMu, connected, stalled>>

StoreConnected ==
    /\ Goto("connect", "store", "up")
    /\ connected' = TRUE
    /\ UNCHANGED <<out, conn, inbox, wire, frames, emits, acked, closes, once,
                   writeMu, stalled>>

\* (mutant) The select has no timer and no context.
SelectNeverTimesOut ==
    /\ FALSE
    /\ UNCHANGED vars

\* The timer of the select fires, or the context is done: at any time.
SelectTimeout ==
    /\ Goto("connect", "wait", "close")
    /\ UNCHANGED <<out, conn, inbox, wire, frames, emits, acked, closes, once,
                   writeMu, connected, stalled>>

-----------------------------------------------------------------------------
(* readLoop and handleSocketIO.                                            *)

\* What the read loop does next on a frame.  EVENT and CONNECT_ERROR are
\* dispatched to handlers on goroutines of their own, a CONNECT ack closes
\* connectedCh once.
AfterFrame(f) ==
    CASE f \in {"open", "ping"} -> "lock"
      [] f = "close"            -> "close"
      [] OTHER                  -> "read"

Reply(f) == IF f = "open" THEN "auth" ELSE "pong"

\* A frame that has arrived is read even from a connection that is gone since:
\* it is in the reader's buffer.
Read ==
    /\ inbox # <<>>
    /\ Goto("reader", "read", AfterFrame(Head(inbox)))
    /\ out' = [out EXCEPT !["reader"] = Reply(Head(inbox))]
    /\ acked' = (acked \/ Head(inbox) = "ack")
    /\ inbox' = Tail(inbox)
    /\ UNCHANGED <<conn, wire, frames, emits, closes, once, writeMu,
                   connected, stalled>>

\* ReadMessage fails: the connection broke, or close has closed it.
ReadError ==
    /\ conn \in {"broken", "closed"}
    /\ Goto("reader", "read", "close")
    /\ UNCHANGED <<out, conn, inbox, wire, frames, emits, acked, closes, once,
                   writeMu, connected, stalled>>

-----------------------------------------------------------------------------
(* writeRaw, for the read loop and for Emit.                               *)

\* The socket is handed to the Client once connect has returned nil.
Emit(p) ==
    /\ p \in Writers
    /\ emits < MaxEmits
    /\ pc["connect"] = "up"
    /\ emits' = emits + 1
    /\ Goto(p, "idle", "lock")
    /\ out' = [out EXCEPT ![p] = "emit"]
    /\ UNCHANGED <<conn, inbox, wire, frames, acked, closes, once, writeMu,
                   connected, stalled>>

Lock(p, from, to) ==
    /\ writeMu = "nobody"
    /\ writeMu' = p
    /\ Goto(p, from, to)

LockWrite(p) ==
    /\ Lock(p, "lock", "write")
    /\ UNCHANGED <<out, conn, inbox, wire, frames, emits, acked, closes, once,
                   connected, stalled>>

\* WriteMessage: it sends, fails on a connection that is gone, or blocks.
Send(f) ==
    \/ /\ conn = "open"
       /\ ~stalled
       /\ wire' = Append(wire, f)
    \/ /\ conn \in {"broken", "closed"}
       /\ UNCHANGED wire

AfterWrite(p) == IF p = "reader" THEN "read" ELSE "idle"

\* The write and the deferred Unlock.  Both callers ignore or return its error.
Write(p) ==
    /\ Goto(p, "write", AfterWrite(p))
    /\ Send(out[p])
    /\ writeMu' = "nobody"
    /\ UNCHANGED <<out, conn, inbox, frames, emits, acked, closes, once,
                   connected, stalled>>

-----------------------------------------------------------------------------
(* close.                                                                  *)

AfterClose(p) ==
    CASE p = "connect" -> "failed"
      [] p = "reader"  -> "ended"
      [] OTHER         -> "gone"

\* Client.Disconnect, once it has the socket.
CallClose ==
    /\ pc["connect"] = "up"
    /\ Goto("closer", "idle", "close")
    /\ UNCHANGED <<out, conn, inbox, wire, frames, emits, acked, closes, once,
                   writeMu, connected, stalled>>

\* closeOnce.Do: the first caller runs the function, starting with the flag.
EnterOnce(p) ==
    /\ once = "no"
    /\ Goto(p, "close", "closeChan")
    /\ once' = "running"
    /\ connected' = FALSE
    /\ UNCHANGED <<out, conn, inbox, wire, frames, emits, acked, closes,
                   writeMu, stalled>>

\* (mutant) A flag in place of sync.Once: a later caller does not wait.
SkipOnceEarly(p) ==
    /\ once # "no"
    /\ Goto(p, "close", AfterClose(p))
    /\ UNCHANGED <<out, conn, inbox, wire, frames, emits, acked, closes, once,
                   writeMu, connected, stalled>>

\* closeOnce.Do: a later caller returns when the first one has finished.
SkipOnce(p) ==
    /\ once = "done"
    /\ Goto(p, "close", AfterClose(p))
    /\ UNCHANGED <<out, conn, inbox, wire, frames, emits, acked, closes, once,
                   writeMu, connected, stalled>>

CloseChan(p) ==
    /\ Goto(p, "closeChan", "closeLock")
    /\ closes' = closes + 1
    /\ UNCHANGED <<out, conn, inbox, wire, frames, emits, acked, once,
                   writeMu, connected, stalled>>

CloseLock(p) ==
    /\ Lock(p, "closeLock", "closeWrite")
    /\ UNCHANGED <<out, conn, inbox, wire, frames, emits, acked, closes, once,
                   connected, stalled>>

\* (mutant) writeMu is released between the DISCONNECT and conn.Close.
CloseWriteUnlocks(p) ==
    /\ Goto(p, "closeWrite", "closeConn")
    /\ Send("bye")
    /\ writeMu' = "nobody"
    /\ UNCHANGED <<out, conn, inbox, frames, emits, acked, closes, once,
                   connected, stalled>>

\* The best-effort DISCONNECT.
CloseWrite(p) ==
    /\ Goto(p, "closeWrite", "closeConn")
    /\ Send("bye")
    /\ UNCHANGED <<out, conn, inbox, frames, emits, acked, closes, once,
                   writeMu, connected, stalled>>

\* (mutant) close returns with writeMu held.
CloseConnKeepsLock(p) ==
    /\ Goto(p, "closeConn", AfterClose(p))
    /\ conn' = "closed"
    /\ once' = "done"
    /\ UNCHANGED <<out, inbox, wire, frames, emits, acked, closes, writeMu,
                   connected, stalled>>

\* conn.Close, Unlock, and the end of the once function.
CloseConn(p) ==
    /\ Goto(p, "closeConn", AfterClose(p))
    /\ conn' = "closed"
    /\ writeMu' = "nobody"
    /\ once' = "done"
    /\ UNCHANGED <<out, inbox, wire, frames, emits, acked, closes, connected,
                   stalled>>

-----------------------------------------------------------------------------
(* The worker and the network.                                             *)

Sent(f) == \E i \in DOMAIN wire : wire[i] = f

\* The worker answers the CONNECT, and sends what it likes otherwise.
WorkerSend(f) ==
    /\ conn = "open"
    /\ frames < MaxFrames
    /\ f \in {"ack", "refuse"} => Sent("auth")
    /\ f = "event" => acked
    /\ inbox' = Append(inbox, f)
    /\ frames' = frames + 1
    /\ UNCHANGED <<pc, out, conn, wire, emits, acked, closes, once, writeMu,
                   connected, stalled>>

Break ==
    /\ conn = "open"
    /\ conn' = "broken"
    /\ UNCHANGED <<pc, out, inbox, wire, frames, emits, acked, closes, once,
                   writeMu, connected, stalled>>

\* Writes block when the buffers between the two ends are full, which takes
\* more than the handshake.
Stall ==
    /\ conn = "open"
    /\ Sent("emit")
    /\ stalled' = TRUE
    /\ UNCHANGED <<pc, out, conn, inbox, wire, frames, emits, acked, closes,
                   once, writeMu, connected>>

-----------------------------------------------------------------------------
ConnectStep == Dial \/ SelectConnected \/ StoreConnected \/ SelectTimeout

ReadStep == Read \/ ReadError

CloseStep(p) ==
    \/ EnterOnce(p) \/ SkipOnce(p) \/ CloseChan(p) \/ CloseLock(p)
    \/ CloseWrite(p) \/ CloseConn(p)

Step(p) ==
    \/ p = "connect" /\ ConnectStep
    \/ p = "reader" /\ ReadStep
    \/ LockWrite(p) \/ Write(p) \/ CloseStep(p)

Next ==
    \/ CallClose
    \/ \E p \in Processes : Emit(p) \/ Step(p)
    \/ \E f \in InFrames \ {"open"} : WorkerSend(f)
    \/ Break
    \/ Stall

Spec == Init /\ [][Next]_vars

\* The runtime runs every goroutine that can run; a dial returns, and the timer
\* of connect fires.  Nothing forces the worker to send, or the application to
\* call.
FairSpec == Spec /\ \A p \in Processes : WF_vars(Step(p))

-----------------------------------------------------------------------------
\* When connect returns an error after dialling, the socket it abandons is
\* gone: whoever ran close has finished, the flag is down, and the waiters on
\* closeCh have been released.
FailedConnectTearsDown ==
    pc["connect"] = "failed" =>
        conn = "closed" /\ ~connected /\ closes = 1

\* closeCh is closed once: closing a closed channel panics, and connect, the
\* read loop and Disconnect may all close the socket at the same time.
ClosedOnce == closes <= 1

\* gorilla/websocket supports one concurrent writer: the read loop's PONG, an
\* Emit and the DISCONNECT of close are never written at the same time.
OneWriter ==
    \A p, q \in Processes :
        pc[p] \in {"write", "closeWrite"} /\ pc[q] \in {"write", "closeWrite"}
            => p = q

\* The worker never sees a frame after the DISCONNECT.
NothingAfterBye ==
    \A i \in DOMAIN wire : wire[i] = "bye" => i = Len(wire)

\* What connect has said so far.
Stage ==
    CASE pc["connect"] = "dial"                     -> "new"
      [] pc["connect"] \in {"dialFailed", "failed"} -> "failed"
      [] pc["connect"] = "up"                       -> "up"
      [] OTHER                                      -> "trying"

Session == INSTANCE SocketSession WITH
    stage <- Stage, link <- conn, flag <- connected, released <- closes,
    sent <- wire

\* connect, the read loop, the writers and close together keep the promise of
\* SocketSession: one try, credentials first, events once let in, nothing after
\* the DISCONNECT, one release of the waiters before the connection is closed,
\* and an error of connect only when all that is over.
ImplementsSocket == Session!SocketSafety

TornDown ==
    /\ conn = "closed"
    /\ pc["reader"] = "ended"
    /\ pc["closer"] \in {"idle", "gone"}

\* A write on an open connection that nobody reads waits for ever.
Blocked == stalled /\ conn = "open"

\* While writes do not block, a socket that has started to close is torn down:
\* the connection is closed, the read loop ends and Disconnect returns.  That
\* goes for a worker that had stopped reading too, once the connection breaks.
TeardownCompletes == once # "no" /\ ~Blocked ~> TornDown \/ Blocked

\* connect always returns.
ConnectReturns == <>(pc["connect"] \in {"dialFailed", "up", "failed"})
=============================================================================
