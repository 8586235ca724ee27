--------------------------- MODULE SocketRequests ---------------------------
(***************************************************************************)
(* Correlated calls over one socketIO: request and the handler table it    *)
(* shares with dispatch, add and Off (oddsockets/socket.go), as the        *)
(* Channel methods use them (oddsockets/channel.go).                       *)
(*                                                                         *)
(* A response carries the name of the channel and no identifier of the     *)
(* call.  "of", the call a message answers, is known to the worker only:   *)
(* no definition that models the client reads it.                          *)
(***************************************************************************)
EXTENDS Naturals, Sequences

CONSTANTS
    Calls,      \* the calls made on the socket
    Kind,       \* which Channel method each call is
    Chan,       \* the channel of each call
    Nothing     \* an empty Go channel

\* The Channel methods that call request, by the event they emit.
Kinds == {"subscribe", "unsubscribe", "publish", "get_history", "get_presence"}

ASSUME KindAssumption == Kind \in [Calls -> Kinds]

VARIABLES
    pc,         \* where each call is
    handlers,   \* socketIO.handlers
    running,    \* handler functions on their goroutines: <<handler, message>>
    resCh,      \* resCh of each call: the message it holds, or Nothing
    errCh,      \* errCh of each call
    wire,       \* messages from the worker, not yet dispatched
    emitted,    \* calls whose request has reached the worker
    answered,   \* calls the worker has answered, with a result or an error
    snapshots,  \* subscribe calls the worker sent a history snapshot for
    closed,     \* closeCh is closed
    outcome     \* how each call returned: a message, or Nothing

vars == <<pc, handlers, running, resCh, errCh, wire, emitted, answered,
          snapshots, closed, outcome>>

\* The event each Channel method waits for.
RespEvent ==
    [k \in Kinds |-> CASE k = "subscribe"    -> "subscribed"
                       [] k = "unsubscribe"  -> "unsubscribed"
                       [] k = "publish"      -> "published"
                       [] k = "get_history"  -> "history"
                       [] k = "get_presence" -> "presence"]

\* What the worker can send: the answer to a call, an error, and the history
\* snapshot a subscriber is sent on joining, which has no query flag.
Answer(c) == [event |-> RespEvent[Kind[c]], chan |-> Chan[c],
              query |-> Kind[c] = "get_history", of |-> c]
Error(c) == [event |-> "error", chan |-> Chan[c], query |-> FALSE, of |-> c]
Snapshot(c) == [event |-> "history", chan |-> Chan[c], query |-> FALSE,
                of |-> c]

Messages == {Answer(c) : c \in Calls} \cup {Error(c) : c \in Calls}
                \cup {Snapshot(c) : c \in Calls}

ASSUME NothingAssumption == Nothing \notin Messages

\* The two one-shot handlers of a call.
Handler(c, event) == [call |-> c, event |-> event]
Resp(c) == Handler(c, RespEvent[Kind[c]])
Err(c) == Handler(c, "error")
Handlers == {Resp(c) : c \in Calls} \cup {Err(c) : c \in Calls}

Pcs == {"idle", "addErr", "emit", "wait", "offResp", "offErr", "done"}

TypeOK ==
    /\ pc \in [Calls -> Pcs]
    /\ handlers \subseteq Handlers
    /\ running \subseteq Handlers \X Messages
    /\ resCh \in [Calls -> Messages \cup {Nothing}]
    /\ errCh \in [Calls -> Messages \cup {Nothing}]
    /\ wire \in Seq(Messages)
    /\ emitted \subseteq Calls
    /\ answered \subseteq Calls
    /\ snapshots \subseteq Calls
    /\ closed \in BOOLEAN
    /\ outcome \in [Calls -> Messages \cup {Nothing}]

Init ==
    /\ pc = [c \in Calls |-> "idle"]
    /\ handlers = {}
    /\ running = {}
    /\ resCh = [c \in Calls |-> Nothing]
    /\ errCh = [c \in Calls |-> Nothing]
    /\ wire = <<>>
    /\ emitted = {}
    /\ answered = {}
    /\ snapshots = {}
    /\ closed = FALSE
    /\ outcome = [c \in Calls |-> Nothing]

Goto(c, from, to) ==
    /\ pc[c] = from
    /\ pc' = [pc EXCEPT ![c] = to]

-----------------------------------------------------------------------------
(* The handler table.                                                      *)

\* The match function a handler was added with: none for "error", the channel
\* for a response, and the query flag too for GetHistory.
Matches(h, m) ==
    /\ h.event = m.event
    /\ h.event # "error" =>
          /\ m.chan = Chan[h.call]
          /\ Kind[h.call] = "get_history" => m.query

Fired(m) == {h \in handlers : Matches(h, m)}

\* (mutant) Off forgets the identifier and clears the event.
WithoutEvent(h) == {g \in handlers : g.event # h.event}

\* Off.
Without(h) == handlers \ {h}

\* dispatch, called by the read loop: satisfied one-shot handlers leave the
\* table and run on goroutines of their own.
Dispatch ==
    /\ wire # <<>>
    /\ handlers' = handlers \ Fired(Head(wire))
    /\ running' = running \cup (Fired(Head(wire)) \X {Head(wire)})
    /\ wire' = Tail(wire)
    /\ UNCHANGED <<pc, resCh, errCh, emitted, answered, snapshots, closed,
                   outcome>>

\* A handler function: a send on a buffered channel that never blocks.
Put(ch, c, m) == IF ch[c] = Nothing THEN [ch EXCEPT ![c] = m] ELSE ch

RunHandler(h, m) ==
    /\ <<h, m>> \in running
    /\ running' = running \ {<<h, m>>}
    /\ IF h.event = "error"
       THEN errCh' = Put(errCh, h.call, m) /\ UNCHANGED resCh
       ELSE resCh' = Put(resCh, h.call, m) /\ UNCHANGED errCh
    /\ UNCHANGED <<pc, handlers, wire, emitted, answered, snapshots, closed,
                   outcome>>

-----------------------------------------------------------------------------
(* request.                                                                *)

AddResp(c) ==
    /\ Goto(c, "idle", "addErr")
    /\ handlers' = handlers \cup {Resp(c)}
    /\ UNCHANGED <<running, resCh, errCh, wire, emitted, answered, snapshots,
                   closed, outcome>>

AddErr(c) ==
    /\ Goto(c, "addErr", "emit")
    /\ handlers' = handlers \cup {Err(c)}
    /\ UNCHANGED <<running, resCh, errCh, wire, emitted, answered, snapshots,
                   closed, outcome>>

\* (mutant) A failed Emit returns without the cleanup.
EmitForgetsCleanup(c) ==
    /\ \/ /\ ~closed
          /\ Goto(c, "emit", "wait")
          /\ emitted' = emitted \cup {c}
       \/ /\ Goto(c, "emit", "done")
          /\ UNCHANGED emitted
    /\ UNCHANGED <<handlers, running, resCh, errCh, wire, answered, snapshots,
                   closed, outcome>>

\* Emit succeeds, or the write fails and request goes to the cleanup.
Emit(c) ==
    /\ \/ /\ ~closed
          /\ Goto(c, "emit", "wait")
          /\ emitted' = emitted \cup {c}
       \/ /\ Goto(c, "emit", "offResp")
          /\ UNCHANGED emitted
    /\ UNCHANGED <<handlers, running, resCh, errCh, wire, answered, snapshots,
                   closed, outcome>>

\* The select of request.  Go picks at random among the cases that are ready.
TakeResponse(c) ==
    /\ resCh[c] # Nothing
    /\ Goto(c, "wait", "offResp")
    /\ outcome' = [outcome EXCEPT ![c] = resCh[c]]
    /\ resCh' = [resCh EXCEPT ![c] = Nothing]
    /\ UNCHANGED <<handlers, running, errCh, wire, emitted, answered,
                   snapshots, closed>>

TakeError(c) ==
    /\ errCh[c] # Nothing
    /\ Goto(c, "wait", "offResp")
    /\ outcome' = [outcome EXCEPT ![c] = errCh[c]]
    /\ errCh' = [errCh EXCEPT ![c] = Nothing]
    /\ UNCHANGED <<handlers, running, resCh, wire, emitted, answered,
                   snapshots, closed>>

\* time.After fires, or closeCh is closed.
Timeout(c) ==
    /\ Goto(c, "wait", "offResp")
    /\ UNCHANGED <<handlers, running, resCh, errCh, wire, emitted, answered,
                   snapshots, closed, outcome>>

\* (mutant) cleanup drains the channel: a call that has given up returns what
\* came too late.
OffRespTakesLate(c) ==
    /\ Goto(c, "offResp", "offErr")
    /\ handlers' = Without(Resp(c))
    /\ IF resCh[c] = Nothing
       THEN UNCHANGED outcome
       ELSE outcome' = [outcome EXCEPT ![c] = resCh[c]]
    /\ UNCHANGED <<running, resCh, errCh, wire, emitted, answered, snapshots,
                   closed>>

\* cleanup.
OffResp(c) ==
    /\ Goto(c, "offResp", "offErr")
    /\ handlers' = Without(Resp(c))
    /\ UNCHANGED <<running, resCh, errCh, wire, emitted, answered, snapshots,
                   closed, outcome>>

OffErr(c) ==
    /\ Goto(c, "offErr", "done")
    /\ handlers' = Without(Err(c))
    /\ UNCHANGED <<running, resCh, errCh, wire, emitted, answered, snapshots,
                   closed, outcome>>

-----------------------------------------------------------------------------
(* The worker.                                                             *)

\* It answers each request at most once, in any order and after any delay.
WorkerAnswer(c) ==
    /\ c \in emitted \ answered
    /\ ~closed
    /\ answered' = answered \cup {c}
    /\ \/ wire' = Append(wire, Answer(c))
       \/ wire' = Append(wire, Error(c))
    /\ UNCHANGED <<pc, handlers, running, resCh, errCh, emitted, snapshots,
                   closed, outcome>>

WorkerSnapshot(c) ==
    /\ Kind[c] = "subscribe"
    /\ c \in emitted \ snapshots
    /\ ~closed
    /\ snapshots' = snapshots \cup {c}
    /\ wire' = Append(wire, Snapshot(c))
    /\ UNCHANGED <<pc, handlers, running, resCh, errCh, emitted, answered,
                   closed, outcome>>

\* The socket closes, at any time.  The read loop may still dispatch what has
\* arrived.
Close ==
    /\ ~closed
    /\ closed' = TRUE
    /\ UNCHANGED <<pc, handlers, running, resCh, errCh, wire, emitted,
                   answered, snapshots, outcome>>

-----------------------------------------------------------------------------
Step(c) ==
    \/ AddErr(c) \/ Emit(c) \/ TakeResponse(c) \/ TakeError(c) \/ Timeout(c)
    \/ OffResp(c) \/ OffErr(c)

Next ==
    \/ \E c \in Calls :
          AddResp(c) \/ Step(c) \/ WorkerAnswer(c) \/ WorkerSnapshot(c)
    \/ Dispatch
    \/ \E h \in Handlers, m \in Messages : RunHandler(h, m)
    \/ Close

Spec == Init /\ [][Next]_vars

-----------------------------------------------------------------------------
SameKey(c, d) == Kind[c] = Kind[d] /\ Chan[c] = Chan[d]

Succeeded(c) == outcome[c] # Nothing /\ outcome[c].event # "error"

\* A call that has returned, in whichever way, has left no handler behind.
NoHandlerLeak ==
    \A c \in Calls : pc[c] = "done" => \A h \in handlers : h.call # c

\* While a call waits, each of its two handlers is in the table, or has fired
\* and its message is on the way to the call: no answer comes too early, and
\* the cleanup of another call never disarms this one.
WaitingIsArmed ==
    \A c \in Calls :
        pc[c] = "wait" =>
            /\ \/ Resp(c) \in handlers
               \/ \E m \in Messages : <<Resp(c), m>> \in running
               \/ resCh[c] # Nothing
            /\ \/ Err(c) \in handlers
               \/ \E m \in Messages : <<Err(c), m>> \in running
               \/ errCh[c] # Nothing

\* A call as its caller sees it: it has decided once cleanup begins.
PhaseAt(at) ==
    CASE at = "idle" -> "new"
      [] at \in {"addErr", "emit", "wait"} -> "open"
      [] OTHER -> "returned"

CallPhase == [c \in Calls |-> PhaseAt(pc[c])]

\* A call may return any error, but only an answer to a call like itself.
CallFitting ==
    [c \in Calls |-> {Error(d) : d \in Calls}
                        \cup {Answer(d) : d \in {e \in Calls : SameKey(c, e)}}]

Call ==
    INSTANCE RequestReply WITH
        Fitting <- CallFitting,
        Origin <- [m \in Messages |-> {m.of}],
        phase <- CallPhase,
        asked <- emitted,
        reply <- outcome

\* request implements a call that returns once: whatever order the handlers,
\* the timeout, the close and the cleanup come in, a call that has decided is
\* not changed by what arrives late, and no reply precedes its request.  A
\* GetHistory does not take the snapshot that a Subscribe on its channel is sent
\* under the same event name for its answer.
ImplementsCalls == Call!CallSafety

\* "request emits an event and waits for a correlated response" (socket.go),
\* "Publish ... returns the worker ack" (channel.go): the response a call
\* returns is the answer to that call.
OwnAnswer == \A c \in Calls : Succeeded(c) => outcome[c].of = c
=============================================================================
