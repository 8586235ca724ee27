---------------------------- MODULE EnhancedCalls ----------------------------
(***************************************************************************)
(* The methods of EnhancedFeatures (oddsockets/enhanced_features.go).  They *)
(* have three shapes.  Every method checks IsConnected; a notice then emits *)
(* its event and returns; a query adds a one-shot handler for its response  *)
(* event and one for "error", emits, and waits for ten seconds.  Unlike     *)
(* request, a query matches no payload, ignores a failed Emit, removes no   *)
(* handler on its way out and does not watch closeCh.  Each step fetches    *)
(* Client.socket anew, so Disconnect and a reconnection can come between    *)
(* two of them.                                                             *)
(***************************************************************************)
EXTENDS Naturals, Sequences, FiniteSets

CONSTANTS
    Calls,      \* the calls the application makes
    Event,      \* the event each of them emits
    Sockets,    \* the socketIO instances the client installs in its life
    NoSocket,   \* Client.socket = nil
    NoCall,     \* what a message answers that answers no Enhanced call
    Nothing,    \* an empty Go channel
    MaxNoise    \* messages that answer no call (a bound)

VARIABLES
    pc,         \* where each call is
    socket,     \* Client.socket
    live,       \* sockets with connected = 1
    unused,     \* sockets not installed yet
    handlers,   \* the handler tables of all the sockets
    running,    \* handler functions on their goroutines: <<handler, message>>
    result,     \* the result channel of each call
    errChan,    \* the errChan channel of each call
    via,        \* the socket each call's event left on, or NoSocket
    sent,       \* messages the worker has sent
    wire,       \* messages on each socket, not yet dispatched
    outcome     \* what each call returned: a message, or Nothing

\* History: what may leave a query without the answer to it.
VARIABLES
    crossed,    \* calls under which another socket was installed half-way
    spoiled     \* calls whose response handler met a payload it cannot read

client == <<pc, handlers, running, result, errChan, outcome, spoiled>>
conn == <<socket, live, unused>>
net == <<via, sent, wire>>
vars == <<client, conn, net, crossed>>

-----------------------------------------------------------------------------
(* The methods, by the event they emit, with the event a query waits for.  *)

NoReply == "none"

Threads ==
    [thread_reply |-> "thread_reply_success", get_thread |-> "thread_data",
     subscribe_thread |-> "thread_subscribed", mark_thread_read |-> NoReply,
     follow_thread |-> NoReply, unfollow_thread |-> NoReply]

Reactions ==
    [add_reaction |-> NoReply, remove_reaction |-> NoReply,
     get_reactions |-> "message_reactions", mark_read |-> NoReply,
     get_unread_counts |-> "unread_counts", mark_all_read |-> NoReply]

Rooms ==
    [create_channel |-> "channel_create_success", update_channel |-> NoReply,
     archive_channel |-> NoReply, invite_to_channel |-> NoReply,
     remove_from_channel |-> NoReply, join_channel |-> NoReply,
     leave_channel |-> NoReply, get_channel_members |-> "channel_members"]

DirectMessages ==
    [create_dm |-> "dm_create_success", send_dm |-> NoReply,
     get_dm_conversations |-> "dm_conversations"]

Notifications ==
    [subscribe_notifications |-> NoReply, mark_notification_read |-> NoReply,
     mark_all_notifications_read |-> NoReply, clear_notifications |-> NoReply,
     get_notifications |-> "notifications_data"]

Statuses ==
    [set_status |-> NoReply, set_custom_status |-> NoReply,
     clear_custom_status |-> NoReply, set_dnd |-> NoReply,
     clear_dnd |-> NoReply, start_typing |-> NoReply, stop_typing |-> NoReply,
     get_user_presence |-> "user_presence_data"]

Edits ==
    [edit_message |-> NoReply, delete_message |-> NoReply,
     pin_message |-> NoReply, unpin_message |-> NoReply,
     get_pinned_messages |-> "pinned_messages"]

Searches ==
    [search_messages |-> "search_results", filter_messages |-> "filter_results",
     search_in_channel |-> "channel_search_results",
     search_by_user |-> "user_search_results"]

Methods == {Threads, Reactions, Rooms, DirectMessages, Notifications, Statuses,
            Edits, Searches}
Events == UNION {DOMAIN section : section \in Methods}
Awaits == [e \in Events |->
              (CHOOSE section \in Methods : e \in DOMAIN section)[e]]
Queries == {e \in Events : Awaits[e] # NoReply}

ASSUME EventAssumption == Event \in [Calls -> Events]
ASSUME SocketAssumption == NoSocket \notin Sockets
ASSUME NoiseAssumption == MaxNoise \in Nat

-----------------------------------------------------------------------------
\* What the worker can send: the answer to a query or an error about any call,
\* the broadcast that shares its name with the answer to a subscribe_thread,
\* and an error about an event of the Channel methods.  The payload of a
\* response need not be an object.  An error that is none names no event, and
\* is to the handlers what OtherError is.
Answer(c, object) ==
    [event |-> Awaits[Event[c]], about |-> Event[c], of |-> c,
     object |-> object]
Error(c) == [event |-> "error", about |-> Event[c], of |-> c, object |-> TRUE]
Broadcast(object) ==
    [event |-> "thread_subscribed", about |-> "subscribe_thread",
     of |-> NoCall, object |-> object]
OtherError ==
    [event |-> "error", about |-> "publish", of |-> NoCall, object |-> TRUE]

IsQuery(c) == Event[c] \in Queries
Answers == {Answer(c, object) :
                c \in {d \in Calls : IsQuery(d)}, object \in BOOLEAN}
Errors == {Error(c) : c \in Calls}
Noise == {Broadcast(object) : object \in BOOLEAN} \cup {OtherError}
Messages == Answers \cup Errors \cup Noise

ASSUME NothingAssumption == Nothing \notin Messages /\ NoCall \notin Calls

Handler(s, c, event) == [on |-> s, call |-> c, event |-> event]
Handlers == {Handler(s, c, Awaits[Event[c]]) : s \in Sockets, c \in Calls}
                \cup {Handler(s, c, "error") : s \in Sockets, c \in Calls}

Pcs == {"idle", "onceResult", "onceError", "emit", "wait", "done", "panic"}

TypeOK ==
    /\ pc \in [Calls -> Pcs]
    /\ socket \in Sockets \cup {NoSocket}
    /\ live \subseteq Sockets
    /\ unused \subseteq Sockets
    /\ handlers \subseteq Handlers
    /\ running \subseteq Handlers \X Messages
    /\ result \in [Calls -> Messages \cup {Nothing}]
    /\ errChan \in [Calls -> Messages \cup {Nothing}]
    /\ via \in [Calls -> Sockets \cup {NoSocket}]
    /\ sent \subseteq Messages
    /\ wire \in [Sockets -> Seq(Messages)]
    /\ outcome \in [Calls -> Messages \cup {Nothing}]
    /\ crossed \subseteq Calls
    /\ spoiled \subseteq Calls

Init ==
    /\ pc = [c \in Calls |-> "idle"]
    /\ socket \in Sockets
    /\ live = {socket}
    /\ unused = Sockets \ {socket}
    /\ handlers = {}
    /\ running = {}
    /\ result = [c \in Calls |-> Nothing]
    /\ errChan = [c \in Calls |-> Nothing]
    /\ via = [c \in Calls |-> NoSocket]
    /\ sent = {}
    /\ wire = [s \in Sockets |-> <<>>]
    /\ outcome = [c \in Calls |-> Nothing]
    /\ crossed = {}
    /\ spoiled = {}

\* A nil dereference in the application's goroutine ends the process.
Crashed == \E c \in Calls : pc[c] = "panic"

Goto(c, from, to) ==
    /\ ~Crashed
    /\ pc[c] = from
    /\ pc' = [pc EXCEPT ![c] = to]

-----------------------------------------------------------------------------
(* The methods.                                                            *)

IsConnected == socket # NoSocket /\ socket \in live

Begin(c) ==
    /\ Goto(c, "idle", IF ~IsConnected THEN "done"
                       ELSE IF IsQuery(c) THEN "onceResult" ELSE "emit")
    /\ UNCHANGED <<handlers, running, result, errChan, outcome, spoiled, conn,
                   net, crossed>>

\* c.socket was set to nil after IsConnected had looked at it.
Panic(c) ==
    /\ socket = NoSocket
    /\ \E at \in {"onceResult", "onceError", "emit"} : Goto(c, at, "panic")
    /\ UNCHANGED <<handlers, running, result, errChan, outcome, spoiled, conn,
                   net, crossed>>

\* (mutant) add puts one listener per event in the table.
AddedReplacing(h) ==
    {g \in handlers : g.on # h.on \/ g.event # h.event} \cup {h}

\* Once.
Added(h) == handlers \cup {h}

OnceResult(c) ==
    /\ socket # NoSocket
    /\ Goto(c, "onceResult", "onceError")
    /\ handlers' = Added(Handler(socket, c, Awaits[Event[c]]))
    /\ UNCHANGED <<running, result, errChan, outcome, spoiled, conn, net,
                   crossed>>

OnceError(c) ==
    /\ socket # NoSocket
    /\ Goto(c, "onceError", "emit")
    /\ handlers' = Added(Handler(socket, c, "error"))
    /\ UNCHANGED <<running, result, errChan, outcome, spoiled, conn, net,
                   crossed>>

\* The error of Emit is dropped: a query waits all the same.
Emit(c) ==
    /\ socket # NoSocket
    /\ Goto(c, "emit", IF IsQuery(c) THEN "wait" ELSE "done")
    /\ \/ /\ socket \in live
          /\ via' = [via EXCEPT ![c] = socket]
       \/ UNCHANGED via
    /\ UNCHANGED <<handlers, running, result, errChan, outcome, spoiled, conn,
                   sent, wire, crossed>>

\* The select.
TakeResult(c) ==
    /\ result[c] # Nothing
    /\ Goto(c, "wait", "done")
    /\ outcome' = [outcome EXCEPT ![c] = result[c]]
    /\ result' = [result EXCEPT ![c] = Nothing]
    /\ UNCHANGED <<handlers, running, errChan, spoiled, conn, net, crossed>>

TakeError(c) ==
    /\ errChan[c] # Nothing
    /\ Goto(c, "wait", "done")
    /\ outcome' = [outcome EXCEPT ![c] = errChan[c]]
    /\ errChan' = [errChan EXCEPT ![c] = Nothing]
    /\ UNCHANGED <<handlers, running, result, spoiled, conn, net, crossed>>

Timeout(c) ==
    /\ Goto(c, "wait", "done")
    /\ UNCHANGED <<handlers, running, result, errChan, outcome, spoiled, conn,
                   net, crossed>>

-----------------------------------------------------------------------------
(* The handler table.                                                      *)

Fired(s, m) == {h \in handlers : h.on = s /\ h.event = m.event}

\* (mutant) dispatch keeps its one-shot handlers.
RemainingAll(s, m) == handlers

Remaining(s, m) == handlers \ Fired(s, m)

Dispatch(s) ==
    /\ ~Crashed
    /\ wire[s] # <<>>
    /\ handlers' = Remaining(s, Head(wire[s]))
    /\ running' = running \cup (Fired(s, Head(wire[s])) \X {Head(wire[s])})
    /\ wire' = [wire EXCEPT ![s] = Tail(@)]
    /\ UNCHANGED <<pc, result, errChan, outcome, spoiled, conn, via, sent,
                   crossed>>

\* (mutant) The listener sets what the method returns.
RunResultReturns(h, m) ==
    /\ ~Crashed
    /\ <<h, m>> \in running
    /\ h.event # "error"
    /\ IF m.object
       THEN outcome' = [outcome EXCEPT ![h.call] = m] /\ UNCHANGED spoiled
       ELSE spoiled' = spoiled \cup {h.call} /\ UNCHANGED outcome
    /\ running' = running \ {<<h, m>>}
    /\ UNCHANGED <<pc, handlers, result, errChan, conn, net, crossed>>

\* The function of a response handler sends an object on a channel with room
\* for one message, and blocks when it is full.  On any other payload it
\* returns, and the call has lost its one handler.
RunResult(h, m) ==
    /\ ~Crashed
    /\ <<h, m>> \in running
    /\ h.event # "error"
    /\ \/ /\ m.object
          /\ result[h.call] = Nothing
          /\ result' = [result EXCEPT ![h.call] = m]
          /\ UNCHANGED spoiled
       \/ /\ ~m.object
          /\ spoiled' = spoiled \cup {h.call}
          /\ UNCHANGED result
    /\ running' = running \ {<<h, m>>}
    /\ UNCHANGED <<pc, handlers, errChan, outcome, conn, net, crossed>>

\* That of an error handler looks at the event the error names.
Concerns(h, m) == m.about = Event[h.call]

RunError(h, m) ==
    /\ ~Crashed
    /\ <<h, m>> \in running
    /\ h.event = "error"
    /\ IF Concerns(h, m)
       THEN /\ errChan[h.call] = Nothing
            /\ errChan' = [errChan EXCEPT ![h.call] = m]
       ELSE UNCHANGED errChan
    /\ running' = running \ {<<h, m>>}
    /\ UNCHANGED <<pc, handlers, result, outcome, spoiled, conn, net, crossed>>

-----------------------------------------------------------------------------
(* The connection, from outside these methods.                             *)

\* socketIO.close, from Disconnect or from the read loop.
CloseSocket ==
    /\ ~Crashed
    /\ live # {}
    /\ live' = {}
    /\ UNCHANGED <<client, socket, unused, net, crossed>>

\* The end of Disconnect.
ForgetSocket ==
    /\ ~Crashed
    /\ socket \in Sockets \ live
    /\ socket' = NoSocket
    /\ UNCHANGED <<client, live, unused, net, crossed>>

\* connectToWorker, once its socket has connected.
InstallSocket(s) ==
    /\ ~Crashed
    /\ s \in unused
    /\ live = {}
    /\ socket' = s
    /\ live' = {s}
    /\ unused' = unused \ {s}
    /\ crossed' = crossed \cup
          {c \in Calls : pc[c] \in {"onceResult", "onceError", "emit"}}
    /\ UNCHANGED <<client, net>>

\* The worker answers a call at most once, with a result or an error, on the
\* socket the call came by.
Unanswered(c) == \A m \in sent : m.of # c

WorkerSend(s, m) ==
    /\ ~Crashed
    /\ s \in live
    /\ IF m.of = NoCall
       THEN Cardinality({n \in sent : n.of = NoCall}) < MaxNoise
       ELSE via[m.of] = s /\ Unanswered(m.of)
    /\ sent' = sent \cup {m}
    /\ wire' = [wire EXCEPT ![s] = Append(@, m)]
    /\ UNCHANGED <<client, conn, via, crossed>>

-----------------------------------------------------------------------------
Step(c) ==
    \/ Panic(c) \/ OnceResult(c) \/ OnceError(c) \/ Emit(c)
    \/ TakeResult(c) \/ TakeError(c) \/ Timeout(c)

Next ==
    \/ \E c \in Calls : Begin(c) \/ Step(c)
    \/ \E s \in Sockets : Dispatch(s) \/ InstallSocket(s)
    \/ \E r \in running : RunResult(r[1], r[2]) \/ RunError(r[1], r[2])
    \/ \E s \in Sockets, m \in Messages : WorkerSend(s, m)
    \/ CloseSocket
    \/ ForgetSocket

Spec == Init /\ [][Next]_vars

-----------------------------------------------------------------------------
\* No handler function ever blocks on its channel, so no goroutine is left
\* behind, although a query that has timed out never drains its channels and
\* leaves its handlers in the table for later messages to fire.
SendNeverBlocks ==
    \A r \in running :
        IF r[1].event = "error"
        THEN Concerns(r[1], r[2]) => errChan[r[1].call] = Nothing
        ELSE r[2].object => result[r[1].call] = Nothing

\* A call as its caller sees it.  A panic ends the process and not the call.
PhaseAt(at) ==
    CASE at = "idle" -> "new" [] at = "done" -> "returned" [] OTHER -> "open"

CallPhase == [c \in Calls |-> PhaseAt(pc[c])]

CallFitting ==
    [c \in Calls |->
        {m \in Messages : /\ IsQuery(c)
                          /\ m.event \in {Awaits[Event[c]], "error"}
                          /\ m.about = Event[c]
                          /\ m.object}]

Call ==
    INSTANCE RequestReply WITH
        Fitting <- CallFitting,
        Origin <- [m \in Messages |-> {m.of} \ {NoCall}],
        phase <- CallPhase,
        asked <- {c \in Calls : via[c] # NoSocket},
        reply <- outcome

\* The methods implement a call that returns once, with a reply of its own
\* method, across lost and replaced sockets: what its listeners receive after
\* it has timed out does not reach it, and no reply precedes its request.
ImplementsCalls == Call!CallSafety

\* While a query waits for what it has emitted, its response handler is in the
\* table of the socket it emitted on, or has fired and its message is on the
\* way to the call: neither an answer that comes at once nor another query for
\* the same event disarms it.  Two things do, and the call can only time out: a
\* socket installed between the fetches of Client.socket, and a payload that is
\* no object.
ResultIsArmed ==
    \A c \in Calls :
        pc[c] = "wait" /\ via[c] # NoSocket /\ c \notin crossed \cup spoiled =>
            \/ Handler(via[c], c, Awaits[Event[c]]) \in handlers
            \/ \E r \in running : r[1].call = c /\ r[1].event # "error"
            \/ result[c] # Nothing
=============================================================================
