------------------------ MODULE ChannelSubscription ------------------------
(***************************************************************************)
(* One Channel (oddsockets/channel.go): Subscribe and Unsubscribe, the     *)
(* Unsubscribe inside Client.Disconnect, and the goroutine that handles    *)
(* each message event.                                                     *)
(*                                                                         *)
(* Calls may overlap.  request is its effect here (SocketRequests has its  *)
(* insides): the worker takes the requests of a connection in order, its   *)
(* acks carry no identifier of the call, and a call may fail at any time   *)
(* while it waits, on a timeout, an error event or a closed socket.        *)
(***************************************************************************)
EXTENDS Naturals, Sequences

CONSTANTS
    Callers,        \* goroutines of the application
    Targets,        \* Go channels it passes to Subscribe
    NoTarget,       \* a nil messageChan, or nil subscribeOpts
    Messages,       \* message events of the channel
    Passes,         \* for each target: what its FilterExpression lets through
    Retaining,      \* the targets passed with RetainHistory
    Presence,       \* the targets passed with EnablePresence
    Capacity,       \* of each Go channel
    HistoryCap,     \* 100 in the code
    MaxCalls,       \* bound: calls of the application
    MaxConns        \* bound: connections

ASSUME TargetAssumption == NoTarget \notin Targets
ASSUME PassesAssumption == Passes \in [Targets -> SUBSET Messages]
ASSUME CapAssumption == Capacity \in Nat /\ HistoryCap \in Nat \ {0}

VARIABLES
    pc,             \* where each caller is
    arg,            \* the messageChan a caller passed, with its options
    disconnecting,  \* callers whose Unsubscribe is the one in Disconnect
    onConn,         \* the connection a caller's request went out on
    subscribed,     \* Channel.subscribed
    messageChan,    \* Channel.messageChan
    subscribeOpts,  \* Channel.subscribeOpts, by the target it came with
    present,        \* the own user is in Channel.presenceUsers
    history,        \* Channel.messageHistory
    link,           \* Client.socket: "none", "open", or "dead"
    conn,           \* connections opened so far
    up,             \* requests on their way to the worker
    acks,           \* acks on their way back
    joined,         \* the worker has the connection among its subscribers
    hpc,            \* where the handler of each message is
    target,         \* the messageChan deliverMessage read
    inbox,          \* what each Go channel holds
    calls,          \* calls made
    overlapped,     \* history: two calls have been under way at a time
    clean,          \* history: no request of this connection has failed
    retained        \* history: every message ever appended to messageHistory

callVars == <<pc, arg, disconnecting, onConn, calls, overlapped>>
channelVars == <<subscribed, messageChan, subscribeOpts, present>>
historyVars == <<history, retained>>
linkVars == <<link, conn, up, acks, joined, clean>>
handlerVars == <<hpc, target, inbox>>
vars == <<callVars, channelVars, historyVars, linkVars, handlerVars>>

Pcs == {"idle", "take", "emitSub", "waitSub", "commit",
        "read", "test", "emitUnsub", "waitUnsub", "drop", "close", "panic"}
HandlerPcs == {"none", "look", "keep", "keepOnly", "load", "send", "done"}
Events == {"subscribe", "unsubscribe"}
AckOf == [e \in Events |->
             IF e = "subscribe" THEN "subscribed" ELSE "unsubscribed"]
Acks == {"subscribed", "unsubscribed"}

CallTypes ==
    /\ pc \in [Callers -> Pcs]
    /\ arg \in [Callers -> Targets \cup {NoTarget}]
    /\ disconnecting \subseteq Callers
    /\ onConn \in [Callers -> Nat]
    /\ calls \in Nat

ChannelTypes ==
    /\ messageChan \in Targets \cup {NoTarget}
    /\ subscribeOpts \in Targets \cup {NoTarget}

FlagTypes ==
    /\ subscribed \in BOOLEAN
    /\ present \in BOOLEAN
    /\ joined \in BOOLEAN
    /\ overlapped \in BOOLEAN
    /\ clean \in BOOLEAN

HistoryTypes == history \in Seq(Messages) /\ retained \in Seq(Messages)

LinkTypes ==
    /\ link \in {"none", "open", "dead"}
    /\ conn \in Nat
    /\ up \in Seq(Events)
    /\ acks \in Seq(Acks)

HandlerTypes ==
    /\ hpc \in [Messages -> HandlerPcs]
    /\ target \in [Messages -> Targets \cup {NoTarget}]
    /\ inbox \in [Targets -> Seq(Messages)]
    /\ \A g \in Targets : Len(inbox[g]) <= Capacity

TypeOK ==
    /\ CallTypes
    /\ ChannelTypes
    /\ FlagTypes
    /\ HistoryTypes
    /\ LinkTypes
    /\ HandlerTypes

Init ==
    /\ pc = [p \in Callers |-> "idle"]
    /\ arg = [p \in Callers |-> NoTarget]
    /\ disconnecting = {}
    /\ onConn = [p \in Callers |-> 0]
    /\ subscribed = FALSE
    /\ messageChan = NoTarget
    /\ subscribeOpts = NoTarget
    /\ present = FALSE
    /\ history = <<>>
    /\ link = "none"
    /\ conn = 0
    /\ up = <<>>
    /\ acks = <<>>
    /\ joined = FALSE
    /\ hpc = [m \in Messages |-> "none"]
    /\ target = [m \in Messages |-> NoTarget]
    /\ inbox = [g \in Targets |-> <<>>]
    /\ calls = 0
    /\ overlapped = FALSE
    /\ clean = TRUE
    /\ retained = <<>>

\* Locals end with their call.
Goto(p, from, to) ==
    /\ pc[p] = from
    /\ pc' = [pc EXCEPT ![p] = to]
    /\ arg' = [arg EXCEPT ![p] = IF to = "idle" THEN NoTarget ELSE @]
    /\ disconnecting' =
           IF to = "idle" THEN disconnecting \ {p} ELSE disconnecting

Busy(p) == pc[p] # "idle"

\* A caller enters Subscribe, Unsubscribe or Disconnect.
Enter(p, to) ==
    /\ calls < MaxCalls
    /\ calls' = calls + 1
    /\ pc[p] = "idle"
    /\ pc' = [pc EXCEPT ![p] = to]
    /\ overlapped' = IF \E q \in Callers \ {p} : Busy(q) THEN TRUE
                     ELSE overlapped
    /\ UNCHANGED <<onConn, channelVars, historyVars, linkVars, handlerVars>>

-----------------------------------------------------------------------------
(* Subscribe.                                                              *)

\* (mutant) IsConnected is not asked.
SubscribeUnchecked(p, g) ==
    /\ Enter(p, "take")
    /\ arg' = [arg EXCEPT ![p] = g]
    /\ UNCHANGED disconnecting

\* IsConnected holds and messageChan is not nil; without that, an error.
SubscribeCheck(p, g) ==
    /\ link = "open"
    /\ Enter(p, "take")
    /\ arg' = [arg EXCEPT ![p] = g]
    /\ UNCHANGED disconnecting

\* (mutant) The options of the first Subscribe stay.
SubscribeTakeFirstOptions(p) ==
    /\ Goto(p, "take", IF subscribed THEN "idle" ELSE "emitSub")
    /\ messageChan' = IF subscribed THEN messageChan ELSE arg[p]
    /\ subscribeOpts' = IF subscribeOpts # NoTarget THEN subscribeOpts
                        ELSE arg[p]
    /\ UNCHANGED <<onConn, calls, overlapped, subscribed,
                   present, historyVars, linkVars, handlerVars>>

\* (mutant) An existing subscription is asked for again.
SubscribeTakeAgain(p) ==
    /\ Goto(p, "take", "emitSub")
    /\ messageChan' = arg[p]
    /\ subscribeOpts' = arg[p]
    /\ UNCHANGED <<onConn, calls, overlapped, subscribed,
                   present, historyVars, linkVars, handlerVars>>

\* The first critical section: return at once, or set the target.
SubscribeTake(p) ==
    /\ Goto(p, "take", IF subscribed THEN "idle" ELSE "emitSub")
    /\ messageChan' = IF subscribed THEN messageChan ELSE arg[p]
    /\ subscribeOpts' = IF subscribed THEN subscribeOpts ELSE arg[p]
    /\ UNCHANGED <<onConn, calls, overlapped, subscribed,
                   present, historyVars, linkVars, handlerVars>>

\* Client.socket.request emits; Client.socket is loaded again for it.  The
\* socket is nil, its connection is gone, or the request goes out.
Emit(p, from, event, wait, failed) ==
    /\ Goto(p, from, CASE link = "none" -> "panic"
                       [] link = "dead" -> failed
                       [] link = "open" -> wait)
    /\ up' = IF link = "open" THEN Append(up, event) ELSE up
    /\ onConn' = [onConn EXCEPT ![p] = IF link = "open" THEN conn ELSE 0]
    /\ UNCHANGED <<calls, overlapped, channelVars,
                   historyVars, link, conn, acks, joined, clean, handlerVars>>

SubscribeEmit(p) == Emit(p, "emitSub", "subscribe", "waitSub", "idle")

\* request fails: a timeout, an error event, or closeCh.
Fail(p, from, to) ==
    /\ Goto(p, from, to)
    /\ clean' = IF onConn[p] = conn THEN FALSE ELSE clean
    /\ onConn' = [onConn EXCEPT ![p] = 0]
    /\ UNCHANGED <<calls, overlapped, channelVars,
                   historyVars, link, conn, up, acks, joined, handlerVars>>

SubscribeFail(p) == Fail(p, "waitSub", "idle")

\* (mutant) The presence list is left alone.
SubscribeCommitUnlisted(p) ==
    /\ Goto(p, "commit", "idle")
    /\ subscribed' = TRUE
    /\ UNCHANGED <<onConn, calls, overlapped, messageChan,
                   subscribeOpts, present, historyVars, linkVars, handlerVars>>

\* The second critical section.  opts is the caller's own.
SubscribeCommit(p) ==
    /\ Goto(p, "commit", "idle")
    /\ subscribed' = TRUE
    /\ present' = (present \/ arg[p] \in Presence)
    /\ UNCHANGED <<onConn, calls, overlapped, messageChan,
                   subscribeOpts, historyVars, linkVars, handlerVars>>

-----------------------------------------------------------------------------
(* Unsubscribe, called by the application or by Disconnect.                *)

Unsubscribe(p) ==
    /\ Enter(p, "read")
    /\ UNCHANGED <<arg, disconnecting>>

\* (mutant) Disconnect leaves the channels alone.
DisconnectOnly(p) ==
    /\ link # "none"
    /\ Enter(p, "close")
    /\ disconnecting' = disconnecting \cup {p}
    /\ UNCHANGED arg

Disconnect(p) ==
    /\ link # "none"
    /\ Enter(p, "read")
    /\ disconnecting' = disconnecting \cup {p}
    /\ UNCHANGED arg

\* What follows an Unsubscribe.
After(p) == IF p \in disconnecting THEN "close" ELSE "idle"

ReadSubscribed(p) ==
    /\ Goto(p, "read", IF subscribed THEN "test" ELSE After(p))
    /\ UNCHANGED <<onConn, calls, overlapped, channelVars,
                   historyVars, linkVars, handlerVars>>

\* if ch.client.socket != nil.
UnsubscribeTest(p) ==
    /\ Goto(p, "test", IF link = "none" THEN "drop" ELSE "emitUnsub")
    /\ UNCHANGED <<onConn, calls, overlapped, channelVars,
                   historyVars, linkVars, handlerVars>>

UnsubscribeEmit(p) == Emit(p, "emitUnsub", "unsubscribe", "waitUnsub", "drop")

UnsubscribeFail(p) == Fail(p, "waitUnsub", "drop")

\* Whether or not the worker confirmed.
UnsubscribeDrop(p) ==
    /\ Goto(p, "drop", After(p))
    /\ subscribed' = FALSE
    /\ messageChan' = NoTarget
    /\ present' = FALSE
    /\ UNCHANGED <<onConn, calls, overlapped,
                   subscribeOpts, historyVars, linkVars, handlerVars>>

\* A connection ends, and with it what is under way on it.
Lose(to) ==
    /\ link' = to
    /\ up' = <<>>
    /\ acks' = <<>>
    /\ joined' = FALSE
    /\ UNCHANGED <<conn, clean>>

\* The rest of Disconnect: close the socket and set it to nil.
CloseSocket(p) ==
    /\ Goto(p, "close", "idle")
    /\ Lose("none")
    /\ UNCHANGED <<onConn, calls, overlapped, channelVars,
                   historyVars, handlerVars>>

-----------------------------------------------------------------------------
(* The connection and the worker.                                          *)

\* Client.Connect, which leaves the channels alone.
Connect ==
    /\ link = "none"
    /\ conn < MaxConns
    /\ link' = "open"
    /\ conn' = conn + 1
    /\ clean' = TRUE
    /\ UNCHANGED <<callVars, channelVars, historyVars, up, acks, joined,
                   handlerVars>>

\* The connection breaks: the client is told nothing, its socket is closed.
Break ==
    /\ link = "open"
    /\ Lose("dead")
    /\ UNCHANGED <<callVars, channelVars, historyVars, handlerVars>>

WorkerAccept ==
    /\ up # <<>>
    /\ up' = Tail(up)
    /\ acks' = Append(acks, AckOf[Head(up)])
    /\ joined' = (Head(up) = "subscribe")
    /\ UNCHANGED <<callVars, channelVars, historyVars, link, conn, clean,
                   handlerVars>>

WorkerReject ==
    /\ up # <<>>
    /\ up' = Tail(up)
    /\ UNCHANGED <<callVars, channelVars, historyVars, link, conn, acks,
                   joined, clean, handlerVars>>

\* An ack is dispatched to whoever waits for it on this connection.
WaitsFor(p, ack) ==
    /\ onConn[p] = conn
    /\ pc[p] = IF ack = "subscribed" THEN "waitSub" ELSE "waitUnsub"

DispatchAck ==
    /\ acks # <<>>
    /\ acks' = Tail(acks)
    /\ pc' = [p \in Callers |->
                 IF ~WaitsFor(p, Head(acks)) THEN pc[p]
                 ELSE IF Head(acks) = "subscribed" THEN "commit" ELSE "drop"]
    /\ onConn' = [p \in Callers |->
                     IF WaitsFor(p, Head(acks)) THEN 0 ELSE onConn[p]]
    /\ UNCHANGED <<arg, disconnecting, calls, overlapped, channelVars,
                   historyVars, link, conn, up, joined, clean, handlerVars>>

\* The worker sends a message, and dispatch gives it a goroutine.
Arrive(m) ==
    /\ joined
    /\ hpc[m] = "none"
    /\ hpc' = [hpc EXCEPT ![m] = "look"]
    /\ UNCHANGED <<callVars, channelVars, historyVars, linkVars, target, inbox>>

-----------------------------------------------------------------------------
(* handleIncoming and deliverMessage, for each message on its goroutine.   *)

HandlerGoto(m, from, to) ==
    /\ hpc[m] = from
    /\ hpc' = [hpc EXCEPT ![m] = to]

\* subscribed, hasChan and retain are read together.
Look(m) ==
    LET hit == subscribed /\ messageChan # NoTarget
        retain == subscribeOpts \in Retaining
    IN  /\ HandlerGoto(m, "look", CASE retain /\ hit -> "keep"
                                    [] retain /\ ~hit -> "keepOnly"
                                    [] ~retain /\ hit -> "load"
                                    [] ~retain /\ ~hit -> "done")
        /\ UNCHANGED <<callVars, channelVars, historyVars, linkVars, target,
                       inbox>>

\* The last HistoryCap messages.
LastKept(s) ==
    IF Len(s) > HistoryCap
    THEN SubSeq(s, Len(s) - HistoryCap + 1, Len(s))
    ELSE s

\* (mutant) A full history takes no more messages.
KeepWhileRoom(m) ==
    /\ \/ HandlerGoto(m, "keep", "load")
       \/ HandlerGoto(m, "keepOnly", "done")
    /\ history' = IF Len(history) < HistoryCap THEN Append(history, m)
                  ELSE history
    /\ retained' = Append(retained, m)
    /\ UNCHANGED <<callVars, channelVars, linkVars, target, inbox>>

Keep(m) ==
    /\ \/ HandlerGoto(m, "keep", "load")
       \/ HandlerGoto(m, "keepOnly", "done")
    /\ history' = LastKept(Append(history, m))
    /\ retained' = Append(retained, m)
    /\ UNCHANGED <<callVars, channelVars, linkVars, target, inbox>>

\* The filter and the target are read together, anew.
Load(m) ==
    LET hit == messageChan # NoTarget /\ m \in Passes[subscribeOpts]
    IN  /\ HandlerGoto(m, "load", IF hit THEN "send" ELSE "done")
        /\ target' = [target EXCEPT ![m] = IF hit THEN messageChan ELSE @]
        /\ UNCHANGED <<callVars, channelVars, historyVars, linkVars, inbox>>

\* A send that does not block: to a full Go channel the message is lost, and
\* so it is to one the application has closed (the panic is recovered).
Send(m) ==
    /\ HandlerGoto(m, "send", "done")
    /\ \/ /\ Len(inbox[target[m]]) < Capacity
          /\ inbox' = [inbox EXCEPT ![target[m]] = Append(@, m)]
       \/ UNCHANGED inbox
    /\ target' = [target EXCEPT ![m] = NoTarget]
    /\ UNCHANGED <<callVars, channelVars, historyVars, linkVars>>

\* The application takes a message.
Receive(g) ==
    /\ inbox[g] # <<>>
    /\ inbox' = [inbox EXCEPT ![g] = Tail(@)]
    /\ UNCHANGED <<callVars, channelVars, historyVars, linkVars, hpc,
                   target>>

-----------------------------------------------------------------------------
Call(p) ==
    \/ \E g \in Targets : SubscribeCheck(p, g)
    \/ SubscribeTake(p)
    \/ SubscribeEmit(p)
    \/ SubscribeFail(p)
    \/ SubscribeCommit(p)
    \/ Unsubscribe(p)
    \/ Disconnect(p)
    \/ ReadSubscribed(p)
    \/ UnsubscribeTest(p)
    \/ UnsubscribeEmit(p)
    \/ UnsubscribeFail(p)
    \/ UnsubscribeDrop(p)
    \/ CloseSocket(p)

Handle(m) == Arrive(m) \/ Look(m) \/ Keep(m) \/ Load(m) \/ Send(m)

\* A nil dereference in a caller ends the program.
Next ==
    /\ \A p \in Callers : pc[p] # "panic"
    /\ \/ \E p \in Callers : Call(p)
       \/ \E m \in Messages : Handle(m)
       \/ \E g \in Targets : Receive(g)
       \/ Connect
       \/ Break
       \/ WorkerAccept
       \/ WorkerReject
       \/ DispatchAck

Spec == Init /\ [][Next]_vars

-----------------------------------------------------------------------------
\* The client and the worker agree: while calls on the channel have never
\* overlapped and no request on the connection has failed, a channel that says
\* it is subscribed is one the worker delivers to, unless it is being left.
\* An ack is not matched to its request and subscribed outlives connections,
\* so this rests on Disconnect leaving every channel first.
SubscribedIsJoined ==
    /\ ~overlapped /\ clean
    /\ subscribed /\ link = "open"
    /\ \A p \in Callers : pc[p] \notin {"waitUnsub", "drop"}
    => joined

\* While calls have never overlapped, a subscribed channel has somewhere to
\* deliver, and the own user is listed as present exactly while it is
\* subscribed with EnablePresence, whatever calls failed in between.
PresenceAgrees ==
    ~overlapped =>
        /\ subscribed => messageChan # NoTarget
        /\ present <=> (subscribed /\ subscribeOpts \in Presence)

\* A message is put in a Go channel only if the filter passed to Subscribe with
\* that Go channel lets it through, even when the handler looked at one
\* subscription and delivers to the next.
FilterHonoured ==
    \A g \in Targets :
        \A i \in DOMAIN inbox[g] : inbox[g][i] \in Passes[g]

\* The local history is the last HistoryCap of the messages retained, whatever
\* handlers append at a time.
HistoryIsLatest ==
    /\ Len(history) =
           IF Len(retained) < HistoryCap THEN Len(retained) ELSE HistoryCap
    /\ \A i \in 1..Len(history) :
           history[i] = retained[Len(retained) - Len(history) + i]

\* The nil dereference between IsConnected and the use of Client.socket takes
\* two calls at a time.
PanicTakesOverlap == (\E p \in Callers : pc[p] = "panic") => overlapped

\* A live subscription is never diverted: it keeps its target and options.  And
\* a Subscribe that the worker confirms leaves the channel delivering to the Go
\* channel, and with the options, it was given itself (calls never having
\* overlapped).
SubscriptionIsStable ==
    [][/\ subscribed /\ subscribed' => UNCHANGED <<messageChan, subscribeOpts>>
       /\ \A p \in Callers :
             ~overlapped' /\ pc[p] = "commit" /\ pc'[p] = "idle" =>
                 messageChan' = arg[p] /\ subscribeOpts' = arg[p]]_vars
=============================================================================
