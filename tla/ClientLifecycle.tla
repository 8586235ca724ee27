--------------------------- MODULE ClientLifecycle ---------------------------
(***************************************************************************)
(* The connection lifecycle of Client (oddsockets/client.go): Connect,     *)
(* its failure path, scheduleReconnect, Disconnect and Close, run by any   *)
(* number of goroutines.  Client.state, Client.socket, reconnectCount and  *)
(* heartbeatTicker are read and written without a lock, so every access    *)
(* another goroutine can come between is an action of its own.             *)
(*                                                                         *)
(* A goroutine is a caller (application code, or the goroutine AutoConnect *)
(* starts) or a timer, the goroutine scheduleReconnect spawns.  Key mode   *)
(* only: minted tokens add one more way for the worker assignment to fail. *)
(***************************************************************************)
EXTENDS Naturals

CONSTANTS
    Callers,      \* goroutines that call Connect, Disconnect and Close
    Timers,       \* goroutines scheduleReconnect can have running at once
    Sockets,      \* the socketIO values Connect can create
    NoSocket,     \* nil
    MaxAttempts,  \* Client.maxReconnectAttempts
    MaxCalls      \* bound: calls the application makes

ASSUME MaxAttemptsAssumption == MaxAttempts \in Nat
ASSUME MaxCallsAssumption == MaxCalls \in Nat
ASSUME NoSocketAssumption == NoSocket \notin Sockets
ASSUME GoroutinesAssumption == Callers \cap Timers = {}

VARIABLES
    state,           \* Client.state
    reconnectCount,  \* Client.reconnectCount
    socket,          \* Client.socket
    sockets,         \* what became of each socketIO value
    heartbeat,       \* Client.heartbeatTicker # nil
    cancelled,       \* Client.ctx is cancelled: Close has been called
    event,           \* the last lifecycle event passed to emitEvent
    calls,           \* calls made so far
    pc,              \* where each goroutine is
    cur,             \* the socketIO value a goroutine holds in a local
    seen             \* the reconnectCount a goroutine has loaded

\* History: they restrict nothing and say what an execution has met.
VARIABLES
    mixed,       \* a goroutine has entered while another was inside
    overlapped   \* both were callers

history == <<mixed, overlapped>>

vars == <<state, reconnectCount, socket, sockets, heartbeat, cancelled,
          event, calls, pc, cur, seen, history>>

Goroutines == Callers \cup Timers

ConnectionState == {"Disconnected", "Connecting", "Connected", "Reconnecting"}

\* A socket is unused, open, dead (dropped by the worker: its read loop has
\* closed it) or closed by the client.
SocketStatus == {"unused", "open", "dead", "closed"}

Events == {"none", "connecting", "connected", "error", "reconnecting",
           "max_reconnect_attempts_reached", "disconnected"}

ConnectPcs == {"checkConnected", "checkConnecting", "begin", "assign", "dial",
               "install", "heartbeat", "commit", "fail", "decide",
               "schedCheck", "schedSet", "schedSpawn"}

DisconnectPcs == {"dCheck", "dStop", "dTest", "dClose", "dNil", "dFinal"}

Pcs == {"idle", "sleeping", "panicked"} \cup ConnectPcs \cup DisconnectPcs

TypeOK ==
    /\ state \in ConnectionState
    /\ reconnectCount \in Nat
    /\ socket \in Sockets \cup {NoSocket}
    /\ sockets \in [Sockets -> SocketStatus]
    /\ heartbeat \in BOOLEAN
    /\ cancelled \in BOOLEAN
    /\ event \in Events
    /\ calls \in 0 .. MaxCalls
    /\ pc \in [Goroutines -> Pcs]
    /\ cur \in [Goroutines -> Sockets \cup {NoSocket}]
    /\ seen \in [Goroutines -> Nat]
    /\ mixed \in BOOLEAN
    /\ overlapped \in BOOLEAN

\* NewClient.
Init ==
    /\ state = "Disconnected"
    /\ reconnectCount = 0
    /\ socket = NoSocket
    /\ sockets = [s \in Sockets |-> "unused"]
    /\ heartbeat = FALSE
    /\ cancelled = FALSE
    /\ event = "none"
    /\ calls = 0
    /\ pc = [p \in Goroutines |-> "idle"]
    /\ cur = [p \in Goroutines |-> NoSocket]
    /\ seen = [p \in Goroutines |-> 0]
    /\ mixed = FALSE
    /\ overlapped = FALSE

Busy(p) == pc[p] \notin {"idle", "sleeping"}

\* No goroutine is inside Connect, scheduleReconnect or Disconnect.
Quiet == \A p \in Goroutines : ~Busy(p)

\* Not even a reconnection is pending.
Quiescent == \A p \in Goroutines : pc[p] = "idle"

Goto(p, from, to) ==
    /\ pc[p] = from
    /\ pc' = [pc EXCEPT ![p] = to]

\* Recorded of each entry.  A timer that looks at the state and goes away has
\* not entered.
Watch(p) ==
    /\ mixed' = (mixed \/ (pc'[p] # "idle" /\ ~Quiet))
    /\ overlapped' =
          (overlapped \/ (p \in Callers /\ \E q \in Callers : Busy(q)))

-----------------------------------------------------------------------------
(* Connect.                                                                *)

\* The application does not call Connect again once it has called Close.
CallConnect(p) ==
    /\ p \in Callers
    /\ ~cancelled
    /\ calls < MaxCalls
    /\ calls' = calls + 1
    /\ Goto(p, "idle", "checkConnected")
    /\ Watch(p)
    /\ UNCHANGED <<state, reconnectCount, socket, sockets, heartbeat,
                   cancelled, event, cur, seen>>

CheckConnected(p) ==
    /\ Goto(p, "checkConnected",
            IF state = "Connected" THEN "idle" ELSE "checkConnecting")
    /\ UNCHANGED <<state, reconnectCount, socket, sockets, heartbeat,
                   cancelled, event, calls, cur, seen, history>>

CheckConnecting(p) ==
    /\ Goto(p, "checkConnecting",
            IF state = "Connecting" THEN "idle" ELSE "begin")
    /\ UNCHANGED <<state, reconnectCount, socket, sockets, heartbeat,
                   cancelled, event, calls, cur, seen, history>>

Begin(p) ==
    /\ Goto(p, "begin", "assign")
    /\ state' = "Connecting"
    /\ event' = "connecting"
    /\ UNCHANGED <<reconnectCount, socket, sockets, heartbeat, cancelled,
                   calls, cur, seen, history>>

\* getWorkerAssignment: the manager answers with a worker, or any of the
\* error returns is taken.
Assign(p) ==
    /\ \/ Goto(p, "assign", "dial")
       \/ Goto(p, "assign", "fail")
    /\ UNCHANGED <<state, reconnectCount, socket, sockets, heartbeat,
                   cancelled, event, calls, cur, seen, history>>

\* connectToWorker up to the return of socket.connect: the handshake completes
\* on a new socket, or fails, and then socket.connect has closed it.
Dial(p) ==
    /\ \/ \E s \in Sockets :
             /\ sockets[s] = "unused"
             /\ Goto(p, "dial", "install")
             /\ sockets' = [sockets EXCEPT ![s] = "open"]
             /\ cur' = [cur EXCEPT ![p] = s]
       \/ /\ Goto(p, "dial", "fail")
          /\ UNCHANGED <<sockets, cur>>
    /\ UNCHANGED <<state, reconnectCount, socket, heartbeat, cancelled, event,
                   calls, seen, history>>

\* c.socket = socket, with the receive path attached to it.
Install(p) ==
    /\ Goto(p, "install", "heartbeat")
    /\ socket' = cur[p]
    /\ cur' = [cur EXCEPT ![p] = NoSocket]
    /\ UNCHANGED <<state, reconnectCount, sockets, heartbeat, cancelled, event,
                   calls, seen, history>>

StartHeartbeat(p) ==
    /\ Goto(p, "heartbeat", "commit")
    /\ heartbeat' = TRUE
    /\ UNCHANGED <<state, reconnectCount, socket, sockets, cancelled, event,
                   calls, cur, seen, history>>

\* (mutant) The count survives a success.
CommitKeepsCount(p) ==
    /\ Goto(p, "commit", "idle")
    /\ state' = "Connected"
    /\ event' = "connected"
    /\ UNCHANGED <<reconnectCount, socket, sockets, heartbeat, cancelled,
                   calls, cur, seen, history>>

Commit(p) ==
    /\ Goto(p, "commit", "idle")
    /\ state' = "Connected"
    /\ reconnectCount' = 0
    /\ event' = "connected"
    /\ UNCHANGED <<socket, sockets, heartbeat, cancelled, calls, cur, seen,
                   history>>

\* (mutant) The failure path forgets setState(Disconnected).
FailKeepsState(p) ==
    /\ Goto(p, "fail", "decide")
    /\ event' = "error"
    /\ UNCHANGED <<state, reconnectCount, socket, sockets, heartbeat,
                   cancelled, calls, cur, seen, history>>

\* The failure path Connect repeats after each step that can fail.
Fail(p) ==
    /\ Goto(p, "fail", "decide")
    /\ state' = "Disconnected"
    /\ event' = "error"
    /\ UNCHANGED <<reconnectCount, socket, sockets, heartbeat, cancelled,
                   calls, cur, seen, history>>

AttemptsLeft(n) == n < MaxAttempts

Decide(p) ==
    /\ \/ /\ AttemptsLeft(reconnectCount)
          /\ Goto(p, "decide", "schedCheck")
          /\ UNCHANGED event
       \/ /\ ~AttemptsLeft(reconnectCount)
          /\ Goto(p, "decide", "idle")
          /\ event' = "max_reconnect_attempts_reached"
    /\ UNCHANGED <<state, reconnectCount, socket, sockets, heartbeat,
                   cancelled, calls, cur, seen, history>>

-----------------------------------------------------------------------------
(* scheduleReconnect, and the goroutine it spawns.                         *)

SchedCheck(p) ==
    /\ Goto(p, "schedCheck",
            IF state = "Connected" THEN "idle" ELSE "schedSet")
    /\ UNCHANGED <<state, reconnectCount, socket, sockets, heartbeat,
                   cancelled, event, calls, cur, seen, history>>

\* setState(Reconnecting), and the load half of reconnectCount++.
SchedSet(p) ==
    /\ Goto(p, "schedSet", "schedSpawn")
    /\ state' = "Reconnecting"
    /\ seen' = [seen EXCEPT ![p] = reconnectCount]
    /\ UNCHANGED <<reconnectCount, socket, sockets, heartbeat, cancelled,
                   event, calls, cur, history>>

\* (mutant) The increment is lost.
SchedSpawnUncounted(p) ==
    /\ pc[p] = "schedSpawn"
    /\ \E t \in Timers :
          /\ pc[t] = "idle"
          /\ pc' = [pc EXCEPT ![p] = "idle", ![t] = "sleeping"]
    /\ reconnectCount' = seen[p]
    /\ seen' = [seen EXCEPT ![p] = 0]
    /\ event' = "reconnecting"
    /\ UNCHANGED <<state, socket, sockets, heartbeat, cancelled, calls, cur,
                   history>>

\* The store half of reconnectCount++, the event, and the go statement.
SchedSpawn(p) ==
    /\ pc[p] = "schedSpawn"
    /\ \E t \in Timers :
          /\ pc[t] = "idle"
          /\ pc' = [pc EXCEPT ![p] = "idle", ![t] = "sleeping"]
    /\ reconnectCount' = seen[p] + 1
    /\ seen' = [seen EXCEPT ![p] = 0]
    /\ event' = "reconnecting"
    /\ UNCHANGED <<state, socket, sockets, heartbeat, cancelled, calls, cur,
                   history>>

\* The backoff has passed.  Neither Disconnect nor Close cancels the sleep.
Wake(t) ==
    /\ t \in Timers
    /\ Goto(t, "sleeping",
            IF state = "Reconnecting" THEN "checkConnected" ELSE "idle")
    /\ Watch(t)
    /\ UNCHANGED <<state, reconnectCount, socket, sockets, heartbeat,
                   cancelled, event, calls, cur, seen>>

-----------------------------------------------------------------------------
(* Disconnect and Close.                                                   *)

CallDisconnect(p) ==
    /\ p \in Callers
    /\ calls < MaxCalls
    /\ calls' = calls + 1
    /\ Goto(p, "idle", "dCheck")
    /\ Watch(p)
    /\ UNCHANGED <<state, reconnectCount, socket, sockets, heartbeat,
                   cancelled, event, cur, seen>>

CallClose(p) ==
    /\ p \in Callers
    /\ calls < MaxCalls
    /\ calls' = calls + 1
    /\ cancelled' = TRUE
    /\ Goto(p, "idle", "dCheck")
    /\ Watch(p)
    /\ UNCHANGED <<state, reconnectCount, socket, sockets, heartbeat, event,
                   cur, seen>>

DisconnectCheck(p) ==
    /\ Goto(p, "dCheck",
            IF state = "Disconnected" THEN "idle" ELSE "dStop")
    /\ UNCHANGED <<state, reconnectCount, socket, sockets, heartbeat,
                   cancelled, event, calls, cur, seen, history>>

\* (mutant) The heartbeat keeps running.
StopHeartbeatSkipped(p) ==
    /\ Goto(p, "dStop", "dTest")
    /\ UNCHANGED <<state, reconnectCount, socket, sockets, heartbeat,
                   cancelled, event, calls, cur, seen, history>>

\* stopHeartbeat.  The channels are unsubscribed between this step and the
\* next one.
StopHeartbeat(p) ==
    /\ Goto(p, "dStop", "dTest")
    /\ heartbeat' = FALSE
    /\ UNCHANGED <<state, reconnectCount, socket, sockets, cancelled, event,
                   calls, cur, seen, history>>

\* (mutant) The socket is closed without looking whether there is one.
TestSocketNever(p) ==
    /\ Goto(p, "dTest", "dClose")
    /\ cur' = [cur EXCEPT ![p] = socket]
    /\ UNCHANGED <<state, reconnectCount, socket, sockets, heartbeat,
                   cancelled, event, calls, seen, history>>

\* if c.socket != nil
TestSocket(p) ==
    /\ Goto(p, "dTest", IF socket = NoSocket THEN "dFinal" ELSE "dClose")
    /\ cur' = [cur EXCEPT ![p] = socket]
    /\ UNCHANGED <<state, reconnectCount, socket, sockets, heartbeat,
                   cancelled, event, calls, seen, history>>

\* (mutant) The transport is forgotten and not closed.
CloseSocketSkipped(p) ==
    /\ Goto(p, "dClose", "dNil")
    /\ cur' = [cur EXCEPT ![p] = NoSocket]
    /\ UNCHANGED <<state, reconnectCount, socket, sockets, heartbeat,
                   cancelled, event, calls, seen, history>>

\* c.socket.close(), on the value the test loaded or on a second load of
\* c.socket: the compiler may produce either.  A nil receiver panics.
CloseSocket(p) ==
    /\ \/ \E s \in {cur[p], socket} \ {NoSocket} :
             /\ Goto(p, "dClose", "dNil")
             /\ sockets' = [sockets EXCEPT ![s] = "closed"]
       \/ /\ socket = NoSocket
          /\ Goto(p, "dClose", "panicked")
          /\ UNCHANGED sockets
    /\ cur' = [cur EXCEPT ![p] = NoSocket]
    /\ UNCHANGED <<state, reconnectCount, socket, heartbeat, cancelled, event,
                   calls, seen, history>>

\* c.socket = nil
ForgetSocket(p) ==
    /\ Goto(p, "dNil", "dFinal")
    /\ socket' = NoSocket
    /\ UNCHANGED <<state, reconnectCount, sockets, heartbeat, cancelled, event,
                   calls, cur, seen, history>>

DisconnectDone(p) ==
    /\ Goto(p, "dFinal", "idle")
    /\ state' = "Disconnected"
    /\ event' = "disconnected"
    /\ UNCHANGED <<reconnectCount, socket, sockets, heartbeat, cancelled,
                   calls, cur, seen, history>>

-----------------------------------------------------------------------------
\* The worker, or the network, drops a socket: readLoop returns and closes it
\* (oddsockets/socket.go).  Nothing tells the Client.
WorkerDrop(s) ==
    /\ sockets[s] = "open"
    /\ sockets' = [sockets EXCEPT ![s] = "dead"]
    /\ UNCHANGED <<state, reconnectCount, socket, heartbeat, cancelled,
                   event, calls, pc, cur, seen, history>>

\* The steps that put a goroutine inside the client.
Start(p) ==
    CallConnect(p) \/ CallDisconnect(p) \/ CallClose(p) \/ Wake(p)

\* The steps of a goroutine that is inside.
Step(p) ==
    \/ CheckConnected(p) \/ CheckConnecting(p) \/ Begin(p) \/ Assign(p)
    \/ Dial(p) \/ Install(p) \/ StartHeartbeat(p) \/ Commit(p) \/ Fail(p)
    \/ Decide(p) \/ SchedCheck(p) \/ SchedSet(p) \/ SchedSpawn(p)
    \/ DisconnectCheck(p) \/ StopHeartbeat(p) \/ TestSocket(p)
    \/ CloseSocket(p) \/ ForgetSocket(p) \/ DisconnectDone(p)

\* Goroutines are scheduled as the runtime pleases.
Next ==
    \/ \E p \in Goroutines : Start(p) \/ Step(p)
    \/ \E s \in Sockets : WorkerDrop(s)

\* The runtime runs every goroutine that can run, a sleep ends, and the
\* network calls of an attempt return: each has a timeout.  Nothing forces the
\* application to call or a worker to drop.
Fairness == \A p \in Goroutines : WF_vars(Step(p) \/ Wake(p))

Spec == Init /\ [][Next]_vars

FairSpec == Spec /\ Fairness

-----------------------------------------------------------------------------
(* Properties of the executions in which nobody has entered while another  *)
(* was inside.  The client has no lock and promises no more than that; an  *)
(* application can serialise its calls, but not the backoff timers.        *)

\* The steps of an attempt that hold the state at Connecting.
AttemptPcs == {"assign", "dial", "install", "heartbeat", "commit", "fail"}

\* The steps from a failure to the end of scheduleReconnect.
AftermathPcs == {"decide", "schedCheck", "schedSet", "schedSpawn"}

\* Every live connection is the client's own, or in the hands of the attempt
\* that has just opened it: no attempt overwrites Client.socket while the
\* socket it held is open, and no Disconnect forgets one it has not closed.
NoOrphanSocket ==
    ~mixed =>
        \A s \in Sockets :
            sockets[s] = "open" =>
                \/ socket = s
                \/ \E p \in Goroutines : pc[p] = "install" /\ cur[p] = s

\* Between calls, Client.state, Client.socket and the heartbeat say the same
\* thing, so that Connect's "already connected" and Disconnect's "already
\* disconnected" early returns never skip work that is due; and the last
\* lifecycle event the application was sent tells it which state that is.
StateAgrees ==
    ~mixed /\ Quiet =>
        /\ state # "Connecting"
        /\ (state = "Connected") = (socket # NoSocket)
        /\ (state = "Connected") = heartbeat
        /\ (state = "Connected") = (event = "connected")
        /\ (state = "Reconnecting") = (event = "reconnecting")

\* reconnectCount never passes maxReconnectAttempts: the read in Connect's
\* failure path and the increment in scheduleReconnect are in different
\* functions, with the state in between.
RetryBudget == ~mixed => reconnectCount <= MaxAttempts

\* The session the application sees: a try runs from setState(Connecting) to
\* the end of its failure path, and the session is down as soon as Disconnect
\* has let the transport go.
SessionPhase ==
    IF mixed THEN "contended"
    ELSE IF \E p \in Goroutines : pc[p] \in AttemptPcs \cup AftermathPcs
    THEN "trying"
    ELSE IF \E p \in Goroutines : pc[p] = "dFinal" THEN "down"
    ELSE CASE state = "Disconnected" -> "down"
           [] state = "Connecting"   -> "trying"
           [] state = "Connected"    -> "up"
           [] state = "Reconnecting" -> "waiting"

SessionTries == IF mixed THEN 0 ELSE reconnectCount

\* An attempt that has installed its socket has not brought the session up yet.
SessionLink ==
    /\ ~mixed
    /\ socket # NoSocket
    /\ \A p \in Goroutines : pc[p] \notin AttemptPcs

Session ==
    INSTANCE ConnectionSession WITH
        Budget <- MaxAttempts,
        phase <- SessionPhase,
        tries <- SessionTries,
        link <- SessionLink

\* Until two goroutines are inside at once, the lifecycle implements the
\* session: one retry at a time, within the budget, after each failure, and a
\* link in phase "up" only; and it makes the session's progress.
ImplementsSession == Session!SessionSpec

-----------------------------------------------------------------------------
(* Properties of any interleaving.                                         *)

\* Disconnect and Close dereference a nil Client.socket only where two calls
\* of the application have overlapped: a timer that connects beside a
\* Disconnect gives it a socket and never takes one away, and the client that
\* waits for a retry, which has none, is not asked to close it.
PanicTakesOverlap ==
    (\E p \in Goroutines : pc[p] = "panicked") => overlapped

\* Connecting and Reconnecting are transient in every interleaving: some
\* goroutine is always on its way to change them.  Otherwise Connect would
\* answer "already in progress" for ever, or a retry that was announced would
\* never come.
PendingIsBacked ==
    /\ state = "Connecting" =>
          \E p \in Goroutines : pc[p] \in AttemptPcs
    /\ state = "Reconnecting" =>
          \E p \in Goroutines :
              pc[p] \in {"sleeping", "checkConnected", "checkConnecting",
                         "begin", "schedSpawn"}

\* Retrying ends: once the application has stopped calling, every goroutine,
\* the timers included, comes to rest (or has panicked).
RetriesTerminate ==
    <>[](\A p \in Goroutines : pc[p] \in {"idle", "panicked"})

\* "Close closes the client and releases all resources" (client.go): once Close
\* has been called and every goroutine has finished, nothing is left running.
ClosedReleasesAll ==
    cancelled /\ Quiescent =>
        /\ state = "Disconnected"
        /\ socket = NoSocket
        /\ ~heartbeat
        /\ \A s \in Sockets : sockets[s] # "open"

\* README.md, "99.9% uptime with automatic failover": when the transport in
\* use drops, the client comes to replace it or to report that it is down.
DropRecovered ==
    \A s \in Sockets :
        (socket = s /\ sockets[s] = "dead") ~>
            (socket # s \/ state # "Connected")
=============================================================================
