------------------------- MODULE EnhancedCallsProofs -------------------------
(***************************************************************************)
(* Proofs about EnhancedCalls, for any calls and any number of sockets.    *)
(***************************************************************************)
EXTENDS EnhancedCalls, TLAPS

-----------------------------------------------------------------------------
(* The methods and their replies.                                          *)

\* No method is in two sections of the file.
LEMMA SectionsDisjoint ==
    ASSUME NEW s \in Methods, NEW t \in Methods,
           NEW e \in DOMAIN s, e \in DOMAIN t
    PROVE  s = t
BY DEF Methods, Threads, Reactions, Rooms, DirectMessages, Notifications,
       Statuses, Edits, Searches

\* So Awaits is what the method's section says.
LEMMA Reply ==
    ASSUME NEW s \in Methods, NEW e \in DOMAIN s
    PROVE  e \in Events /\ Awaits[e] = s[e]
<1>1. e \in Events
  BY DEF Events
<1>2. (CHOOSE t \in Methods : e \in DOMAIN t) = s
  BY SectionsDisjoint
<1> QED
  BY <1>1, <1>2 DEF Awaits

\* The broadcast has the name of the reply to subscribe_thread, no query waits
\* for "error", no two wait for the same event, and none emits "publish".
LEMMA DistinctReplies ==
    /\ "subscribe_thread" \in Queries
    /\ Awaits["subscribe_thread"] = "thread_subscribed"
    /\ \A e, f \in Queries : Awaits[e] = Awaits[f] => e = f
    /\ \A e \in Queries : Awaits[e] # "error"
    /\ "publish" \notin Events
<1> USE DEF Methods, Threads, Reactions, Rooms, DirectMessages, Notifications,
            Statuses, Edits, Searches, NoReply
<1>1. /\ "subscribe_thread" \in Queries
      /\ Awaits["subscribe_thread"] = "thread_subscribed"
  <2>1. /\ Threads \in Methods
        /\ "subscribe_thread" \in DOMAIN Threads
        /\ Threads["subscribe_thread"] = "thread_subscribed"
    OBVIOUS
  <2> QED
    BY ONLY <2>1, Reply, "thread_subscribed" # "none" DEF Queries, NoReply
<1>2. ASSUME NEW e \in Queries
      PROVE  /\ Awaits[e] # "error"
             /\ \E s \in Methods : /\ e \in DOMAIN s
                                   /\ Awaits[e] = s[e]
                                   /\ s[e] # NoReply
  <2>1. PICK s \in Methods : e \in DOMAIN s
    BY DEF Queries, Events
  <2>2. Awaits[e] = s[e] /\ s[e] # NoReply
    BY <2>1, Reply DEF Queries
  <2>3. s[e] # "error"
    BY <2>1
  <2> QED
    BY <2>1, <2>2, <2>3
<1>3. ASSUME NEW s \in Methods, NEW t \in Methods,
             NEW e \in DOMAIN s, NEW f \in DOMAIN t,
             s[e] = t[f], s[e] # NoReply
      PROVE  e = f
  BY <1>3
<1>4. "publish" \notin Events
  BY DEF Events
<1>5. ASSUME NEW e \in Queries, NEW f \in Queries, Awaits[e] = Awaits[f]
      PROVE  e = f
  <2>1. PICK s \in Methods : /\ e \in DOMAIN s
                             /\ Awaits[e] = s[e]
                             /\ s[e] # NoReply
    BY ONLY <1>2
  <2>2. PICK t \in Methods : f \in DOMAIN t /\ Awaits[f] = t[f]
    BY ONLY <1>2
  <2> HIDE DEF Methods, Threads, Reactions, Rooms, DirectMessages,
               Notifications, Statuses, Edits, Searches, NoReply
  <2>3. s[e] = t[f]
    BY ONLY <1>5, <2>1, <2>2
  <2> QED
    BY ONLY <1>3, <2>1, <2>2, <2>3
<1> QED
  BY ONLY <1>1, <1>2, <1>4, <1>5

-----------------------------------------------------------------------------
(* The inductive invariant.                                                *)

\* The handlers of a call come in two kinds, each with a Go channel.
SameSlot(g, h) ==
    g.call = h.call /\ (g.event = "error") = (h.event = "error")

Slot(h) == IF h.event = "error" THEN errChan[h.call] ELSE result[h.call]

\* Of each kind a call has at most one handler, which is in the table, or
\* running, or has filled the channel; and none before it is added.
OneShot ==
    /\ \A g, h \in handlers : SameSlot(g, h) => g = h
    /\ \A h \in handlers, r \in running : ~SameSlot(h, r[1])
    /\ \A q, r \in running : SameSlot(q[1], r[1]) => q = r
    /\ \A h \in handlers : Slot(h) = Nothing
    /\ \A r \in running : Slot(r[1]) = Nothing
    /\ \A c \in Calls :
          /\ pc[c] \in {"idle", "onceResult"} =>
                /\ result[c] = Nothing
                /\ \A h \in handlers : h.call = c => h.event = "error"
                /\ \A r \in running : r[1].call = c => r[1].event = "error"
          /\ pc[c] \in {"idle", "onceResult", "onceError"} =>
                /\ errChan[c] = Nothing
                /\ \A h \in handlers : h.call = c => h.event # "error"
                /\ \A r \in running : r[1].call = c => r[1].event # "error"

\* Only queries wait and have handlers.
QueryInv ==
    /\ \A c \in Calls :
          pc[c] \in {"onceResult", "onceError", "wait"} => IsQuery(c)
    /\ \A h \in handlers : IsQuery(h.call)
    /\ \A r \in running : IsQuery(r[1].call)

\* The response handler of a query is in the table of socket s, or has fired
\* and its message is on the way.
Armed(c, s) ==
    \/ Handler(s, c, Awaits[Event[c]]) \in handlers
    \/ \E r \in running : r[1].call = c /\ r[1].event # "error"
    \/ result[c] # Nothing

\* ResultIsArmed, from the moment the handler is added: until the query emits,
\* its handler is on the client's socket, and then on the one it emitted on.
ArmedInv ==
    \A c \in Calls :
        /\ pc[c] \in {"idle", "onceResult", "onceError", "emit"} =>
              via[c] = NoSocket
        /\ IsQuery(c) /\ c \notin crossed \cup spoiled =>
              /\ pc[c] \in {"onceError", "emit"} /\ socket # NoSocket =>
                    Armed(c, socket)
              /\ pc[c] = "wait" /\ via[c] # NoSocket => Armed(c, via[c])

\* A message answers a call that was emitted, or none.
Genuine(m) == m.of # NoCall => via[m.of] # NoSocket

Fits(c, m) == m.object /\ m.about = Event[c] /\ Genuine(m)

\* Whatever is on its way to a call fits it.
DeliveryInv ==
    /\ \A s \in Sockets : \A i \in DOMAIN wire[s] : Genuine(wire[s][i])
    /\ \A r \in running : r[1].event = r[2].event /\ Genuine(r[2])
    /\ \A c \in Calls :
          /\ result[c] # Nothing =>
                IsQuery(c) /\ Fits(c, result[c])
                    /\ result[c].event = Awaits[Event[c]]
          /\ errChan[c] # Nothing =>
                IsQuery(c) /\ Fits(c, errChan[c])
                    /\ errChan[c].event = "error"
          /\ outcome[c] # Nothing =>
                IsQuery(c) /\ Fits(c, outcome[c])
                    /\ outcome[c].event \in {Awaits[Event[c]], "error"}

CallsInv == TypeOK /\ QueryInv /\ OneShot /\ ArmedInv /\ DeliveryInv

\* A handler is told by its event, and belongs to a call.
LEMMA HandlerFields ==
    ASSUME NEW h \in Handlers
    PROVE  /\ h.call \in Calls
           /\ h.on \in Sockets
           /\ h.event = "error" \/ h.event = Awaits[Event[h.call]]
BY DEF Handlers, Handler

\* The handlers a query adds.
LEMMA NewHandlers ==
    ASSUME TypeOK, socket # NoSocket, NEW c \in Calls
    PROVE  /\ Handler(socket, c, Awaits[Event[c]]) \in Handlers
           /\ Handler(socket, c, "error") \in Handlers
BY DEF TypeOK, Handlers

\* A new handler has the fields it was made with.
LEMMA NewHandlerFields ==
    ASSUME NEW c \in Calls, NEW event
    PROVE  /\ Handler(socket, c, event).call = c
           /\ Handler(socket, c, event).event = event
BY DEF Handler

\* A query does not wait for "error".
LEMMA QueryAwaits ==
    ASSUME NEW c \in Calls, IsQuery(c)
    PROVE  Awaits[Event[c]] # "error"
BY DistinctReplies DEF IsQuery

\* A message with the event that a query waits for is about that query.
LEMMA AnswerFits ==
    ASSUME NEW c \in Calls, IsQuery(c),
           NEW m \in Messages, m.event = Awaits[Event[c]]
    PROVE  m.about = Event[c]
<1> USE DEF IsQuery
<1>1. CASE m \in Answers
  <2>1. PICK d \in Calls, object \in BOOLEAN :
           IsQuery(d) /\ m = Answer(d, object)
    BY <1>1 DEF Answers
  <2>2. m.event = Awaits[Event[d]] /\ m.about = Event[d]
    BY <2>1 DEF Answer
  <2> QED
    BY <2>1, <2>2, DistinctReplies
<1>2. CASE m \in Errors
  BY <1>2, QueryAwaits DEF Errors, Error
<1>3. CASE \E object \in BOOLEAN : m = Broadcast(object)
  BY <1>3, DistinctReplies DEF Broadcast
<1>4. CASE m = OtherError
  BY <1>4, QueryAwaits DEF OtherError
<1> QED
  BY <1>1, <1>2, <1>3, <1>4 DEF Messages, Noise

\* An error is an object.
LEMMA ErrorIsObject ==
    ASSUME NEW m \in Messages, m.event = "error"
    PROVE  m.object
<1>1. m \notin Answers
  BY QueryAwaits DEF Answers, Answer
<1>2. \A object \in BOOLEAN : m # Broadcast(object)
  BY DEF Broadcast
<1> QED
  BY <1>1, <1>2 DEF Messages, Noise, Errors, Error, OtherError

\* dispatch moves the handlers that fire from the table to goroutines.
LEMMA DispatchMoves ==
    ASSUME TypeOK, NEW s \in Sockets, Dispatch(s)
    PROVE  /\ Head(wire[s]) \in Messages
           /\ wire[s] # <<>>
           /\ handlers' \subseteq handlers
           /\ \A h \in handlers :
                 h \in handlers' \/ <<h, Head(wire[s])>> \in running'
           /\ \A r \in running' :
                 \/ r \in running
                 \/ \E h \in handlers :
                       /\ h \notin handlers'
                       /\ h.event = Head(wire[s]).event
                       /\ r = <<h, Head(wire[s])>>
           /\ running \subseteq running'
<1>1. wire[s] \in Seq(Messages) /\ wire[s] # <<>>
  BY DEF TypeOK, Dispatch
<1>2. Head(wire[s]) \in Messages
  BY <1>1
<1> DEFINE m == Head(wire[s])
<1>3. /\ handlers' = handlers \ Fired(s, m)
      /\ running' = running \cup (Fired(s, m) \X {m})
  BY DEF Dispatch, Remaining
<1>4. \A h \in Fired(s, m) : h \in handlers /\ h.event = m.event
  BY DEF Fired
<1> HIDE DEF m
<1>5. \A h \in handlers : h \in handlers' \/ <<h, m>> \in running'
  BY <1>3
<1>6. \A r \in running' :
         \/ r \in running
         \/ \E h \in handlers :
               h \notin handlers' /\ h.event = m.event /\ r = <<h, m>>
  BY <1>3, <1>4
<1> QED
  BY <1>1, <1>2, <1>3, <1>5, <1>6 DEF m

\* Every action keeps the types.
LEMMA StepTypes ==
    ASSUME TypeOK, [Next]_vars
    PROVE  TypeOK'
<1> USE DEF conn, net, client, Goto, TypeOK, Pcs
<1>1. ASSUME NEW c \in Calls, Begin(c) PROVE TypeOK'
  BY <1>1 DEF Begin
<1>2. ASSUME NEW c \in Calls, Panic(c) PROVE TypeOK'
  BY <1>2 DEF Panic
<1>3. ASSUME NEW c \in Calls, OnceResult(c) PROVE TypeOK'
  BY <1>3, NewHandlers DEF OnceResult, Added
<1>4. ASSUME NEW c \in Calls, OnceError(c) PROVE TypeOK'
  BY <1>4, NewHandlers DEF OnceError, Added
<1>5. ASSUME NEW c \in Calls, Emit(c) PROVE TypeOK'
  BY <1>5 DEF Emit
<1>6. ASSUME NEW c \in Calls, TakeResult(c) PROVE TypeOK'
  BY <1>6 DEF TakeResult
<1>7. ASSUME NEW c \in Calls, TakeError(c) PROVE TypeOK'
  BY <1>7 DEF TakeError
<1>8. ASSUME NEW c \in Calls, Timeout(c) PROVE TypeOK'
  BY <1>8 DEF Timeout
<1>9. ASSUME NEW s \in Sockets, Dispatch(s) PROVE TypeOK'
  <2>1. Head(wire[s]) \in Messages /\ Tail(wire[s]) \in Seq(Messages)
    BY <1>9 DEF Dispatch
  <2>2. wire' \in [Sockets -> Seq(Messages)]
    BY <1>9, <2>1 DEF Dispatch
  <2>3. handlers' \subseteq Handlers /\ running' \subseteq Handlers \X Messages
    BY <1>9, <2>1 DEF Dispatch, Remaining, Fired
  <2> QED
    BY <1>9, <2>2, <2>3 DEF Dispatch
<1>10. ASSUME NEW s \in Sockets, InstallSocket(s) PROVE TypeOK'
  BY <1>10 DEF InstallSocket
<1>11. ASSUME NEW r \in running, RunResult(r[1], r[2]) PROVE TypeOK'
  <2>1. r[1].call \in Calls /\ r[2] \in Messages
    BY HandlerFields
  <2>2. result' \in [Calls -> Messages \cup {Nothing}]
    BY <1>11, <2>1 DEF RunResult
  <2>3. spoiled' \subseteq Calls
    BY <1>11, <2>1 DEF RunResult
  <2> QED
    BY <1>11, <2>2, <2>3 DEF RunResult
<1>12. ASSUME NEW r \in running, RunError(r[1], r[2]) PROVE TypeOK'
  BY <1>12 DEF RunError
<1>13. ASSUME NEW s \in Sockets, NEW m \in Messages, WorkerSend(s, m)
      PROVE  TypeOK'
  BY <1>13 DEF WorkerSend
<1>14. CASE CloseSocket
  BY <1>14 DEF CloseSocket
<1>15. CASE ForgetSocket
  BY <1>15 DEF ForgetSocket
<1>16. CASE UNCHANGED vars
  BY <1>16 DEF vars
<1> QED
  BY <1>1, <1>2, <1>3, <1>4, <1>5, <1>6, <1>7, <1>8,
     <1>9, <1>10, <1>11, <1>12, <1>13, <1>14, <1>15, <1>16
  DEF Next, Step

\* Only queries go on to add a handler.
LEMMA StepQuery ==
    ASSUME TypeOK, QueryInv, [Next]_vars
    PROVE  QueryInv'
<1> USE DEF conn, net, client, Goto, QueryInv, TypeOK
<1>1. ASSUME NEW c \in Calls, Begin(c) PROVE QueryInv'
  BY <1>1 DEF Begin
<1>2. ASSUME NEW c \in Calls, Panic(c) PROVE QueryInv'
  BY <1>2 DEF Panic
<1>3. ASSUME NEW c \in Calls, OnceResult(c) PROVE QueryInv'
  BY <1>3, NewHandlerFields DEF OnceResult, Added
<1>4. ASSUME NEW c \in Calls, OnceError(c) PROVE QueryInv'
  BY <1>4, NewHandlerFields DEF OnceError, Added
<1>5. ASSUME NEW c \in Calls, Emit(c) PROVE QueryInv'
  BY <1>5 DEF Emit
<1>6. ASSUME NEW c \in Calls, TakeResult(c) PROVE QueryInv'
  BY <1>6 DEF TakeResult
<1>7. ASSUME NEW c \in Calls, TakeError(c) PROVE QueryInv'
  BY <1>7 DEF TakeError
<1>8. ASSUME NEW c \in Calls, Timeout(c) PROVE QueryInv'
  BY <1>8 DEF Timeout
<1>9. ASSUME NEW s \in Sockets, Dispatch(s) PROVE QueryInv'
  <2>1. UNCHANGED pc
    BY <1>9 DEF Dispatch
  <2> QED
    BY <1>9, <2>1, DispatchMoves DEF IsQuery
<1>10. ASSUME NEW s \in Sockets, InstallSocket(s) PROVE QueryInv'
  BY <1>10 DEF InstallSocket
<1>11. ASSUME NEW r \in running, RunResult(r[1], r[2]) PROVE QueryInv'
  BY <1>11 DEF RunResult
<1>12. ASSUME NEW r \in running, RunError(r[1], r[2]) PROVE QueryInv'
  BY <1>12 DEF RunError
<1>13. ASSUME NEW s \in Sockets, NEW m \in Messages, WorkerSend(s, m)
      PROVE  QueryInv'
  BY <1>13 DEF WorkerSend
<1>14. CASE CloseSocket
  BY <1>14 DEF CloseSocket
<1>15. CASE ForgetSocket
  BY <1>15 DEF ForgetSocket
<1>16. CASE UNCHANGED vars
  BY <1>16 DEF vars
<1> QED
  BY <1>1, <1>2, <1>3, <1>4, <1>5, <1>6, <1>7, <1>8,
     <1>9, <1>10, <1>11, <1>12, <1>13, <1>14, <1>15, <1>16
  DEF Next, Step

\* A handler moves from the table to a goroutine to a channel, and never back.
LEMMA StepOneShot ==
    ASSUME TypeOK, QueryInv, OneShot, [Next]_vars
    PROVE  OneShot'
<1> USE DEF conn, net, client, Goto, QueryInv, OneShot, SameSlot, Slot, TypeOK
<1>1. ASSUME NEW c \in Calls, Begin(c) PROVE OneShot'
  BY <1>1 DEF Begin
<1>2. ASSUME NEW c \in Calls, Panic(c) PROVE OneShot'
  BY <1>2 DEF Panic
<1>3. ASSUME NEW c \in Calls, OnceResult(c) PROVE OneShot'
  <2> DEFINE new == Handler(socket, c, Awaits[Event[c]])
  <2>1. new.call = c /\ new.event # "error"
    BY <1>3, NewHandlerFields, QueryAwaits DEF OnceResult
  <2>2. handlers' = handlers \cup {new}
    BY <1>3 DEF OnceResult, Added
  <2> HIDE DEF new
  <2> QED
    BY <1>3, <2>1, <2>2, HandlerFields DEF OnceResult
<1>4. ASSUME NEW c \in Calls, OnceError(c) PROVE OneShot'
  <2> DEFINE new == Handler(socket, c, "error")
  <2>1. new.call = c /\ new.event = "error"
    BY <1>4, NewHandlerFields DEF OnceError
  <2>2. handlers' = handlers \cup {new}
    BY <1>4 DEF OnceError, Added
  <2>3. /\ pc[c] = "onceError"
        /\ pc' = [pc EXCEPT ![c] = "emit"]
        /\ UNCHANGED <<running, result, errChan>>
    BY <1>4 DEF OnceError
  <2> HIDE DEF new
  <2>4. /\ \A h \in handlers : ~SameSlot(h, new)
        /\ \A r \in running : ~SameSlot(new, r[1])
        /\ Slot(new) = Nothing
    BY <2>1, <2>3
  <2>5. \A d \in Calls : pc'[d] = pc[d] \/ (d = c /\ pc'[d] = "emit")
    BY <2>3
  <2> QED
    BY <2>1, <2>2, <2>3, <2>4, <2>5
<1>5. ASSUME NEW c \in Calls, Emit(c) PROVE OneShot'
  BY <1>5 DEF Emit
<1>6. ASSUME NEW c \in Calls, TakeResult(c) PROVE OneShot'
  BY <1>6 DEF TakeResult
<1>7. ASSUME NEW c \in Calls, TakeError(c) PROVE OneShot'
  BY <1>7 DEF TakeError
<1>8. ASSUME NEW c \in Calls, Timeout(c) PROVE OneShot'
  BY <1>8 DEF Timeout
<1>9. ASSUME NEW s \in Sockets, Dispatch(s) PROVE OneShot'
  <2> DEFINE m == Head(wire[s])
  <2>1. UNCHANGED <<pc, result, errChan>>
    BY <1>9 DEF Dispatch
  <2>2. /\ handlers' \subseteq handlers
        /\ \A r \in running' :
              \/ r \in running
              \/ \E h \in handlers : h \notin handlers' /\ r = <<h, m>>
    BY <1>9, DispatchMoves
  <2> HIDE DEF m
  <2>3. ASSUME NEW r \in running', r \notin running
        PROVE  \E h \in handlers : h \notin handlers' /\ r = <<h, m>>
    BY <2>2, <2>3
  <2>4. ASSUME NEW q \in running', NEW r \in running', SameSlot(q[1], r[1])
        PROVE  q = r
    <3>1. CASE q \in running /\ r \in running
      BY <2>4, <3>1
    <3>2. CASE q \notin running /\ r \notin running
      BY <2>3, <2>4, <3>2
    <3>3. CASE q \in running /\ r \notin running
      BY <2>3, <2>4, <3>3
    <3>4. CASE q \notin running /\ r \in running
      BY <2>3, <2>4, <3>4
    <3> QED
      BY <3>1, <3>2, <3>3, <3>4
  <2>5. \A h \in handlers', r \in running' : ~SameSlot(h, r[1])
    BY <2>2, <2>3
  <2>6. \A r \in running' : Slot(r[1]) = Nothing
    BY <2>2, <2>3
  <2>7. \A c \in Calls :
           /\ pc[c] \in {"idle", "onceResult"} =>
                 \A r \in running' : r[1].call = c => r[1].event = "error"
           /\ pc[c] \in {"idle", "onceResult", "onceError"} =>
                 \A r \in running' : r[1].call = c => r[1].event # "error"
    BY <2>2, <2>3
  <2> QED
    BY <2>1, <2>2, <2>4, <2>5, <2>6, <2>7
<1>10. ASSUME NEW s \in Sockets, InstallSocket(s) PROVE OneShot'
  BY <1>10 DEF InstallSocket
<1>11. ASSUME NEW r \in running, RunResult(r[1], r[2]) PROVE OneShot'
  <2>1. r[1] \in Handlers /\ r[1].event # "error"
    BY <1>11 DEF RunResult
  <2>2. running' \subseteq running /\ r \notin running'
    BY <1>11 DEF RunResult
  <2>3. /\ UNCHANGED <<pc, handlers, errChan>>
        /\ \A c \in Calls \ {r[1].call} : result'[c] = result[c]
    BY <1>11 DEF RunResult
  <2>4. /\ \A h \in handlers : ~SameSlot(h, r[1])
        /\ \A q \in running' : ~SameSlot(q[1], r[1])
        /\ pc[r[1].call] \notin {"idle", "onceResult"}
    BY <2>1, <2>2, HandlerFields
  <2> QED
    BY <2>1, <2>2, <2>3, <2>4, HandlerFields
<1>12. ASSUME NEW r \in running, RunError(r[1], r[2]) PROVE OneShot'
  <2>1. r[1] \in Handlers /\ r[1].event = "error"
    BY <1>12 DEF RunError
  <2>2. running' \subseteq running /\ r \notin running'
    BY <1>12 DEF RunError
  <2>3. /\ UNCHANGED <<pc, handlers, result>>
        /\ \A c \in Calls \ {r[1].call} : errChan'[c] = errChan[c]
    BY <1>12 DEF RunError
  <2>4. /\ \A h \in handlers : ~SameSlot(h, r[1])
        /\ \A q \in running' : ~SameSlot(q[1], r[1])
        /\ pc[r[1].call] \notin {"idle", "onceResult", "onceError"}
    BY <2>1, <2>2, HandlerFields
  <2> QED
    BY <2>1, <2>2, <2>3, <2>4, HandlerFields
<1>13. ASSUME NEW s \in Sockets, NEW m \in Messages, WorkerSend(s, m)
      PROVE  OneShot'
  BY <1>13 DEF WorkerSend
<1>14. CASE CloseSocket
  BY <1>14 DEF CloseSocket
<1>15. CASE ForgetSocket
  BY <1>15 DEF ForgetSocket
<1>16. CASE UNCHANGED vars
  BY <1>16 DEF vars
<1> QED
  BY <1>1, <1>2, <1>3, <1>4, <1>5, <1>6, <1>7, <1>8,
     <1>9, <1>10, <1>11, <1>12, <1>13, <1>14, <1>15, <1>16
  DEF Next, Step

\* An answer that comes at once, and the handlers of other calls, disarm none.
LEMMA StepArmed ==
    ASSUME TypeOK, QueryInv, ArmedInv, [Next]_vars
    PROVE  ArmedInv'
<1> USE DEF conn, net, client, Goto, QueryInv, ArmedInv, TypeOK, Armed
<1>1. ASSUME NEW c \in Calls, Begin(c) PROVE ArmedInv'
  BY <1>1 DEF Begin
<1>2. ASSUME NEW c \in Calls, Panic(c) PROVE ArmedInv'
  BY <1>2 DEF Panic
<1>3. ASSUME NEW c \in Calls, OnceResult(c) PROVE ArmedInv'
  BY <1>3 DEF OnceResult, Added
<1>4. ASSUME NEW c \in Calls, OnceError(c) PROVE ArmedInv'
  BY <1>4 DEF OnceError, Added
<1>5. ASSUME NEW c \in Calls, Emit(c) PROVE ArmedInv'
  BY <1>5 DEF Emit
<1>6. ASSUME NEW c \in Calls, TakeResult(c) PROVE ArmedInv'
  BY <1>6 DEF TakeResult
<1>7. ASSUME NEW c \in Calls, TakeError(c) PROVE ArmedInv'
  BY <1>7 DEF TakeError
<1>8. ASSUME NEW c \in Calls, Timeout(c) PROVE ArmedInv'
  BY <1>8 DEF Timeout
<1>9. ASSUME NEW s \in Sockets, Dispatch(s) PROVE ArmedInv'
  <2>1. UNCHANGED <<pc, result, socket, via, crossed, spoiled>>
    BY <1>9 DEF Dispatch
  <2>2. ASSUME NEW c \in Calls, NEW t, IsQuery(c), Armed(c, t)
        PROVE  Armed(c, t)'
    <3>1. CASE Handler(t, c, Awaits[Event[c]]) \in handlers
      <4> DEFINE h == Handler(t, c, Awaits[Event[c]])
      <4>1. h.call = c /\ h.event # "error"
        BY <2>2, QueryAwaits DEF Handler
      <4>2. h \in handlers' \/ <<h, Head(wire[s])>> \in running'
        BY <1>9, <3>1, DispatchMoves
      <4> HIDE DEF h
      <4>3. CASE <<h, Head(wire[s])>> \in running'
        BY <4>1, <4>3
      <4>4. CASE h \in handlers'
        BY <4>4 DEF h
      <4> QED
        BY <4>2, <4>3, <4>4
    <3> QED
      BY <1>9, <2>1, <2>2, <3>1, DispatchMoves
  <2> HIDE DEF Armed
  <2> QED
    BY <2>1, <2>2 DEF IsQuery
<1>10. ASSUME NEW s \in Sockets, InstallSocket(s) PROVE ArmedInv'
  BY <1>10 DEF InstallSocket
<1>11. ASSUME NEW r \in running, RunResult(r[1], r[2]) PROVE ArmedInv'
  <2>1. /\ r[1].call \in Calls
        /\ r[2] # Nothing
        /\ r = <<r[1], r[2]>>
    BY HandlerFields, NothingAssumption
  <2>2. /\ UNCHANGED <<pc, handlers, socket, via, crossed>>
        /\ running' = running \ {r}
        /\ spoiled \subseteq spoiled'
        /\ \/ r[1].call \in spoiled' /\ UNCHANGED result
           \/ result' = [result EXCEPT ![r[1].call] = r[2]]
    BY <1>11, <2>1 DEF RunResult
  <2>3. ASSUME NEW c \in Calls, NEW t, Armed(c, t), c \notin spoiled'
        PROVE  Armed(c, t)'
    <3>1. c = r[1].call => result'[c] # Nothing
      BY <2>1, <2>2, <2>3
    <3>2. c # r[1].call => result'[c] = result[c]
      BY <2>1, <2>2
    <3>3. \A q \in running : q \in running' \/ q = r
      BY <2>2
    <3> QED
      BY <2>2, <2>3, <3>1, <3>2, <3>3
  <2> HIDE DEF Armed
  <2> QED
    BY <2>2, <2>3 DEF IsQuery
<1>12. ASSUME NEW r \in running, RunError(r[1], r[2]) PROVE ArmedInv'
  BY <1>12 DEF RunError
<1>13. ASSUME NEW s \in Sockets, NEW m \in Messages, WorkerSend(s, m)
      PROVE  ArmedInv'
  BY <1>13 DEF WorkerSend
<1>14. CASE CloseSocket
  BY <1>14 DEF CloseSocket
<1>15. CASE ForgetSocket
  BY <1>15 DEF ForgetSocket
<1>16. CASE UNCHANGED vars
  BY <1>16 DEF vars
<1> QED
  BY <1>1, <1>2, <1>3, <1>4, <1>5, <1>6, <1>7, <1>8,
     <1>9, <1>10, <1>11, <1>12, <1>13, <1>14, <1>15, <1>16
  DEF Next, Step

\* What is on its way to a call fits it, as the event tells the method.
LEMMA StepDelivery ==
    ASSUME TypeOK, QueryInv, DeliveryInv, [Next]_vars
    PROVE  DeliveryInv'
<1> USE DEF conn, net, client, Goto, QueryInv, DeliveryInv, TypeOK, Fits,
            Genuine
<1>1. ASSUME NEW c \in Calls, Begin(c) PROVE DeliveryInv'
  BY <1>1 DEF Begin
<1>2. ASSUME NEW c \in Calls, Panic(c) PROVE DeliveryInv'
  BY <1>2 DEF Panic
<1>3. ASSUME NEW c \in Calls, OnceResult(c) PROVE DeliveryInv'
  BY <1>3 DEF OnceResult
<1>4. ASSUME NEW c \in Calls, OnceError(c) PROVE DeliveryInv'
  BY <1>4 DEF OnceError
<1>5. ASSUME NEW c \in Calls, Emit(c) PROVE DeliveryInv'
  <2>1. \A d \in Calls : via[d] # NoSocket => via'[d] # NoSocket
    BY <1>5, SocketAssumption DEF Emit
  <2>2. \A m \in Messages : Genuine(m) => Genuine(m)'
    BY <2>1 DEF Messages, Answers, Errors, Noise, Answer, Error, Broadcast,
                OtherError
  <2>3. UNCHANGED <<running, result, errChan, outcome, wire>>
    BY <1>5 DEF Emit
  <2>4. \A t \in Sockets : \A i \in DOMAIN wire[t] : wire[t][i] \in Messages
    OBVIOUS
  <2> HIDE DEF Genuine
  <2> QED
    BY <2>2, <2>3, <2>4, NothingAssumption DEF IsQuery
<1>6. ASSUME NEW c \in Calls, TakeResult(c) PROVE DeliveryInv'
  BY <1>6 DEF TakeResult
<1>7. ASSUME NEW c \in Calls, TakeError(c) PROVE DeliveryInv'
  BY <1>7 DEF TakeError
<1>8. ASSUME NEW c \in Calls, Timeout(c) PROVE DeliveryInv'
  BY <1>8 DEF Timeout
<1>9. ASSUME NEW s \in Sockets, Dispatch(s) PROVE DeliveryInv'
  <2> DEFINE m == Head(wire[s])
  <2>1. Genuine(m)
    BY <1>9, DispatchMoves
  <2>2. UNCHANGED <<result, errChan, outcome, via>>
    BY <1>9 DEF Dispatch
  <2>3. ASSUME NEW t \in Sockets, NEW i \in DOMAIN wire'[t]
        PROVE  Genuine(wire'[t][i])
    <3>1. CASE t # s
      BY <1>9, <2>3, <3>1 DEF Dispatch
    <3>2. CASE t = s
      <4>1. /\ wire'[t] = Tail(wire[s])
            /\ wire[s] \in Seq(Messages) /\ wire[s] # <<>>
        BY <1>9, <3>2 DEF Dispatch
      <4>2. i + 1 \in DOMAIN wire[s] /\ wire'[t][i] = wire[s][i + 1]
        BY <2>3, <4>1
      <4> QED
        BY <4>2
    <3> QED
      BY <3>1, <3>2
  <2>4. \A r \in running' : r[1].event = r[2].event /\ Genuine(r[2])
    BY <1>9, <2>1, DispatchMoves
  <2> HIDE DEF Genuine, m
  <2>5. (\A x : Genuine(x) <=> Genuine(x)')
    BY <2>2 DEF Genuine
  <2> QED
    BY <2>2, <2>3, <2>4, <2>5 DEF IsQuery
<1>10. ASSUME NEW s \in Sockets, InstallSocket(s) PROVE DeliveryInv'
  BY <1>10 DEF InstallSocket
<1>11. ASSUME NEW r \in running, RunResult(r[1], r[2]) PROVE DeliveryInv'
  <2> DEFINE c == r[1].call
  <2>1. /\ UNCHANGED <<wire, via, errChan, outcome>>
        /\ r[1].event # "error"
    BY <1>11 DEF RunResult
  <2>4. running' \subseteq running
    BY <1>11 DEF RunResult
  <2>5. \/ r[2].object /\ result' = [result EXCEPT ![c] = r[2]]
        \/ UNCHANGED result
    BY <1>11 DEF RunResult
  <2>2. /\ c \in Calls /\ IsQuery(c)
        /\ r[2] \in Messages /\ r[2].event = Awaits[Event[c]]
    BY <2>1, HandlerFields
  <2>3. r[2].object => Fits(c, r[2])
    BY <2>2, AnswerFits
  <2> QED
    BY <2>1, <2>2, <2>3, <2>4, <2>5 DEF IsQuery
<1>12. ASSUME NEW r \in running, RunError(r[1], r[2]) PROVE DeliveryInv'
  <2> DEFINE c == r[1].call
  <2>1. /\ UNCHANGED <<wire, via, result, outcome>>
        /\ r[1].event = "error"
    BY <1>12 DEF RunError
  <2>2. running' \subseteq running
    BY <1>12 DEF RunError
  <2>3. \/ /\ r[2].about = Event[c]
           /\ errChan' = [errChan EXCEPT ![c] = r[2]]
        \/ UNCHANGED errChan
    BY <1>12 DEF RunError, Concerns
  <2>4. /\ c \in Calls /\ IsQuery(c)
        /\ r[2] \in Messages /\ r[2].event = "error"
    BY <2>1, HandlerFields
  <2>5. r[2].object /\ Genuine(r[2])
    BY <2>4, ErrorIsObject
  <2> QED
    BY <2>1, <2>2, <2>3, <2>4, <2>5 DEF IsQuery
<1>13. ASSUME NEW s \in Sockets, NEW m \in Messages, WorkerSend(s, m)
      PROVE  DeliveryInv'
  <2>1. UNCHANGED <<running, result, errChan, outcome, via>>
    BY <1>13 DEF WorkerSend
  <2>2. Genuine(m)
    BY <1>13, SocketAssumption DEF WorkerSend
  <2>3. ASSUME NEW t \in Sockets, NEW i \in DOMAIN wire'[t]
        PROVE  Genuine(wire'[t][i])
    <3>1. CASE t # s
      BY <1>13, <2>3, <3>1 DEF WorkerSend
    <3>2. CASE t = s
      <4>1. wire'[t] = Append(wire[s], m) /\ wire[s] \in Seq(Messages)
        BY <1>13, <3>2 DEF WorkerSend
      <4>2. \/ wire'[t][i] = m
            \/ i \in DOMAIN wire[s] /\ wire'[t][i] = wire[s][i]
        BY <2>3, <4>1
      <4> QED
        BY <2>2, <4>2
    <3> QED
      BY <3>1, <3>2
  <2> HIDE DEF Genuine
  <2>4. (\A x : Genuine(x) <=> Genuine(x)')
    BY <2>1 DEF Genuine
  <2> QED
    BY <2>1, <2>3, <2>4 DEF IsQuery
<1>14. CASE CloseSocket
  BY <1>14 DEF CloseSocket
<1>15. CASE ForgetSocket
  BY <1>15 DEF ForgetSocket
<1>16. CASE UNCHANGED vars
  BY <1>16 DEF vars
<1> QED
  BY <1>1, <1>2, <1>3, <1>4, <1>5, <1>6, <1>7, <1>8,
     <1>9, <1>10, <1>11, <1>12, <1>13, <1>14, <1>15, <1>16
  DEF Next, Step

-----------------------------------------------------------------------------
(* The theorems.                                                           *)

\* Before the first call nothing is in any table, channel or wire.
LEMMA InitInv == ASSUME Init PROVE CallsInv
<1>1. TypeOK
  BY DEF Init, TypeOK, Pcs
<1>2. QueryInv /\ ArmedInv
  BY DEF Init, QueryInv, ArmedInv
<1>3. OneShot
  BY DEF Init, OneShot
<1>4. DeliveryInv
  BY DEF Init, DeliveryInv
<1> QED
  BY <1>1, <1>2, <1>3, <1>4 DEF CallsInv

\* Every action keeps the invariant.
LEMMA StepInv == ASSUME CallsInv, [Next]_vars PROVE CallsInv'
BY StepTypes, StepQuery, StepOneShot, StepArmed, StepDelivery DEF CallsInv

\* The invariant holds of every run.
LEMMA CallsInvariant == Spec => []CallsInv
BY InitInv, StepInv, PTL DEF Spec

\* The channels, the tables and the goroutines hold what they are declared to.
THEOREM EnhancedTypes == Spec => []TypeOK
<1>1. CallsInv => TypeOK
  BY DEF CallsInv
<1> QED
  BY CallsInvariant, <1>1, PTL

\* No listener of any query ever blocks on its channel, with any number of
\* calls for the same event and however late the messages come.
THEOREM HandlersNeverBlock == Spec => []SendNeverBlocks
<1>1. CallsInv => SendNeverBlocks
  BY DEF CallsInv, OneShot, Slot, SendNeverBlocks
<1> QED
  BY CallsInvariant, <1>1, PTL

\* A query that waits for what it has emitted has its response listener armed
\* on the socket it emitted on, or its answer coming, unless another socket was
\* installed under it or the listener was spent on a payload that is no object.
THEOREM QueriesArmed == Spec => []ResultIsArmed
<1>1. CallsInv => ResultIsArmed
  BY DEF CallsInv, QueryInv, ArmedInv, Armed, ResultIsArmed
<1> QED
  BY CallsInvariant, <1>1, PTL

-----------------------------------------------------------------------------
(* The refinement of RequestReply.                                         *)

\* A step of one call that moves it on.
LEMMA PhaseMoves ==
    ASSUME TypeOK, NEW c \in Calls, NEW from, NEW to, Goto(c, from, to)
    PROVE  /\ c \in DOMAIN CallPhase
           /\ CallPhase[c] = PhaseAt(from)
           /\ CallPhase' = [CallPhase EXCEPT ![c] = PhaseAt(to)]
<1>1. pc' = [pc EXCEPT ![c] = to] /\ pc \in [Calls -> Pcs] /\ pc[c] = from
  BY DEF Goto, TypeOK
<1>2. \A d \in Calls : pc'[d] = IF d = c THEN to ELSE pc[d]
  BY <1>1
<1> QED
  BY <1>1, <1>2 DEF CallPhase

\* The calls that have been asked, as the abstract call counts them.
Asked == {c \in Calls : via[c] # NoSocket}

\* A step that leaves a call open leaves its phase alone.
LEMMA StaysOpen ==
    ASSUME TypeOK, NEW c \in Calls, NEW from, NEW to, Goto(c, from, to),
           PhaseAt(from) = "open", PhaseAt(to) = "open"
    PROVE  CallPhase' = CallPhase /\ CallPhase[c] = "open"
<1>1. CallPhase' = [CallPhase EXCEPT ![c] = "open"] /\ CallPhase[c] = "open"
  BY PhaseMoves
<1> QED
  BY <1>1 DEF CallPhase

\* What is in the channels of a call fits it, and answers what was asked.
LEMMA FittingReply ==
    ASSUME CallsInv, NEW c \in Calls, NEW m \in Messages, IsQuery(c),
           Fits(c, m), m.event \in {Awaits[Event[c]], "error"}
    PROVE  m \in CallFitting[c] /\ m.of \in Calls \cup {NoCall}
               /\ {m.of} \ {NoCall} \subseteq Asked
<1>1. m.of \in Calls \cup {NoCall}
  BY DEF Messages, Answers, Errors, Noise, Answer, Error, Broadcast, OtherError
<1>2. m \in CallFitting[c]
  BY DEF CallFitting, Fits
<1> QED
  BY <1>1, <1>2 DEF Asked, Fits, Genuine

\* Every action is a step of the abstract call, or none.
LEMMA StepImplements ==
    ASSUME CallsInv, [Next]_vars
    PROVE  [Call!CallNext]_(Call!callVars)
<1> USE DEF conn, net, client, CallsInv, PhaseAt
<1> DEFINE Quiet == UNCHANGED <<CallPhase, Asked, outcome>>
<1>a. ASSUME UNCHANGED <<pc, via, outcome>> PROVE Quiet
  BY <1>a DEF CallPhase, Asked
<1>1. ASSUME NEW c \in Calls, Begin(c) PROVE Call!Open(c) \/ Call!Fail(c)
  <2>1. /\ UNCHANGED <<outcome, Asked>>
        /\ \/ Goto(c, "idle", "done")
           \/ Goto(c, "idle", "onceResult")
           \/ Goto(c, "idle", "emit")
    BY <1>1 DEF Begin, Asked
  <2> QED
    BY <2>1, PhaseMoves DEF Call!Open, Call!Fail, Call!Move, Asked
<1>2. ASSUME NEW c \in Calls, Panic(c) PROVE Quiet
  <2>1. PICK at \in {"onceResult", "onceError", "emit"} : Goto(c, at, "panic")
    BY <1>2 DEF Panic
  <2> QED
    BY <1>2, <2>1, StaysOpen DEF Panic, Asked
<1>3. ASSUME NEW c \in Calls, OnceResult(c) PROVE Quiet
  BY <1>3, StaysOpen DEF OnceResult, Asked
<1>4. ASSUME NEW c \in Calls, OnceError(c) PROVE Quiet
  BY <1>4, StaysOpen DEF OnceError, Asked
<1>5. ASSUME NEW c \in Calls, Emit(c)
      PROVE  Call!Ask(c) \/ Call!Post(c) \/ Call!Fail(c) \/ Quiet
  <2>1. (Asked' = Asked \cup {c} \/ UNCHANGED Asked) /\ UNCHANGED outcome
    <3>1. CASE via' = [via EXCEPT ![c] = socket]
      <4>1. \A d \in Calls : via'[d] = IF d = c THEN socket ELSE via[d]
        BY <3>1 DEF TypeOK
      <4> QED
        BY <1>5, <4>1 DEF Asked, Emit
    <3>2. CASE UNCHANGED via
      BY <1>5, <3>2 DEF Asked, Emit
    <3> QED
      BY <1>5, <3>1, <3>2 DEF Emit
  <2>2. CASE Goto(c, "emit", "wait")
    BY <2>1, <2>2, StaysOpen DEF Call!Ask, Asked
  <2>3. CASE Goto(c, "emit", "done")
    BY <2>1, <2>3, PhaseMoves DEF Call!Post, Call!Fail, Call!Move, Asked
  <2> QED
    BY <1>5, <2>2, <2>3 DEF Emit
<1>6. ASSUME NEW c \in Calls, NEW m,
             m \in Messages, IsQuery(c), Fits(c, m),
             m.event \in {Awaits[Event[c]], "error"},
             Goto(c, "wait", "done"), outcome' = [outcome EXCEPT ![c] = m],
             UNCHANGED via
      PROVE  Call!Return(c)
  <2>1. /\ m \in CallFitting[c]
        /\ [n \in Messages |-> {n.of} \ {NoCall}][m] \subseteq Asked
    BY <1>6, FittingReply
  <2>2. /\ CallPhase[c] = "open"
        /\ CallPhase' = [CallPhase EXCEPT ![c] = "returned"]
    BY <1>6, PhaseMoves
  <2>3. UNCHANGED Asked
    BY <1>6 DEF Asked
  <2> QED
    BY <1>6, <2>1, <2>2, <2>3 DEF Call!Return, Call!Move, Asked
<1>7. ASSUME NEW c \in Calls, TakeResult(c) PROVE Call!Return(c)
  BY <1>6, <1>7 DEF TakeResult, DeliveryInv, TypeOK
<1>8. ASSUME NEW c \in Calls, TakeError(c) PROVE Call!Return(c)
  BY <1>6, <1>8 DEF TakeError, DeliveryInv, TypeOK
<1>9. ASSUME NEW c \in Calls, Timeout(c) PROVE Call!Fail(c)
  BY <1>9, PhaseMoves DEF Timeout, Call!Fail, Call!Move, Asked
<1>10. ASSUME NEW s \in Sockets, Dispatch(s) \/ InstallSocket(s) PROVE Quiet
  BY <1>a, <1>10 DEF Dispatch, InstallSocket
<1>11. ASSUME NEW r \in running, RunResult(r[1], r[2]) \/ RunError(r[1], r[2])
       PROVE  Quiet
  BY <1>a, <1>11 DEF RunResult, RunError
<1>12. ASSUME NEW s \in Sockets, NEW m \in Messages, WorkerSend(s, m)
       PROVE  Quiet
  BY <1>a, <1>12 DEF WorkerSend
<1>13. ASSUME CloseSocket \/ ForgetSocket \/ UNCHANGED vars PROVE Quiet
  BY <1>a, <1>13 DEF CloseSocket, ForgetSocket, vars
<1>14. Quiet => UNCHANGED Call!callVars
  BY DEF Call!callVars, Asked
<1> HIDE DEF Quiet
<1> QED
  BY <1>1, <1>2, <1>3, <1>4, <1>5, <1>7, <1>8, <1>9, <1>10, <1>11, <1>12,
     <1>13, <1>14
  DEF Next, Step, Call!CallNext

\* Across lost and replaced sockets, a call returns once, with a reply of its
\* method that was asked for, and what comes after it has returned is not taken.
THEOREM MethodsAreCalls == Spec => ImplementsCalls
<1>1. Init => Call!CallInit
  BY DEF Init, Call!CallInit, CallPhase, PhaseAt
<1>2. CallsInv /\ [Next]_vars => [Call!CallNext]_(Call!callVars)
  BY StepImplements
<1> QED
  BY <1>1, <1>2, CallsInvariant, PTL DEF Spec, ImplementsCalls, Call!CallSafety

\* Where no two queries have the same method, as when the application makes one
\* call of a method at a time, a query returns the answer to itself or an error
\* about itself, or, if it is subscribe_thread, the broadcast of that name.
OwnOutcome ==
    \A c \in Calls :
        outcome[c] # Nothing =>
            outcome[c] \in {Answer(c, TRUE), Error(c), Broadcast(TRUE)}

THEOREM DistinctQueriesGetTheirOwn ==
    ASSUME \A c, d \in Calls : Event[c] = Event[d] => c = d
    PROVE  Spec => []OwnOutcome
<1>0. \A c, d \in Calls : Event[c] = Event[d] => c = d
  OBVIOUS
<1>1. ASSUME CallsInv, NEW c \in Calls, outcome[c] # Nothing
      PROVE  outcome[c] \in {Answer(c, TRUE), Error(c), Broadcast(TRUE)}
  <2>1. /\ outcome[c] \in Messages
        /\ outcome[c].about = Event[c]
        /\ outcome[c].object
    BY <1>1 DEF CallsInv, TypeOK, DeliveryInv, Fits
  <2>2. Event[c] # "publish"
    BY DistinctReplies, EventAssumption
  <2>3. CASE outcome[c] \in Answers
    <3>1. PICK d \in Calls, object \in BOOLEAN :
             outcome[c] = Answer(d, object)
      BY <2>3 DEF Answers
    <3>2. Event[d] = Event[c] /\ object
      BY <2>1, <3>1 DEF Answer
    <3> QED
      BY <3>1, <3>2, <1>0
  <2>4. CASE outcome[c] \in Errors
    <3>1. PICK d \in Calls : outcome[c] = Error(d)
      BY <2>4 DEF Errors
    <3>2. Event[d] = Event[c]
      BY <2>1, <3>1 DEF Error
    <3> QED
      BY <3>1, <3>2, <1>0
  <2>5. CASE outcome[c] \in Noise
    <3>1. outcome[c] # OtherError
      BY <2>1, <2>2 DEF OtherError
    <3>2. PICK object \in BOOLEAN : outcome[c] = Broadcast(object)
      BY <2>5, <3>1 DEF Noise
    <3>3. object
      BY <2>1, <3>2 DEF Broadcast
    <3> QED
      BY <3>2, <3>3
  <2> QED
    BY <2>1, <2>3, <2>4, <2>5 DEF Messages
<1>2. CallsInv => OwnOutcome
  BY <1>1 DEF OwnOutcome
<1> QED
  BY CallsInvariant, <1>2, PTL
=============================================================================
