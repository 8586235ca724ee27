------------------------ MODULE SocketRequestsProofs ------------------------
(***************************************************************************)
(* Proofs about SocketRequests, for any set of calls, methods and channels *)
(* and any worker.                                                         *)
(***************************************************************************)
EXTENDS SocketRequests, TLAPS

\* The names of the events tell the methods apart.
LEMMA RespEventInjective ==
    /\ \A k \in Kinds : RespEvent[k] # "error"
    /\ \A k, l \in Kinds : RespEvent[k] = RespEvent[l] => k = l
    /\ \A k \in Kinds : RespEvent[k] = "history" => k = "get_history"
BY DEF RespEvent, Kinds

\* A message the worker has had reason to send.
Genuine(m) ==
    \/ \E d \in emitted : m \in {Answer(d), Error(d)}
    \/ \E d \in emitted : Kind[d] = "subscribe" /\ m = Snapshot(d)

\* A message that answers a call like c.
Kindred(c, m) == \E d \in emitted : SameKey(c, d) /\ m = Answer(d)

\* An error about a call that was made, whichever it is.
Refusal(m) == \E d \in emitted : m = Error(d)

\* Everything on its way to the client is genuine, and what a handler of a call
\* is run with, or has put in a Go channel, is of the right kind.
DeliveryInv ==
    /\ \A i \in DOMAIN wire : Genuine(wire[i])
    /\ \A h \in Handlers, m \in Messages :
          <<h, m>> \in running =>
              IF h.event = "error" THEN Refusal(m)
              ELSE Kindred(h.call, m)
    /\ \A c \in Calls : resCh[c] # Nothing => Kindred(c, resCh[c])
    /\ \A c \in Calls : errCh[c] # Nothing => Refusal(errCh[c])
    /\ \A c \in Calls :
          outcome[c] # Nothing => Kindred(c, outcome[c]) \/ Refusal(outcome[c])

\* Which handlers a call has, from where it is.
TableInv ==
    \A c \in Calls :
        /\ pc[c] \in {"idle", "offErr", "done"} => Resp(c) \notin handlers
        /\ pc[c] \in {"idle", "addErr", "done"} => Err(c) \notin handlers

\* WaitingIsArmed from the moment each handler is added.
Armed(h, c, ch) ==
    \/ h \in handlers
    \/ \E m \in Messages : <<h, m>> \in running
    \/ ch[c] # Nothing

ArmedInv ==
    \A c \in Calls :
        /\ pc[c] \in {"addErr", "emit", "wait"} => Armed(Resp(c), c, resCh)
        /\ pc[c] \in {"emit", "wait"} => Armed(Err(c), c, errCh)

\* Handlers are told apart by their call and their event.
LEMMA HandlersDistinct ==
    /\ \A c, d \in Calls : (Resp(c) = Resp(d) \/ Err(c) = Err(d)) => c = d
    /\ \A c, d \in Calls : Resp(c) # Err(d)
    /\ \A c \in Calls : /\ Resp(c).call = c /\ Err(c).call = c
                        /\ Resp(c).event # "error" /\ Err(c).event = "error"
BY RespEventInjective, KindAssumption DEF Resp, Err, Handler

\* Every action keeps the types.
LEMMA StepTypes == TypeOK /\ [Next]_vars => TypeOK'
<1> SUFFICES ASSUME TypeOK, [Next]_vars PROVE TypeOK'
    OBVIOUS
<1> USE DEF TypeOK, Goto, Pcs
<1>1. ASSUME NEW c \in Calls, AddResp(c) PROVE TypeOK'
  BY <1>1 DEF AddResp, Handlers
<1>2. ASSUME NEW c \in Calls, Step(c) PROVE TypeOK'
  <2>1. CASE AddErr(c)
    BY <2>1 DEF AddErr, Handlers
  <2>2. CASE Emit(c)
    BY <2>2 DEF Emit
  <2>3. CASE TakeResponse(c)
    BY <2>3 DEF TakeResponse
  <2>4. CASE TakeError(c)
    BY <2>4 DEF TakeError
  <2>5. CASE Timeout(c)
    BY <2>5 DEF Timeout
  <2>6. CASE OffResp(c)
    BY <2>6 DEF OffResp, Without
  <2>7. CASE OffErr(c)
    BY <2>7 DEF OffErr, Without
  <2> QED
    BY <1>2, <2>1, <2>2, <2>3, <2>4, <2>5, <2>6, <2>7 DEF Step
<1>3. ASSUME NEW c \in Calls, WorkerAnswer(c) PROVE TypeOK'
  <2>1. Answer(c) \in Messages /\ Error(c) \in Messages
    BY DEF Messages
  <2>2. wire' \in Seq(Messages)
    BY <1>3, <2>1 DEF WorkerAnswer
  <2> QED
    BY <1>3, <2>2 DEF WorkerAnswer
<1>4. ASSUME NEW c \in Calls, WorkerSnapshot(c) PROVE TypeOK'
  <2>1. Snapshot(c) \in Messages
    BY DEF Messages
  <2>2. wire' \in Seq(Messages)
    BY <1>4, <2>1 DEF WorkerSnapshot
  <2> QED
    BY <1>4, <2>2 DEF WorkerSnapshot
<1>5. CASE Dispatch
  <2>1. Head(wire) \in Messages /\ Tail(wire) \in Seq(Messages)
    BY <1>5 DEF Dispatch
  <2>2. Fired(Head(wire)) \subseteq Handlers
    BY DEF Fired
  <2> QED
    BY <1>5, <2>1, <2>2 DEF Dispatch
<1>6. ASSUME NEW h \in Handlers, NEW m \in Messages, RunHandler(h, m)
      PROVE  TypeOK'
  BY <1>6 DEF RunHandler, Put
<1>7. CASE Close \/ UNCHANGED vars
  BY <1>7 DEF Close, vars
<1> QED
  BY <1>1, <1>2, <1>3, <1>4, <1>5, <1>6, <1>7 DEF Next

\* Every action keeps the handler table in step with the calls.
LEMMA StepTable == TypeOK /\ TableInv /\ [Next]_vars => TableInv'
<1> SUFFICES ASSUME TypeOK, TableInv, [Next]_vars PROVE TableInv'
    OBVIOUS
<1> USE HandlersDistinct DEF TypeOK, TableInv, Goto
<1>1. ASSUME NEW c \in Calls, AddResp(c) PROVE TableInv'
  BY <1>1 DEF AddResp
<1>2. ASSUME NEW c \in Calls, Step(c) PROVE TableInv'
  <2>1. CASE AddErr(c)
    BY <2>1 DEF AddErr
  <2>2. CASE Emit(c)
    BY <2>2 DEF Emit
  <2>3. CASE TakeResponse(c) \/ TakeError(c) \/ Timeout(c)
    BY <2>3 DEF TakeResponse, TakeError, Timeout
  <2>4. CASE OffResp(c)
    BY <2>4 DEF OffResp, Without
  <2>5. CASE OffErr(c)
    BY <2>5 DEF OffErr, Without
  <2> QED
    BY <1>2, <2>1, <2>2, <2>3, <2>4, <2>5 DEF Step
<1>3. ASSUME NEW c \in Calls, WorkerAnswer(c) \/ WorkerSnapshot(c)
      PROVE  TableInv'
  BY <1>3 DEF WorkerAnswer, WorkerSnapshot
<1>4. CASE Dispatch
  BY <1>4 DEF Dispatch
<1>5. ASSUME NEW h \in Handlers, NEW m \in Messages, RunHandler(h, m)
      PROVE  TableInv'
  BY <1>5 DEF RunHandler
<1>6. CASE Close \/ UNCHANGED vars
  BY <1>6 DEF Close, vars
<1> QED
  BY <1>1, <1>2, <1>3, <1>4, <1>5, <1>6 DEF Next

\* Every action keeps the calls that wait, or are about to, armed.
LEMMA StepArmed == TypeOK /\ ArmedInv /\ [Next]_vars => ArmedInv'
<1> SUFFICES ASSUME TypeOK, ArmedInv, [Next]_vars PROVE ArmedInv'
    OBVIOUS
<1> USE HandlersDistinct DEF TypeOK, ArmedInv, Armed, Goto
<1>1. ASSUME NEW c \in Calls, AddResp(c) PROVE ArmedInv'
  BY <1>1 DEF AddResp
<1>2. ASSUME NEW c \in Calls, Step(c) PROVE ArmedInv'
  <2>1. CASE AddErr(c)
    BY <2>1 DEF AddErr
  <2>2. CASE Emit(c)
    BY <2>2 DEF Emit
  <2>3. CASE TakeResponse(c)
    BY <2>3 DEF TakeResponse
  <2>4. CASE TakeError(c)
    BY <2>4 DEF TakeError
  <2>5. CASE Timeout(c)
    BY <2>5 DEF Timeout
  <2>6. CASE OffResp(c)
    BY <2>6 DEF OffResp, Without
  <2>7. CASE OffErr(c)
    BY <2>7 DEF OffErr, Without
  <2> QED
    BY <1>2, <2>1, <2>2, <2>3, <2>4, <2>5, <2>6, <2>7 DEF Step
<1>3. ASSUME NEW c \in Calls, WorkerAnswer(c) \/ WorkerSnapshot(c)
      PROVE  ArmedInv'
  BY <1>3 DEF WorkerAnswer, WorkerSnapshot
<1>4. CASE Dispatch
  <2>1. Head(wire) \in Messages
    BY <1>4 DEF Dispatch
  <2>2. \A h \in handlers :
            h \in handlers' \/ \E m \in Messages : <<h, m>> \in running'
    BY <1>4, <2>1 DEF Dispatch, Fired
  <2>3. running \subseteq running' /\ UNCHANGED <<pc, resCh, errCh>>
    BY <1>4 DEF Dispatch
  <2> QED
    BY <2>2, <2>3
<1>5. ASSUME NEW h \in Handlers, NEW m \in Messages, RunHandler(h, m)
      PROVE  ArmedInv'
  <2>1. m # Nothing
    BY NothingAssumption
  <2>2. PICK d \in Calls : h = Resp(d) \/ h = Err(d)
    BY DEF Handlers
  <2>3. \A g \in handlers : g \in handlers'
    BY <1>5 DEF RunHandler
  <2>4. \A g \in Handlers \ {h} :
            (\E n \in Messages : <<g, n>> \in running) =>
                (\E n \in Messages : <<g, n>> \in running')
    BY <1>5 DEF RunHandler
  <2>5. \A c \in Calls :
            /\ resCh[c] # Nothing => resCh'[c] # Nothing
            /\ errCh[c] # Nothing => errCh'[c] # Nothing
    BY <1>5, <2>1 DEF RunHandler, Put
  <2>6. CASE h = Resp(d)
    <3>1. resCh'[d] # Nothing
      BY <1>5, <2>1, <2>6 DEF RunHandler, Put
    <3>2. \A c \in Calls : Err(c) \in Handlers \ {h}
      BY <2>6 DEF Handlers
    <3>3. \A c \in Calls \ {d} : Resp(c) \in Handlers \ {h}
      BY <2>6 DEF Handlers
    <3>4. UNCHANGED pc
      BY <1>5 DEF RunHandler
    <3>5. \A c \in Calls : pc[c] \in {"addErr", "emit", "wait"} =>
              Armed(Resp(c), c, resCh)'
      <4> SUFFICES ASSUME NEW c \in Calls,
                          pc[c] \in {"addErr", "emit", "wait"}
                   PROVE  Armed(Resp(c), c, resCh)'
          OBVIOUS
      <4>1. CASE c = d
        BY <3>1, <4>1
      <4>2. CASE c # d
        <5>1. Resp(c) \in Handlers \ {h}
          BY <3>3, <4>2
        <5>2. CASE Resp(c) \in handlers
          BY <2>3, <5>2
        <5>3. CASE \E n \in Messages : <<Resp(c), n>> \in running
          <6>1. \E n \in Messages : <<Resp(c), n>> \in running'
            BY <2>4, <5>1, <5>3
          <6> QED
            BY <6>1
        <5>4. CASE resCh[c] # Nothing
          BY <2>5, <5>4
        <5> QED
          BY <5>2, <5>3, <5>4
      <4> QED
        BY <4>1, <4>2
    <3>6. \A c \in Calls : pc[c] \in {"emit", "wait"} =>
              Armed(Err(c), c, errCh)'
      <4> SUFFICES ASSUME NEW c \in Calls, pc[c] \in {"emit", "wait"}
                   PROVE  Armed(Err(c), c, errCh)'
          OBVIOUS
      <4>1. Err(c) \in Handlers \ {h}
        BY <3>2
      <4>2. CASE Err(c) \in handlers
        BY <2>3, <4>2
      <4>3. CASE \E n \in Messages : <<Err(c), n>> \in running
        <5>1. \E n \in Messages : <<Err(c), n>> \in running'
          BY <2>4, <4>1, <4>3
        <5> QED
          BY <5>1
      <4>4. CASE errCh[c] # Nothing
        BY <2>5, <4>4
      <4> QED
        BY <4>2, <4>3, <4>4
    <3> QED
      BY <3>4, <3>5, <3>6
  <2>7. CASE h = Err(d)
    <3>1. errCh'[d] # Nothing
      BY <1>5, <2>1, <2>7 DEF RunHandler, Put
    <3> QED
      BY <1>5, <2>3, <2>4, <2>5, <2>7, <3>1 DEF RunHandler, Handlers
  <2> QED
    BY <2>2, <2>6, <2>7
<1>6. CASE Close \/ UNCHANGED vars
  BY <1>6 DEF Close, vars
<1> QED
  BY <1>1, <1>2, <1>3, <1>4, <1>5, <1>6 DEF Next

\* What matches a handler of a call is kindred to the call.  This is where the
\* query flag is needed: a snapshot has the event and the channel of GetHistory.
LEMMA MatchIsKindred ==
    ASSUME NEW h \in Handlers, NEW m, Genuine(m), Matches(h, m),
           emitted \subseteq Calls
    PROVE  IF h.event = "error" THEN Refusal(m) ELSE Kindred(h.call, m)
<1> USE KindAssumption, RespEventInjective, HandlersDistinct
<1>1. PICK c \in Calls : h = Resp(c) \/ h = Err(c)
  BY DEF Handlers
<1>2. CASE h = Err(c)
  <2>1. m.event = "error"
    BY <1>2 DEF Matches
  <2> QED
    BY <1>2, <2>1 DEF Genuine, Refusal, Answer, Snapshot
<1>3. CASE h = Resp(c)
  <2>1. /\ h.call = c /\ h.event = RespEvent[Kind[c]] /\ h.event # "error"
        /\ m.event = RespEvent[Kind[c]] /\ m.chan = Chan[c]
        /\ Kind[c] = "get_history" => m.query
    BY <1>3 DEF Matches, Resp, Handler
  <2>2. PICK d \in emitted :
            \/ m = Answer(d) \/ m = Error(d)
            \/ Kind[d] = "subscribe" /\ m = Snapshot(d)
    BY DEF Genuine
  <2>3. CASE m = Answer(d)
    BY <2>1, <2>3 DEF Answer, Kindred, SameKey
  <2>4. CASE m = Error(d)
    BY <2>1, <2>4 DEF Error
  <2>5. CASE m = Snapshot(d)
    BY <2>1, <2>5 DEF Snapshot
  <2> QED
    BY <2>2, <2>3, <2>4, <2>5
<1> QED
  BY <1>1, <1>2, <1>3

\* Every action keeps the deliveries right.
LEMMA StepDelivery == TypeOK /\ DeliveryInv /\ [Next]_vars => DeliveryInv'
<1> SUFFICES ASSUME TypeOK, DeliveryInv, [Next]_vars PROVE DeliveryInv'
    OBVIOUS
<1>0. emitted \subseteq Calls /\ emitted' \subseteq Calls
  BY StepTypes DEF TypeOK
<1>1. emitted \subseteq emitted'
  BY DEF Next, AddResp, Step, AddErr, Emit, TakeResponse, TakeError, Timeout,
         OffResp, OffErr, WorkerAnswer, WorkerSnapshot, Dispatch, RunHandler,
         Close, vars
<1>2. /\ \A m : Genuine(m) => Genuine(m)'
      /\ \A c \in Calls : \A m : Kindred(c, m) => Kindred(c, m)'
      /\ \A m : Refusal(m) => Refusal(m)'
  BY <1>1 DEF Genuine, Kindred, Refusal
\* A step that touches none of the places a message can be.
<1>3. ASSUME UNCHANGED <<wire, running, resCh, errCh, outcome>>
      PROVE  DeliveryInv'
  BY <1>2, <1>3, HandlersDistinct
  DEF DeliveryInv, Handlers
\* A step that adds a genuine message to the wire.
<1>4. ASSUME NEW m, Genuine(m), wire' = Append(wire, m), wire \in Seq(Messages),
             UNCHANGED <<running, resCh, errCh, outcome, emitted>>
      PROVE  DeliveryInv'
  <2>1. \A i \in DOMAIN wire' : Genuine(wire'[i])
    BY <1>4 DEF DeliveryInv
  <2> QED
    BY <1>4, <2>1 DEF DeliveryInv, Kindred, Refusal, Genuine
<1>5. ASSUME NEW c \in Calls, AddResp(c) PROVE DeliveryInv'
  BY <1>3, <1>5 DEF AddResp
<1>6. ASSUME NEW c \in Calls, Step(c) PROVE DeliveryInv'
  <2>1. CASE AddErr(c) \/ Emit(c) \/ Timeout(c) \/ OffResp(c) \/ OffErr(c)
    BY <1>3, <2>1 DEF AddErr, Emit, Timeout, OffResp, OffErr
  <2>2. CASE TakeResponse(c)
    BY <2>2
    DEF TakeResponse, DeliveryInv, Kindred, Refusal, Genuine,
        TypeOK
  <2>3. CASE TakeError(c)
    BY <2>3
    DEF TakeError, DeliveryInv, Kindred, Refusal, Genuine,
        TypeOK
  <2> QED
    BY <1>6, <2>1, <2>2, <2>3 DEF Step
<1>7. ASSUME NEW c \in Calls, WorkerAnswer(c) PROVE DeliveryInv'
  BY <1>4, <1>7 DEF WorkerAnswer, Genuine, TypeOK
<1>8. ASSUME NEW c \in Calls, WorkerSnapshot(c) PROVE DeliveryInv'
  BY <1>4, <1>8 DEF WorkerSnapshot, Genuine, TypeOK
<1>9. CASE Dispatch
  <2>1. Genuine(Head(wire))
    BY <1>9 DEF Dispatch, DeliveryInv, TypeOK
  <2>2. \A i \in DOMAIN wire' : Genuine(wire'[i])
    BY <1>9 DEF Dispatch, DeliveryInv, TypeOK, Genuine
  <2>3. \A h \in Handlers : h \in Fired(Head(wire)) =>
            IF h.event = "error" THEN Refusal(Head(wire))
            ELSE Kindred(h.call, Head(wire))
    BY <1>0, <2>1, MatchIsKindred DEF Fired
  <2>4. \A h \in Handlers, m \in Messages :
            <<h, m>> \in running' =>
                IF h.event = "error" THEN Refusal(m)
                ELSE Kindred(h.call, m)
    BY <1>9, <2>3 DEF Dispatch, DeliveryInv
  <2> QED
    BY <1>9, <2>2, <2>4
    DEF Dispatch, DeliveryInv, Kindred, Refusal, Genuine
<1>10. ASSUME NEW h \in Handlers, NEW m \in Messages, RunHandler(h, m)
       PROVE  DeliveryInv'
  <2>1. h.call \in Calls
    BY HandlersDistinct DEF Handlers
  <2>2. IF h.event = "error" THEN Refusal(m) ELSE Kindred(h.call, m)
    BY <1>10 DEF RunHandler, DeliveryInv
  <2>3. /\ \A c \in Calls : resCh'[c] # Nothing => Kindred(c, resCh'[c])
        /\ \A c \in Calls : errCh'[c] # Nothing => Refusal(errCh'[c])
    BY <1>10, <2>1, <2>2 DEF RunHandler, Put, DeliveryInv, TypeOK
  <2> QED
    BY <1>10, <2>3
    DEF RunHandler, DeliveryInv, Kindred, Refusal, Genuine
<1>11. CASE Close \/ UNCHANGED vars
  BY <1>3, <1>11 DEF Close, vars
<1> QED
  BY <1>5, <1>6, <1>7, <1>8, <1>9, <1>10, <1>11 DEF Next

RequestInv == TypeOK /\ TableInv /\ ArmedInv /\ DeliveryInv

\* On a new socket no call has begun and nothing is on its way.
LEMMA InitRequests == Init => RequestInv
<1> SUFFICES ASSUME Init PROVE RequestInv
    OBVIOUS
<1> USE DEF Init
<1>1. TypeOK
  <2>1. pc \in [Calls -> Pcs]
    BY DEF Pcs
  <2>2. wire \in Seq(Messages)
    OBVIOUS
  <2>3. /\ resCh \in [Calls -> Messages \cup {Nothing}]
        /\ errCh \in [Calls -> Messages \cup {Nothing}]
        /\ outcome \in [Calls -> Messages \cup {Nothing}]
    OBVIOUS
  <2> QED
    BY <2>1, <2>2, <2>3 DEF TypeOK
<1>2. TableInv /\ ArmedInv
  BY DEF TableInv, ArmedInv
<1>3. DeliveryInv
  BY DEF DeliveryInv
<1> QED
  BY <1>1, <1>2, <1>3 DEF RequestInv

\* The invariant holds in every state of a socket.
LEMMA AlwaysRequests == Spec => []RequestInv
<1>1. RequestInv /\ [Next]_vars => RequestInv'
  BY StepTypes, StepTable, StepArmed, StepDelivery DEF RequestInv
<1> QED
  BY InitRequests, <1>1, PTL DEF Spec

\* Type correctness of the calls.
THEOREM RequestTypes == Spec => []TypeOK
<1>1. RequestInv => TypeOK
  BY DEF RequestInv
<1> QED
  BY <1>1, AlwaysRequests, PTL

\* A call that has returned has no handler in the table.
THEOREM NoLeaks == Spec => []NoHandlerLeak
<1>1. RequestInv => NoHandlerLeak
  BY HandlersDistinct DEF RequestInv, TypeOK, TableInv, Handlers, NoHandlerLeak
<1> QED
  BY <1>1, AlwaysRequests, PTL

\* A call that waits has its handlers armed, or a message on the way.
THEOREM WaitersArmed == Spec => []WaitingIsArmed
<1>1. RequestInv => WaitingIsArmed
  BY DEF RequestInv, ArmedInv, Armed, WaitingIsArmed
<1> QED
  BY <1>1, AlwaysRequests, PTL

\* Where no two calls have the same method and channel, as when the application
\* serialises them, a call that succeeds has its own answer.
THEOREM DistinctCallsGetTheirOwn ==
    ASSUME \A c, d \in Calls : SameKey(c, d) => c = d
    PROVE  Spec => []OwnAnswer
<1>1. RequestInv => OwnAnswer
  BY DEF RequestInv, TypeOK, DeliveryInv, Kindred, Refusal, Succeeded,
         OwnAnswer, Answer, Error
<1> QED
  BY <1>1, AlwaysRequests, PTL

-----------------------------------------------------------------------------
(* The refinement of RequestReply.                                         *)

\* A step of one call that moves it on.
LEMMA PhaseMoves ==
    ASSUME TypeOK, NEW c \in Calls, NEW from, NEW to, Goto(c, from, to)
    PROVE  /\ c \in DOMAIN CallPhase
           /\ CallPhase[c] = PhaseAt(from)
           /\ CallPhase' = [CallPhase EXCEPT ![c] = PhaseAt(to)]
<1>1. pc' = [pc EXCEPT ![c] = to] /\ pc \in [Calls -> Pcs] /\ pc[c] = from
  BY DEF Goto, TypeOK
<1>2. \A d \in Calls : pc'[d] = IF d = c THEN to ELSE pc[d]
  BY <1>1
<1> QED
  BY <1>1, <1>2 DEF CallPhase

\* What a call may be handed fits it, and comes after what it answers was made.
LEMMA FittingReply ==
    ASSUME TypeOK, NEW c \in Calls, NEW m, Kindred(c, m) \/ Refusal(m)
    PROVE  m \in CallFitting[c] /\ m \in Messages /\ {m.of} \subseteq emitted
<1>1. emitted \subseteq Calls
  BY DEF TypeOK
<1>2. CASE Kindred(c, m)
  BY <1>1, <1>2 DEF Kindred, CallFitting, Messages, Answer
<1>3. CASE Refusal(m)
  <2>1. PICK d \in emitted : m = Error(d)
    BY <1>3 DEF Refusal
  <2>2. d \in Calls /\ m.of = d
    BY <1>1, <2>1 DEF Error
  <2>3. m \in CallFitting[c]
    BY <2>1, <2>2 DEF CallFitting
  <2>4. m \in Messages
    BY <2>1, <2>2 DEF Messages
  <2> QED
    BY <2>2, <2>3, <2>4
<1> QED
  BY <1>2, <1>3

\* Every action is a step of the abstract call, or none.
LEMMA StepImplements ==
    ASSUME RequestInv, [Next]_vars
    PROVE  [Call!CallNext]_(Call!callVars)
<1> USE DEF RequestInv, Call!CallNext, Call!callVars, Call!Move, PhaseAt
<1>1. ASSUME NEW c \in Calls, AddResp(c) PROVE Call!Open(c)
  BY <1>1, PhaseMoves DEF AddResp, Call!Open
<1>2. ASSUME NEW c \in Calls, AddErr(c) PROVE UNCHANGED Call!callVars
  <2>1. CallPhase' = [CallPhase EXCEPT ![c] = "open"] /\ CallPhase[c] = "open"
    BY <1>2, PhaseMoves DEF AddErr
  <2> QED
    BY <1>2, <2>1 DEF AddErr, CallPhase
<1>3. ASSUME NEW c \in Calls, Emit(c) PROVE Call!Ask(c) \/ Call!Fail(c)
  <2>1. CASE Goto(c, "emit", "wait") /\ emitted' = emitted \cup {c}
    <3>1. CallPhase' = [CallPhase EXCEPT ![c] = "open"] /\ CallPhase[c] = "open"
      BY <2>1, PhaseMoves
    <3>2. UNCHANGED CallPhase
      BY <3>1 DEF CallPhase
    <3> QED
      BY <1>3, <2>1, <3>1, <3>2 DEF Emit, Call!Ask
  <2>2. CASE Goto(c, "emit", "offResp") /\ UNCHANGED emitted
    BY <1>3, <2>2, PhaseMoves DEF Emit, Call!Fail
  <2> QED
    BY <1>3, <2>1, <2>2 DEF Emit
<1>4. ASSUME NEW c \in Calls, TakeResponse(c) PROVE Call!Return(c)
  <2>1. Kindred(c, resCh[c])
    BY <1>4 DEF TakeResponse, DeliveryInv
  <2>2. /\ resCh[c] \in CallFitting[c]
        /\ resCh[c] \in Messages /\ {resCh[c].of} \subseteq emitted
    BY <2>1, FittingReply
  <2>3. \E m \in CallFitting[c] :
           /\ [n \in Messages |-> {n.of}][m] \subseteq emitted
           /\ outcome' = [outcome EXCEPT ![c] = m]
    BY <1>4, <2>2 DEF TakeResponse
  <2>4. Goto(c, "wait", "offResp") /\ UNCHANGED emitted
    BY <1>4 DEF TakeResponse
  <2>5. CallPhase[c] = "open"
        /\ CallPhase' = [CallPhase EXCEPT ![c] = "returned"]
    BY <2>4, PhaseMoves
  <2> QED
    BY <2>3, <2>4, <2>5 DEF Call!Return
<1>5. ASSUME NEW c \in Calls, TakeError(c) PROVE Call!Return(c)
  <2>1. Refusal(errCh[c])
    BY <1>5 DEF TakeError, DeliveryInv
  <2>2. /\ errCh[c] \in CallFitting[c]
        /\ errCh[c] \in Messages /\ {errCh[c].of} \subseteq emitted
    BY <2>1, FittingReply
  <2>3. \E m \in CallFitting[c] :
           /\ [n \in Messages |-> {n.of}][m] \subseteq emitted
           /\ outcome' = [outcome EXCEPT ![c] = m]
    BY <1>5, <2>2 DEF TakeError
  <2>4. Goto(c, "wait", "offResp") /\ UNCHANGED emitted
    BY <1>5 DEF TakeError
  <2>5. CallPhase[c] = "open"
        /\ CallPhase' = [CallPhase EXCEPT ![c] = "returned"]
    BY <2>4, PhaseMoves
  <2> QED
    BY <2>3, <2>4, <2>5 DEF Call!Return
<1>6. ASSUME NEW c \in Calls, Timeout(c) PROVE Call!Fail(c)
  BY <1>6, PhaseMoves DEF Timeout, Call!Fail
<1>7. ASSUME NEW c \in Calls, OffResp(c) \/ OffErr(c)
      PROVE  UNCHANGED Call!callVars
  <2>1. /\ CallPhase' = [CallPhase EXCEPT ![c] = "returned"]
        /\ CallPhase[c] = "returned"
    BY <1>7, PhaseMoves DEF OffResp, OffErr
  <2> QED
    BY <1>7, <2>1 DEF OffResp, OffErr, CallPhase
<1>8. ASSUME NEW c \in Calls, WorkerAnswer(c) \/ WorkerSnapshot(c)
      PROVE  UNCHANGED Call!callVars
  BY <1>8 DEF WorkerAnswer, WorkerSnapshot, CallPhase
<1>9. ASSUME NEW h \in Handlers, NEW m \in Messages, RunHandler(h, m)
      PROVE  UNCHANGED Call!callVars
  BY <1>9 DEF RunHandler, CallPhase
<1>10. CASE Dispatch \/ Close \/ UNCHANGED vars
  BY <1>10 DEF Dispatch, Close, vars, CallPhase
<1> QED
  BY <1>1, <1>2, <1>3, <1>4, <1>5, <1>6, <1>7, <1>8, <1>9, <1>10
  DEF Next, Step

\* Whatever the worker and the other calls do, and whenever the socket closes,
\* a call returns once, with a reply that fits it and was asked for.
THEOREM RequestsAreCalls == Spec => ImplementsCalls
<1>1. Init => Call!CallInit
  BY DEF Init, Call!CallInit, CallPhase, PhaseAt
<1>2. RequestInv /\ [Next]_vars => [Call!CallNext]_(Call!callVars)
  BY StepImplements
<1> QED
  BY <1>1, <1>2, AlwaysRequests, PTL DEF Spec, ImplementsCalls, Call!CallSafety
=============================================================================
