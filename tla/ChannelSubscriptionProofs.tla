--------------------- MODULE ChannelSubscriptionProofs ---------------------
(***************************************************************************)
(* Proofs about ChannelSubscription, for any callers, targets, messages    *)
(* and bounds.                                                             *)
(***************************************************************************)
EXTENDS ChannelSubscription, Integers, TLAPS

LEMMA EmptySequence ==
    /\ <<>> \in Seq(Messages) /\ <<>> \in Seq(Events) /\ <<>> \in Seq(Acks)
    /\ Len(<<>>) = 0
  OBVIOUS

\* What both the history and its reference definition keep is a sequence.
LEMMA LastKeptType ==
    ASSUME NEW s \in Seq(Messages)
    PROVE  LastKept(s) \in Seq(Messages)
<1>1. CASE Len(s) > HistoryCap
  <2>1. \A i \in (Len(s) - HistoryCap + 1)..Len(s) : s[i] \in Messages
    BY <1>1, CapAssumption
  <2> QED
    BY <1>1, <2>1, CapAssumption DEF LastKept
<1> QED
  BY <1>1 DEF LastKept

\* A group of variables that is left alone keeps its types.
LEMMA Untouched ==
    ASSUME TypeOK
    PROVE  /\ UNCHANGED callVars => CallTypes'
           /\ UNCHANGED channelVars => ChannelTypes'
           /\ UNCHANGED historyVars => HistoryTypes'
           /\ UNCHANGED linkVars => LinkTypes'
           /\ UNCHANGED handlerVars => HandlerTypes'
<1> USE DEF TypeOK
<1>1. UNCHANGED callVars => CallTypes'
  BY DEF CallTypes, callVars
<1>2. UNCHANGED channelVars => ChannelTypes'
  BY DEF ChannelTypes, channelVars
<1>3. UNCHANGED historyVars => HistoryTypes'
  BY DEF HistoryTypes, historyVars
<1>4. UNCHANGED linkVars => LinkTypes'
  BY DEF LinkTypes, linkVars
<1>5. UNCHANGED handlerVars => HandlerTypes'
  BY DEF HandlerTypes, handlerVars
<1> QED
  BY <1>1, <1>2, <1>3, <1>4, <1>5

\* Every step keeps the flags Boolean.
LEMMA StepFlags ==
    ASSUME TypeOK, [Next]_vars
    PROVE  FlagTypes'
<1> USE DEF TypeOK, FlagTypes, callVars, channelVars, linkVars, vars, Goto
<1>1. ASSUME NEW p \in Callers, Call(p) PROVE FlagTypes'
  <2> USE <1>1 DEF Call, SubscribeCheck, SubscribeTake, SubscribeEmit,
          SubscribeFail, SubscribeCommit, Unsubscribe, Disconnect,
          ReadSubscribed, UnsubscribeTest, UnsubscribeEmit, UnsubscribeFail,
          UnsubscribeDrop, CloseSocket, Enter, Emit, Fail, Lose
  <2>1. subscribed' \in BOOLEAN
    OBVIOUS
  <2>2. present' \in BOOLEAN
    OBVIOUS
  <2>3. joined' \in BOOLEAN
    OBVIOUS
  <2>4. overlapped' \in BOOLEAN
    OBVIOUS
  <2>5. clean' \in BOOLEAN
    OBVIOUS
  <2> QED
    BY <2>1, <2>2, <2>3, <2>4, <2>5
<1>2. ASSUME NEW m \in Messages, Handle(m) PROVE FlagTypes'
  BY <1>2 DEF Handle, Arrive, Look, Keep, Load, Send
<1>3. ASSUME NEW g \in Targets, Receive(g) PROVE FlagTypes'
  BY <1>3 DEF Receive
<1>4. CASE Connect \/ Break \/ WorkerAccept \/ WorkerReject \/ DispatchAck
  <2> USE <1>4 DEF Connect, Break, Lose, WorkerAccept, WorkerReject,
          DispatchAck
  <2>1. subscribed' \in BOOLEAN /\ present' \in BOOLEAN
    OBVIOUS
  <2>2. joined' \in BOOLEAN
    OBVIOUS
  <2>3. overlapped' \in BOOLEAN
    OBVIOUS
  <2>4. clean' \in BOOLEAN
    OBVIOUS
  <2> QED
    BY <2>1, <2>2, <2>3, <2>4
<1>5. CASE UNCHANGED vars
  BY <1>5
<1> QED
  BY <1>1, <1>2, <1>3, <1>4, <1>5 DEF Next

\* The two halves of request keep the types, whoever calls it.
LEMMA EmitTypes ==
    ASSUME TypeOK, FlagTypes',
           NEW p \in Callers, NEW from, NEW event \in Events,
           NEW wait \in Pcs, NEW failed \in Pcs,
           Emit(p, from, event, wait, failed)
    PROVE  TypeOK'
<1> USE DEF TypeOK
<1>1. pc' \in [Callers -> Pcs]
  BY DEF Emit, Goto, CallTypes, LinkTypes, Pcs
<1>2. CallTypes'
  BY <1>1 DEF Emit, Goto, CallTypes, LinkTypes
<1>3. Append(up, event) \in Seq(Events)
  BY DEF LinkTypes
<1>4. LinkTypes'
  BY <1>3 DEF Emit, LinkTypes
<1> QED
  BY <1>2, <1>4, Untouched DEF Emit

LEMMA FailTypes ==
    ASSUME TypeOK, FlagTypes', NEW p \in Callers, NEW from, NEW to \in Pcs,
           Fail(p, from, to)
    PROVE  TypeOK'
<1> USE DEF TypeOK
<1>1. CallTypes'
  BY DEF Fail, Goto, CallTypes
<1>2. LinkTypes'
  BY DEF Fail, LinkTypes
<1> QED
  BY <1>1, <1>2, Untouched DEF Fail

\* A step of a caller keeps the types.
LEMMA CallStepTypes ==
    ASSUME TypeOK, NEW p \in Callers, Call(p), FlagTypes'
    PROVE  TypeOK'
<1> USE DEF TypeOK
<1>1. ASSUME NEW g \in Targets, SubscribeCheck(p, g) PROVE TypeOK'
  <2>1. CallTypes'
    BY <1>1 DEF SubscribeCheck, Enter, Busy, CallTypes, Pcs
  <2> QED
    BY <1>1, <2>1, Untouched DEF SubscribeCheck, Enter
<1>2. CASE SubscribeTake(p)
  <2>1. CallTypes' /\ ChannelTypes'
    BY <1>2 DEF SubscribeTake, Goto, CallTypes, ChannelTypes, Pcs
  <2> QED
    BY <1>2, <2>1, Untouched DEF SubscribeTake
<1>3. CASE SubscribeEmit(p) \/ UnsubscribeEmit(p)
  BY <1>3, EmitTypes DEF SubscribeEmit, UnsubscribeEmit, Pcs, Events
<1>4. CASE SubscribeFail(p) \/ UnsubscribeFail(p)
  BY <1>4, FailTypes DEF SubscribeFail, UnsubscribeFail, Pcs
<1>5. CASE SubscribeCommit(p)
  <2>1. CallTypes' /\ ChannelTypes'
    BY <1>5 DEF SubscribeCommit, Goto, CallTypes, ChannelTypes, Pcs
  <2> QED
    BY <1>5, <2>1, Untouched DEF SubscribeCommit
<1>6. CASE Unsubscribe(p) \/ Disconnect(p)
  <2>1. Enter(p, "read") /\ UNCHANGED arg
    BY <1>6 DEF Unsubscribe, Disconnect
  <2>2. disconnecting' \subseteq Callers
    BY <1>6 DEF Unsubscribe, Disconnect, CallTypes
  <2>3. CallTypes'
    BY <2>1, <2>2 DEF Enter, CallTypes, Pcs
  <2> QED
    BY <2>1, <2>3, Untouched DEF Enter
<1>7. CASE ReadSubscribed(p) \/ UnsubscribeTest(p)
  <2>1. CallTypes'
    BY <1>7 DEF ReadSubscribed, UnsubscribeTest, After, Goto, CallTypes, Pcs
  <2> QED
    BY <1>7, <2>1, Untouched DEF ReadSubscribed, UnsubscribeTest
<1>8. CASE UnsubscribeDrop(p)
  <2>1. CallTypes' /\ ChannelTypes'
    BY <1>8 DEF UnsubscribeDrop, After, Goto, CallTypes, ChannelTypes, Pcs
  <2> QED
    BY <1>8, <2>1, Untouched DEF UnsubscribeDrop
<1>9. CASE CloseSocket(p)
  <2>1. CallTypes'
    BY <1>9 DEF CloseSocket, Goto, CallTypes, Pcs
  <2>2. LinkTypes'
    BY <1>9, EmptySequence DEF CloseSocket, Lose, LinkTypes
  <2> QED
    BY <1>9, <2>1, <2>2, Untouched DEF CloseSocket
<1> QED
  BY <1>1, <1>2, <1>3, <1>4, <1>5, <1>6, <1>7, <1>8, <1>9 DEF Call

\* A step of a handler keeps the types.
LEMMA HandlerStepTypes ==
    ASSUME TypeOK, NEW m \in Messages, Handle(m), FlagTypes'
    PROVE  TypeOK'
<1> USE DEF TypeOK, HandlerGoto
<1>1. CASE Arrive(m)
  BY <1>1, Untouched DEF Arrive, HandlerTypes, HandlerPcs
<1>2. CASE Look(m)
  BY <1>2, Untouched DEF Look, HandlerTypes, HandlerPcs
<1>3. CASE Keep(m)
  <2>1. /\ Append(history, m) \in Seq(Messages)
        /\ Append(retained, m) \in Seq(Messages)
    BY DEF HistoryTypes
  <2>2. HistoryTypes'
    BY <1>3, <2>1, LastKeptType DEF Keep, HistoryTypes
  <2> QED
    BY <1>3, <2>2, Untouched DEF Keep, HandlerTypes, HandlerPcs
<1>4. CASE Load(m)
  BY <1>4, Untouched DEF Load, HandlerTypes, ChannelTypes, HandlerPcs
<1>5. CASE Send(m)
  <2>1. CASE UNCHANGED inbox
    BY <1>5, <2>1, Untouched DEF Send, HandlerTypes, HandlerPcs
  <2>2. CASE /\ target[m] \in Targets
             /\ Len(inbox[target[m]]) < Capacity
             /\ inbox' = [inbox EXCEPT ![target[m]] = Append(@, m)]
    <3>1. /\ Append(inbox[target[m]], m) \in Seq(Messages)
          /\ Len(Append(inbox[target[m]], m)) <= Capacity
      BY <2>2, CapAssumption DEF HandlerTypes
    <3> QED
      BY <1>5, <2>2, <3>1, Untouched DEF Send, HandlerTypes, HandlerPcs
  <2>3. CASE target[m] \notin Targets
    <3>1. inbox' = inbox
      BY <1>5, <2>3, Untouched DEF Send, HandlerTypes
    <3> QED
      BY <2>1, <3>1
  <2> QED
    BY <1>5, <2>1, <2>2, <2>3 DEF Send
<1> QED
  BY <1>1, <1>2, <1>3, <1>4, <1>5 DEF Handle

\* Every step keeps the types.
LEMMA StepTypes == TypeOK /\ [Next]_vars => TypeOK'
<1> SUFFICES ASSUME TypeOK, [Next]_vars PROVE TypeOK'
    OBVIOUS
<1>0. FlagTypes'
  BY StepFlags
<1> USE <1>0 DEF TypeOK
<1>1. ASSUME NEW g \in Targets, Receive(g) PROVE TypeOK'
  <2>1. Tail(inbox[g]) \in Seq(Messages) /\ Len(Tail(inbox[g])) <= Capacity
    BY <1>1, CapAssumption DEF Receive, HandlerTypes
  <2> QED
    BY <1>1, <2>1, Untouched DEF Receive, HandlerTypes
<1>2. CASE Connect
  <2>1. LinkTypes'
    BY <1>2 DEF Connect, LinkTypes
  <2> QED
    BY <1>2, <2>1, Untouched DEF Connect
<1>3. CASE Break
  <2>1. LinkTypes'
    BY <1>3, EmptySequence DEF Break, Lose, LinkTypes
  <2> QED
    BY <1>3, <2>1, Untouched DEF Break
<1>4. CASE WorkerAccept
  <2>1. up # <<>> /\ Head(up) \in Events /\ Tail(up) \in Seq(Events)
    BY <1>4 DEF WorkerAccept, LinkTypes
  <2>2. AckOf[Head(up)] \in Acks
    BY <2>1 DEF AckOf, Acks
  <2>3. LinkTypes'
    BY <1>4, <2>1, <2>2 DEF WorkerAccept, LinkTypes
  <2> QED
    BY <1>4, <2>3, Untouched DEF WorkerAccept
<1>5. CASE WorkerReject
  BY <1>5, Untouched DEF WorkerReject, LinkTypes
<1>6. CASE DispatchAck
  <2>1. Tail(acks) \in Seq(Acks)
    BY <1>6 DEF DispatchAck, LinkTypes
  <2>2. LinkTypes'
    BY <1>6, <2>1 DEF DispatchAck, LinkTypes
  <2>3. CallTypes'
    BY <1>6 DEF DispatchAck, CallTypes, Pcs
  <2> QED
    BY <1>6, <2>2, <2>3, Untouched DEF DispatchAck
<1>7. CASE UNCHANGED vars
  BY <1>7, Untouched DEF vars
<1> QED
  BY <1>1, <1>2, <1>3, <1>4, <1>5, <1>6, <1>7, CallStepTypes, HandlerStepTypes
  DEF Next

\* Type correctness: the state of the channel, its callers and its handlers
\* keeps its types, and no Go channel holds more than its capacity.
THEOREM TypesHold == Spec => []TypeOK
<1>1. Init => TypeOK
  <2> SUFFICES ASSUME Init PROVE TypeOK
    OBVIOUS
  <2>1. CallTypes
    BY DEF Init, CallTypes, Pcs
  <2>2. ChannelTypes /\ FlagTypes
    BY DEF Init, ChannelTypes, FlagTypes
  <2>3. HistoryTypes
    BY EmptySequence DEF Init, HistoryTypes
  <2>4. LinkTypes
    BY EmptySequence DEF Init, LinkTypes
  <2>5. HandlerTypes
    BY CapAssumption DEF Init, HandlerTypes, HandlerPcs
  <2> QED
    BY <2>1, <2>2, <2>3, <2>4, <2>5 DEF TypeOK
<1> QED
  BY <1>1, StepTypes, PTL DEF Spec

-----------------------------------------------------------------------------
(* What handlers deliver, in any interleaving.                             *)

\* The target and the options of the channel come from one Subscribe, and what
\* is about to be sent passes the filter that came with its target.
TargetInv ==
    /\ messageChan # NoTarget => subscribeOpts = messageChan
    /\ \A m \in Messages :
          hpc[m] = "send" => target[m] \in Targets /\ m \in Passes[target[m]]
    /\ FilterHonoured

\* Only the critical sections of Subscribe and Unsubscribe and the handlers
\* touch what TargetInv is about.
LEMMA TargetUntouched ==
    TargetInv /\ UNCHANGED <<messageChan, subscribeOpts, hpc, target, inbox>>
        => TargetInv'
BY DEF TargetInv, FilterHonoured

LEMMA StepTarget ==
    ASSUME TypeOK, TypeOK', TargetInv, [Next]_vars
    PROVE  TargetInv'
<1> USE DEF channelVars, handlerVars
<1>1. ASSUME NEW p \in Callers, Call(p) PROVE TargetInv'
  <2>1. CASE SubscribeTake(p)
    BY <2>1 DEF SubscribeTake, TargetInv, FilterHonoured
  <2>2. CASE UnsubscribeDrop(p)
    BY <2>2 DEF UnsubscribeDrop, TargetInv, FilterHonoured
  <2>3. CASE UNCHANGED <<messageChan, subscribeOpts, hpc, target, inbox>>
    BY <2>3, TargetUntouched
  <2> QED
    BY <1>1, <2>1, <2>2, <2>3
    DEF Call, SubscribeCheck, SubscribeEmit, SubscribeFail, SubscribeCommit,
        Unsubscribe, Disconnect, ReadSubscribed, UnsubscribeTest,
        UnsubscribeEmit, UnsubscribeFail, CloseSocket, Enter, Emit, Fail
<1>2. ASSUME NEW m \in Messages, Handle(m) PROVE TargetInv'
  <2> USE DEF HandlerGoto, TypeOK, HandlerTypes
  <2>1. CASE Arrive(m) \/ Look(m) \/ Keep(m)
    <3>1. /\ \A n \in Messages : hpc'[n] = "send" => hpc[n] = "send"
          /\ UNCHANGED <<messageChan, subscribeOpts, target, inbox>>
      BY <2>1 DEF Arrive, Look, Keep
    <3> QED
      BY <3>1 DEF TargetInv, FilterHonoured
  <2>2. CASE Load(m)
    <3>1. UNCHANGED <<messageChan, subscribeOpts, inbox>>
      BY <2>2 DEF Load
    <3>2. ASSUME NEW n \in Messages, hpc'[n] = "send"
          PROVE  target'[n] \in Targets /\ n \in Passes[target'[n]]
      <4>1. CASE n = m
        <5>1. /\ messageChan # NoTarget /\ m \in Passes[subscribeOpts]
              /\ target'[m] = messageChan
          BY <2>2, <3>2, <4>1 DEF Load
        <5> QED
          BY <4>1, <5>1 DEF TargetInv, ChannelTypes
      <4>2. CASE n # m
        BY <2>2, <3>2, <4>2 DEF Load, TargetInv
      <4> QED
        BY <4>1, <4>2
    <3> QED
      BY <3>1, <3>2 DEF TargetInv, FilterHonoured
  <2>3. CASE Send(m)
    <3>1. target[m] \in Targets /\ m \in Passes[target[m]]
      BY <2>3 DEF Send, TargetInv
    <3>2. ASSUME NEW g \in Targets
          PROVE  \A i \in DOMAIN inbox'[g] : inbox'[g][i] \in Passes[g]
      <4>1. CASE inbox'[g] = inbox[g]
        BY <4>1 DEF TargetInv, FilterHonoured
      <4>2. CASE g = target[m] /\ inbox'[g] = Append(inbox[g], m)
        <5>1. inbox[g] \in Seq(Messages)
          OBVIOUS
        <5>2. \A i \in DOMAIN inbox'[g] :
                 \/ i \in DOMAIN inbox[g] /\ inbox'[g][i] = inbox[g][i]
                 \/ inbox'[g][i] = m
          BY <4>2, <5>1
        <5> QED
          BY <3>1, <4>2, <5>2 DEF TargetInv, FilterHonoured
      <4>3. CASE UNCHANGED inbox
        BY <4>1, <4>3
      <4>4. CASE inbox' = [inbox EXCEPT ![target[m]] = Append(@, m)]
        <5>1. CASE g = target[m]
          BY <4>2, <4>4, <5>1
        <5>2. CASE g # target[m]
          BY <4>1, <4>4, <5>2
        <5> QED
          BY <5>1, <5>2
      <4> QED
        BY <2>3, <4>3, <4>4 DEF Send
    <3>3. \A g \in Targets :
             \A i \in DOMAIN inbox'[g] : inbox'[g][i] \in Passes[g]
      BY <3>2
    <3>4. \A n \in Messages : hpc'[n] = "send" =>
             n # m /\ hpc[n] = "send" /\ target'[n] = target[n]
      BY <2>3 DEF Send
    <3>5. UNCHANGED <<messageChan, subscribeOpts>>
      BY <2>3 DEF Send
    <3> QED
      BY <3>3, <3>4, <3>5 DEF TargetInv, FilterHonoured
  <2> QED
    BY <1>2, <2>1, <2>2, <2>3 DEF Handle
<1>3. ASSUME NEW g \in Targets, Receive(g) PROVE TargetInv'
  <2>1. UNCHANGED <<messageChan, subscribeOpts, hpc, target>>
    BY <1>3 DEF Receive
  <2>2. ASSUME NEW h \in Targets
        PROVE  \A i \in DOMAIN inbox'[h] : inbox'[h][i] \in Passes[h]
    <3>1. CASE h # g
      <4>1. inbox'[h] = inbox[h]
        BY <1>3, <3>1 DEF Receive, TypeOK, HandlerTypes
      <4> QED
        BY <4>1 DEF TargetInv, FilterHonoured
    <3>2. CASE h = g
      <4>1. /\ inbox[h] \in Seq(Messages) /\ inbox[h] # <<>>
            /\ inbox'[h] = Tail(inbox[h])
        BY <1>3, <3>2 DEF Receive, TypeOK, HandlerTypes
      <4>2. \A i \in DOMAIN inbox'[h] :
               i + 1 \in DOMAIN inbox[h] /\ inbox'[h][i] = inbox[h][i + 1]
        BY <4>1
      <4> QED
        BY <4>2 DEF TargetInv, FilterHonoured
    <3> QED
      BY <3>1, <3>2
  <2>3. \A h \in Targets :
           \A i \in DOMAIN inbox'[h] : inbox'[h][i] \in Passes[h]
    BY <2>2
  <2> QED
    BY <2>1, <2>3 DEF TargetInv, FilterHonoured
<1>4. CASE \/ Connect \/ Break \/ WorkerAccept \/ WorkerReject
           \/ DispatchAck \/ UNCHANGED vars
  BY <1>4, TargetUntouched
  DEF Connect, Break, WorkerAccept, WorkerReject, DispatchAck, vars
<1> QED
  BY <1>1, <1>2, <1>3, <1>4 DEF Next

\* No Go channel ever holds a message that the filter passed with it excludes,
\* however late the handler and whatever calls overlap.
THEOREM FiltersHold == Spec => []FilterHonoured
<1>1. Init => TargetInv
  BY DEF Init, TargetInv, FilterHonoured
<1>2. TypeOK /\ TypeOK' /\ TargetInv /\ [Next]_vars => TargetInv'
  BY StepTarget
<1>3. TargetInv => FilterHonoured
  BY DEF TargetInv
<1> QED
  BY <1>1, <1>2, <1>3, TypesHold, PTL DEF Spec

-----------------------------------------------------------------------------
(* Calls that never overlap.                                               *)

Exclusive == \A p, q \in Callers : Busy(p) /\ Busy(q) => p = q

\* What the place a lone caller is at fixes of the channel.
CallerAt(p) ==
    /\ pc[p] # "panic"
    /\ p \in disconnecting => Busy(p)
    /\ pc[p] \in {"take", "emitSub", "waitSub", "commit"} => arg[p] \in Targets
    /\ pc[p] \in {"emitSub", "waitSub", "commit"} =>
          ~subscribed /\ messageChan = arg[p] /\ subscribeOpts = arg[p]
    /\ pc[p] \in {"test", "emitUnsub", "waitUnsub", "drop"} => subscribed
    /\ pc[p] = "close" => ~subscribed
    /\ pc[p] \in {"waitSub", "waitUnsub"} => onConn[p] = conn
    /\ link = "none" => pc[p] \in {"idle", "read"} /\ p \notin disconnecting

LoneInv ==
    ~overlapped =>
        /\ Exclusive
        /\ \A p \in Callers : CallerAt(p)
        /\ link = "none" => ~subscribed
        /\ subscribed => messageChan # NoTarget
        /\ present <=> (subscribed /\ subscribeOpts \in Presence)

\* A step of a caller, after which calls have still not overlapped, leaves the
\* others idle.
LEMMA OthersIdle ==
    ASSUME TypeOK, LoneInv, NEW p \in Callers, Call(p), ~overlapped'
    PROVE  /\ ~overlapped
           /\ \A q \in Callers \ {p} : ~Busy(q) /\ ~Busy(q)'
           /\ \A q \in Callers \ {p} :
                 pc'[q] = pc[q] /\ q \notin disconnecting'
<1>1. ~overlapped /\ \A q \in Callers \ {p} : ~Busy(q)
  <2>1. CASE \E g \in Targets : SubscribeCheck(p, g)
    BY <2>1 DEF SubscribeCheck, Enter
  <2>2. CASE Unsubscribe(p) \/ Disconnect(p)
    BY <2>2 DEF Unsubscribe, Disconnect, Enter
  <2>3. CASE Busy(p) /\ UNCHANGED overlapped
    BY <2>3 DEF LoneInv, Exclusive
  <2> QED
    BY <2>1, <2>2, <2>3
    DEF Call, SubscribeTake, SubscribeEmit, SubscribeFail, SubscribeCommit,
        ReadSubscribed, UnsubscribeTest, UnsubscribeEmit, UnsubscribeFail,
        UnsubscribeDrop, CloseSocket, Emit, Fail, Goto, Busy
<1>2. /\ \E to : pc' = [pc EXCEPT ![p] = to]
      /\ disconnecting' \subseteq disconnecting \cup {p}
  BY DEF Call, SubscribeCheck, SubscribeTake, SubscribeEmit, SubscribeFail,
         SubscribeCommit, Unsubscribe, Disconnect, ReadSubscribed,
         UnsubscribeTest, UnsubscribeEmit, UnsubscribeFail, UnsubscribeDrop,
         CloseSocket, Enter, Emit, Fail, Goto
<1>3. \A q \in Callers \ {p} : pc'[q] = pc[q] /\ q \notin disconnecting'
  BY <1>1, <1>2 DEF LoneInv, CallerAt, TypeOK, CallTypes
<1> QED
  BY <1>1, <1>3 DEF Busy

\* So it is enough to look at the caller that moves.
LEMMA LoneCaller ==
    ASSUME TypeOK, LoneInv, NEW p \in Callers, Call(p), ~overlapped',
           CallerAt(p)',
           (link = "none" => ~subscribed)',
           (subscribed => messageChan # NoTarget)',
           (present <=> (subscribed /\ subscribeOpts \in Presence))'
    PROVE  LoneInv'
<1>1. \A q \in Callers \ {p} : pc'[q] = "idle" /\ q \notin disconnecting'
  BY OthersIdle DEF Busy
<1>2. Exclusive'
  BY <1>1 DEF Exclusive, Busy
<1>3. \A q \in Callers : CallerAt(q)'
  BY <1>1 DEF CallerAt, Busy
<1> QED
  BY <1>2, <1>3 DEF LoneInv

LEMMA StepLoneCall ==
    ASSUME TypeOK, TypeOK', LoneInv, NEW p \in Callers, Call(p)
    PROVE  LoneInv'
<1> SUFFICES ASSUME ~overlapped' PROVE LoneInv'
    BY DEF LoneInv
<1>1. ~overlapped /\ CallerAt(p)
  BY OthersIdle DEF LoneInv
<1> DEFINE Goal == /\ CallerAt(p)'
                   /\ (link = "none" => ~subscribed)'
                   /\ (subscribed => messageChan # NoTarget)'
                   /\ (present <=> (subscribed /\ subscribeOpts \in Presence))'
<1> SUFFICES Goal
    BY LoneCaller
<1> USE <1>1, TargetAssumption
    DEF LoneInv, CallerAt, Busy, TypeOK, CallTypes, channelVars, linkVars
<1>2. ASSUME NEW g \in Targets, SubscribeCheck(p, g) PROVE Goal
  BY <1>2 DEF SubscribeCheck, Enter
<1>3. CASE SubscribeTake(p)
  BY <1>3 DEF SubscribeTake, Goto
<1>4. CASE SubscribeEmit(p)
  BY <1>4 DEF SubscribeEmit, Emit, Goto, LinkTypes
<1>5. CASE SubscribeFail(p)
  BY <1>5 DEF SubscribeFail, Fail, Goto
<1>6. CASE SubscribeCommit(p)
  BY <1>6 DEF SubscribeCommit, Goto
<1>7. CASE Unsubscribe(p)
  BY <1>7 DEF Unsubscribe, Enter
<1>8. CASE Disconnect(p)
  BY <1>8 DEF Disconnect, Enter
<1>9. CASE ReadSubscribed(p)
  BY <1>9 DEF ReadSubscribed, After, Goto
<1>10. CASE UnsubscribeTest(p)
  BY <1>10 DEF UnsubscribeTest, Goto
<1>11. CASE UnsubscribeEmit(p)
  BY <1>11 DEF UnsubscribeEmit, Emit, Goto, LinkTypes
<1>12. CASE UnsubscribeFail(p)
  BY <1>12 DEF UnsubscribeFail, Fail, Goto
<1>13. CASE UnsubscribeDrop(p)
  BY <1>13 DEF UnsubscribeDrop, After, Goto
<1>14. CASE CloseSocket(p)
  BY <1>14 DEF CloseSocket, Lose, Goto
<1> QED
  BY <1>2, <1>3, <1>4, <1>5, <1>6, <1>7, <1>8, <1>9, <1>10, <1>11, <1>12,
     <1>13, <1>14 DEF Call

\* The steps that are no caller's.
Elsewhere ==
    \/ \E m \in Messages : Handle(m)
    \/ \E g \in Targets : Receive(g)
    \/ UNCHANGED vars

LEMMA ElsewhereUntouched ==
    Elsewhere => UNCHANGED <<callVars, channelVars, linkVars>>
BY DEF Elsewhere, Handle, Arrive, Look, Keep, Load, Send, Receive, vars

LEMMA StepLone ==
    ASSUME TypeOK, TypeOK', LoneInv, [Next]_vars
    PROVE  LoneInv'
<1> USE DEF callVars, channelVars
<1>1. ASSUME NEW p \in Callers, Call(p) PROVE LoneInv'
  BY <1>1, StepLoneCall
<1>2. CASE Elsewhere
  BY <1>2, ElsewhereUntouched
  DEF LoneInv, Exclusive, CallerAt, Busy, linkVars
<1>3. CASE WorkerAccept \/ WorkerReject
  BY <1>3
  DEF WorkerAccept, WorkerReject, LoneInv, Exclusive, CallerAt, Busy
<1>4. CASE Connect
  BY <1>4 DEF Connect, LoneInv, Exclusive, CallerAt, Busy
<1>5. CASE Break
  BY <1>5 DEF Break, Lose, LoneInv, Exclusive, CallerAt, Busy
<1>6. CASE DispatchAck
  <2>1. ASSUME NEW p \in Callers
        PROVE  \/ pc'[p] = pc[p] /\ onConn'[p] = onConn[p]
               \/ pc[p] = "waitSub" /\ pc'[p] = "commit"
               \/ pc[p] = "waitUnsub" /\ pc'[p] = "drop"
    BY <1>6 DEF DispatchAck, WaitsFor
  <2>2. UNCHANGED <<arg, disconnecting, overlapped, channelVars, link, conn>>
    BY <1>6 DEF DispatchAck
  <2> SUFFICES ASSUME ~overlapped PROVE LoneInv'
    BY <2>2 DEF LoneInv
  <2>3. Exclusive'
    BY <2>1 DEF LoneInv, Exclusive, Busy
  <2>4. ASSUME NEW p \in Callers PROVE CallerAt(p)'
    BY <2>1, <2>2 DEF LoneInv, CallerAt, Busy
  <2> QED
    BY <2>2, <2>3, <2>4 DEF LoneInv
<1> QED
  BY <1>1, <1>2, <1>3, <1>4, <1>5, <1>6 DEF Next, Elsewhere

LEMMA LoneHolds == Spec => [](TypeOK /\ LoneInv)
<1>1. Init => LoneInv
  BY DEF Init, LoneInv, Exclusive, CallerAt, Busy
<1>2. TypeOK /\ TypeOK' /\ LoneInv /\ [Next]_vars => LoneInv'
  BY StepLone
<1> QED
  BY <1>1, <1>2, TypesHold, PTL DEF Spec

\* Without overlapping calls, the subscription has a target and the presence
\* list has the own user just when it should, through every failure.
THEOREM PresenceHolds == Spec => []PresenceAgrees
<1>1. LoneInv => PresenceAgrees
  BY DEF LoneInv, PresenceAgrees
<1> QED
  BY <1>1, LoneHolds, PTL

\* Without overlapping calls, no nil socket is used.
THEOREM PanicsTakeOverlap == Spec => []PanicTakesOverlap
<1>1. LoneInv => PanicTakesOverlap
  BY DEF LoneInv, CallerAt, PanicTakesOverlap
<1> QED
  BY <1>1, LoneHolds, PTL

\* A live subscription keeps its target, and one that is confirmed has the
\* target of the Subscribe that asked for it.
THEOREM SubscriptionsAreStable == Spec => SubscriptionIsStable
<1> DEFINE Step ==
      /\ subscribed /\ subscribed' => UNCHANGED <<messageChan, subscribeOpts>>
      /\ \A p \in Callers :
            ~overlapped' /\ pc[p] = "commit" /\ pc'[p] = "idle" =>
                messageChan' = arg[p] /\ subscribeOpts' = arg[p]
<1>1. ASSUME TypeOK, LoneInv, [Next]_vars PROVE Step
  <2>1. ASSUME NEW p \in Callers, Call(p) PROVE Step
    <3>1. subscribed /\ subscribed' => UNCHANGED <<messageChan, subscribeOpts>>
      BY <2>1
      DEF Call, SubscribeCheck, SubscribeTake, SubscribeEmit, SubscribeFail,
          SubscribeCommit, Unsubscribe, Disconnect, ReadSubscribed,
          UnsubscribeTest, UnsubscribeEmit, UnsubscribeFail, UnsubscribeDrop,
          CloseSocket, Enter, Emit, Fail, channelVars
    <3>2. ASSUME NEW q \in Callers, ~overlapped', pc[q] = "commit",
                 pc'[q] = "idle"
          PROVE  messageChan' = arg[q] /\ subscribeOpts' = arg[q]
      <4>1. q = p
        BY <1>1, <2>1, <3>2, OthersIdle DEF Busy
      <4>2. SubscribeCommit(p)
        BY <2>1, <3>2, <4>1
        DEF Call, SubscribeCheck, SubscribeTake, SubscribeEmit, SubscribeFail,
            Unsubscribe, Disconnect, ReadSubscribed, UnsubscribeTest,
            UnsubscribeEmit, UnsubscribeFail, UnsubscribeDrop, CloseSocket,
            Enter, Emit, Fail, Goto
      <4> QED
        BY <1>1, <2>1, <3>2, <4>1, <4>2, OthersIdle
        DEF SubscribeCommit, LoneInv, CallerAt
    <3> QED
      BY <3>1, <3>2
  <2>2. CASE UNCHANGED <<pc, channelVars>>
    BY <2>2 DEF channelVars
  <2>3. CASE DispatchAck
    <3>1. \A p \in Callers : pc[p] = "commit" => pc'[p] = "commit"
      BY <2>3 DEF DispatchAck, WaitsFor
    <3> QED
      BY <2>3, <3>1 DEF DispatchAck, channelVars
  <2>4. CASE Elsewhere \/ Connect \/ Break \/ WorkerAccept \/ WorkerReject
    BY <2>2, <2>4, ElsewhereUntouched
    DEF Connect, Break, WorkerAccept, WorkerReject, callVars
  <2> QED
    BY <1>1, <2>1, <2>3, <2>4 DEF Next, Elsewhere
<1>2. TypeOK /\ LoneInv /\ [Next]_vars => [Step]_vars
  BY <1>1
<1> QED
  BY <1>2, LoneHolds, PTL DEF Spec, SubscriptionIsStable

-----------------------------------------------------------------------------
(* The client and the worker.                                              *)

\* At most one request is under way, at one of its three stages.
InFlight(event, ack) ==
    \/ up = <<event>> /\ acks = <<>>
    \/ up = <<>> /\ acks = <<ack>>
    \/ up = <<>> /\ acks = <<>>

Waiting(p) == pc[p] \in {"waitSub", "waitUnsub"}

\* What the place a caller is at fixes of the connection.
JoinAt(p) ==
    /\ pc[p] = "waitSub" =>
          InFlight("subscribe", "subscribed") /\ (acks # <<>> => joined)
    /\ pc[p] = "waitUnsub" => InFlight("unsubscribe", "unsubscribed")
    /\ pc[p] = "commit" => joined

Calm == ~overlapped /\ clean /\ link = "open"

JoinInv ==
    /\ link # "open" => up = <<>> /\ acks = <<>> /\ ~joined
    /\ Calm => /\ \A p \in Callers : JoinAt(p)
               /\ (\A p \in Callers : ~Waiting(p)) => up = <<>> /\ acks = <<>>
               /\ SubscribedIsJoined

LEMMA OneElement ==
    /\ \A e : Append(<<>>, e) = <<e>> /\ Head(<<e>>) = e /\ Tail(<<e>>) = <<>>
    /\ \A e : <<e>> # <<>>
  OBVIOUS

LEMMA StepJoinCall ==
    ASSUME TypeOK, TypeOK', LoneInv, JoinInv, NEW p \in Callers, Call(p), Calm'
    PROVE  /\ \A q \in Callers : JoinAt(q)'
           /\ (\A q \in Callers : ~Waiting(q)') => up' = <<>> /\ acks' = <<>>
           /\ SubscribedIsJoined'
<1> USE DEF Calm
<1>1. /\ ~overlapped /\ CallerAt(p)
      /\ \A q \in Callers \ {p} : ~Busy(q) /\ ~Busy(q)'
  BY OthersIdle DEF LoneInv
<1>2. clean /\ link = "open"
  BY DEF Call, SubscribeCheck, SubscribeTake, SubscribeEmit, SubscribeFail,
         SubscribeCommit, Unsubscribe, Disconnect, ReadSubscribed,
         UnsubscribeTest, UnsubscribeEmit, UnsubscribeFail, UnsubscribeDrop,
         CloseSocket, Enter, Emit, Fail, Lose, linkVars
<1> DEFINE Own == /\ JoinAt(p)
                  /\ ~Waiting(p) => up = <<>> /\ acks = <<>>
                  /\ subscribed /\ pc[p] \notin {"waitUnsub", "drop"} => joined
<1>3. Own
  <2>1. JoinAt(p) /\ SubscribedIsJoined
    BY <1>1, <1>2 DEF JoinInv
  <2>2. ~Waiting(p) => up = <<>> /\ acks = <<>>
    BY <1>1, <1>2 DEF JoinInv, Waiting, Busy
  <2>3. \A q \in Callers : pc[q] \in {"waitUnsub", "drop"} => q = p
    BY <1>1 DEF Busy
  <2> QED
    BY <1>1, <1>2, <2>1, <2>2, <2>3 DEF SubscribedIsJoined
<1>4. SUFFICES Own'
  <2>1. \A q \in Callers \ {p} : JoinAt(q)' /\ ~Waiting(q)'
    BY <1>1 DEF JoinAt, Waiting, Busy
  <2> QED
    BY <2>1 DEF SubscribedIsJoined
<1>5. ASSUME NEW g \in Targets, SubscribeCheck(p, g) PROVE Own'
  BY <1>3, <1>5 DEF SubscribeCheck, Enter, JoinAt, Waiting, InFlight,
     channelVars, linkVars, TypeOK, CallTypes
<1>6. CASE \/ SubscribeTake(p) \/ ReadSubscribed(p) \/ UnsubscribeTest(p)
           \/ UnsubscribeDrop(p)
  BY <1>1, <1>2, <1>3, <1>6
  DEF SubscribeTake, ReadSubscribed, UnsubscribeTest, UnsubscribeDrop, After,
      Goto, JoinAt, Waiting, InFlight, channelVars, linkVars, TypeOK, CallTypes
<1>7. CASE SubscribeEmit(p)
  <2>1. up = <<>> /\ acks = <<>> /\ up' = <<"subscribe">> /\ acks' = acks
    BY <1>2, <1>3, <1>7, OneElement DEF SubscribeEmit, Emit, Goto, Waiting
  <2>2. pc'[p] = "waitSub" /\ UNCHANGED <<subscribed, joined>>
    BY <1>2, <1>7 DEF SubscribeEmit, Emit, Goto, channelVars, TypeOK, CallTypes
  <2>3. ~subscribed
    BY <1>1, <1>7 DEF SubscribeEmit, Emit, Goto, CallerAt
  <2> QED
    BY <2>1, <2>2, <2>3 DEF JoinAt, InFlight, Waiting
<1>8. CASE UnsubscribeEmit(p)
  <2>1. up = <<>> /\ acks = <<>> /\ up' = <<"unsubscribe">> /\ acks' = acks
    BY <1>2, <1>3, <1>8, OneElement DEF UnsubscribeEmit, Emit, Goto, Waiting
  <2>2. pc'[p] = "waitUnsub"
    BY <1>2, <1>8 DEF UnsubscribeEmit, Emit, Goto, TypeOK, CallTypes
  <2> QED
    BY <2>1, <2>2 DEF JoinAt, InFlight, Waiting
<1>9. CASE SubscribeFail(p) \/ UnsubscribeFail(p)
  <2>1. onConn[p] = conn
    BY <1>1, <1>9 DEF SubscribeFail, UnsubscribeFail, Fail, Goto, CallerAt
  <2> QED
    BY <1>9, <2>1 DEF SubscribeFail, UnsubscribeFail, Fail
<1>10. CASE SubscribeCommit(p)
  BY <1>3, <1>10 DEF SubscribeCommit, Goto, JoinAt, Waiting, InFlight,
     linkVars, TypeOK, CallTypes
<1>11. CASE Unsubscribe(p) \/ Disconnect(p)
  <2>1. Enter(p, "read")
    BY <1>11 DEF Unsubscribe, Disconnect
  <2> QED
    BY <1>3, <2>1 DEF Enter, JoinAt, Waiting, InFlight, channelVars, linkVars,
       TypeOK, CallTypes
<1>12. CASE CloseSocket(p)
  BY <1>12 DEF CloseSocket, Lose
<1> QED
  BY <1>5, <1>6, <1>7, <1>8, <1>9, <1>10, <1>11, <1>12 DEF Call

\* The worker's steps and the dispatch of its acks: a caller waits for them.
LEMMA StepJoinWorker ==
    ASSUME TypeOK, LoneInv, JoinInv, Calm',
           WorkerAccept \/ WorkerReject \/ DispatchAck
    PROVE  /\ \A q \in Callers : JoinAt(q)'
           /\ (\A q \in Callers : ~Waiting(q)') => up' = <<>> /\ acks' = <<>>
           /\ SubscribedIsJoined'
<1> USE DEF Calm
<1>1. Calm
  <2>1. CASE WorkerAccept
    BY <2>1 DEF WorkerAccept, callVars
  <2>2. CASE WorkerReject
    BY <2>2 DEF WorkerReject, callVars
  <2>3. CASE DispatchAck
    BY <2>3 DEF DispatchAck
  <2> QED
    BY <2>1, <2>2, <2>3
<1>2. PICK p \in Callers : Waiting(p)
  BY <1>1 DEF JoinInv, WorkerAccept, WorkerReject, DispatchAck
<1>3. /\ \A q \in Callers \ {p} : pc[q] = "idle"
      /\ CallerAt(p) /\ JoinAt(p)
  BY <1>1, <1>2 DEF LoneInv, Exclusive, Busy, Waiting, JoinInv
<1>4. \/ WorkerAccept \/ WorkerReject
      \/ DispatchAck
  OBVIOUS
<1>5. CASE WorkerAccept
  <2>1. UNCHANGED <<pc, subscribed>>
    BY <1>5 DEF WorkerAccept, callVars, channelVars
  <2>2. /\ acks = <<>> /\ up' = <<>>
        /\ \/ /\ pc[p] = "waitSub" /\ up = <<"subscribe">>
              /\ acks' = <<"subscribed">> /\ joined'
           \/ /\ pc[p] = "waitUnsub" /\ up = <<"unsubscribe">>
              /\ acks' = <<"unsubscribed">>
    BY <1>2, <1>3, <1>5, OneElement
    DEF WorkerAccept, JoinAt, InFlight, Waiting, AckOf, Events
  <2> QED
    BY <1>2, <1>3, <2>1, <2>2
    DEF JoinAt, InFlight, Waiting, SubscribedIsJoined
<1>6. CASE WorkerReject
  <2>1. UNCHANGED <<pc, subscribed, acks, joined>>
    BY <1>6 DEF WorkerReject, callVars, channelVars
  <2>2. acks = <<>> /\ up' = <<>>
    BY <1>2, <1>3, <1>6, OneElement
    DEF WorkerReject, JoinAt, InFlight, Waiting
  <2>3. ~subscribed \/ pc[p] = "waitUnsub"
    BY <1>2, <1>3 DEF CallerAt, Waiting
  <2> QED
    BY <1>2, <1>3, <2>1, <2>2, <2>3
    DEF JoinAt, InFlight, Waiting, SubscribedIsJoined
<1>7. CASE DispatchAck
  <2>1. /\ up = <<>> /\ up' = <<>> /\ acks' = <<>>
        /\ acks = IF pc[p] = "waitSub" THEN <<"subscribed">>
                  ELSE <<"unsubscribed">>
        /\ UNCHANGED <<subscribed, joined>>
    BY <1>2, <1>3, <1>7, OneElement
    DEF DispatchAck, JoinAt, InFlight, Waiting, channelVars
  <2>2. \A q \in Callers \ {p} : pc'[q] = "idle"
    BY <1>3, <1>7 DEF DispatchAck, WaitsFor
  <2>3. pc'[p] = IF pc[p] = "waitSub" THEN "commit" ELSE "drop"
    BY <1>2, <1>3, <1>7, <2>1, OneElement
    DEF DispatchAck, WaitsFor, Waiting, CallerAt
  <2>4. pc[p] = "waitSub" => joined /\ ~subscribed
    BY <1>3, <2>1, OneElement DEF JoinAt, CallerAt
  <2> QED
    BY <1>2, <2>1, <2>2, <2>3, <2>4 DEF JoinAt, Waiting, SubscribedIsJoined
<1> QED
  BY <1>4, <1>5, <1>6, <1>7

LEMMA StepJoin ==
    ASSUME TypeOK, TypeOK', LoneInv, JoinInv, [Next]_vars
    PROVE  JoinInv'
<1>1. link' # "open" => up' = <<>> /\ acks' = <<>> /\ ~joined'
  BY ElsewhereUntouched
  DEF JoinInv, Next, Call, SubscribeCheck, SubscribeTake, SubscribeEmit,
      SubscribeFail, SubscribeCommit, Unsubscribe, Disconnect, ReadSubscribed,
      UnsubscribeTest, UnsubscribeEmit, UnsubscribeFail, UnsubscribeDrop,
      CloseSocket, Enter, Emit, Fail, Lose, Connect, Break, WorkerAccept,
      WorkerReject, DispatchAck, Elsewhere, linkVars
<1> SUFFICES ASSUME Calm'
             PROVE  /\ \A q \in Callers : JoinAt(q)'
                    /\ (\A q \in Callers : ~Waiting(q)') =>
                           up' = <<>> /\ acks' = <<>>
                    /\ SubscribedIsJoined'
    BY <1>1 DEF JoinInv
<1>2. CASE \E p \in Callers : Call(p)
  BY <1>2, StepJoinCall
<1>3. CASE WorkerAccept \/ WorkerReject \/ DispatchAck
  BY <1>3, StepJoinWorker
<1>4. CASE Elsewhere
  <2>0. UNCHANGED <<callVars, channelVars, linkVars>>
    BY <1>4, ElsewhereUntouched
  <2>1. Calm /\ UNCHANGED <<callVars, channelVars, linkVars>>
    BY <2>0 DEF Calm, callVars, linkVars
  <2> QED
    BY <2>1 DEF JoinInv, JoinAt, InFlight, Waiting, SubscribedIsJoined,
       callVars, channelVars, linkVars
<1>5. CASE Connect
  <2>1. /\ up' = <<>> /\ acks' = <<>> /\ ~subscribed'
        /\ \A p \in Callers : pc'[p] \in {"idle", "read"}
    BY <1>5
    DEF Connect, Calm, LoneInv, CallerAt, JoinInv, callVars, channelVars
  <2> QED
    BY <2>1 DEF JoinAt, SubscribedIsJoined
<1>6. CASE Break
  BY <1>6 DEF Break, Lose, Calm
<1> QED
  BY <1>2, <1>3, <1>4, <1>5, <1>6 DEF Next, Elsewhere

\* While calls have not overlapped and no request of the connection has failed,
\* a subscribed channel is one the worker delivers to.
THEOREM SubscribedMeansJoined == Spec => []SubscribedIsJoined
<1>1. Init => JoinInv
  BY DEF Init, JoinInv, Calm
<1>2. TypeOK /\ TypeOK' /\ LoneInv /\ JoinInv /\ [Next]_vars => JoinInv'
  BY StepJoin
<1>3. JoinInv => SubscribedIsJoined
  BY DEF JoinInv, Calm, SubscribedIsJoined
<1> QED
  BY <1>1, <1>2, <1>3, LoneHolds, PTL DEF Spec

-----------------------------------------------------------------------------
(* The local history.                                                      *)

\* h is the last HistoryCap elements of r.
Latest(h, r) ==
    /\ Len(h) = IF Len(r) < HistoryCap THEN Len(r) ELSE HistoryCap
    /\ \A i \in 1..Len(h) : h[i] = r[Len(r) - Len(h) + i]

LEMMA Shift ==
    ASSUME NEW a \in Int, NEW b \in Int, NEW i \in Int
    PROVE  /\ a - b + (i + 1) = a + 1 - b + i
           /\ a - b + i = a + 1 - (b + 1) + i
  OBVIOUS

\* Cutting at every step is cutting once.
LEMMA CutStep ==
    ASSUME NEW h \in Seq(Messages), NEW r \in Seq(Messages),
           NEW m \in Messages, Latest(h, r)
    PROVE  Latest(LastKept(Append(h, m)), Append(r, m))
<1> DEFINE g == LastKept(Append(h, m))
<1>0. Len(h) \in Nat /\ Len(r) \in Nat /\ HistoryCap \in Nat \ {0}
  BY CapAssumption
<1>1. /\ \A i \in 1..Len(h) : Append(h, m)[i] = h[i]
      /\ \A i \in 1..Len(r) : Append(r, m)[i] = r[i]
      /\ Append(h, m)[Len(h) + 1] = m /\ Append(r, m)[Len(r) + 1] = m
      /\ Append(h, m) \in Seq(Messages) /\ Len(Append(h, m)) = Len(h) + 1
      /\ Len(Append(r, m)) = Len(r) + 1
  OBVIOUS
<1>2. ASSUME NEW i \in 1..(Len(h) + 1)
      PROVE  Append(h, m)[i] = Append(r, m)[Len(r) - Len(h) + i]
  <2>1. CASE i = Len(h) + 1
    BY <1>0, <1>1, <2>1
  <2>2. CASE i \in 1..Len(h)
    <3>1. Len(r) - Len(h) + i \in 1..Len(r)
      BY <1>0, <2>2 DEF Latest
    <3> QED
      BY <1>1, <2>2, <3>1 DEF Latest
  <2>3. i = Len(h) + 1 \/ i \in 1..Len(h)
    BY <1>0, <1>2
  <2> QED
    BY <2>1, <2>2, <2>3, Zenon
<1>3. CASE Len(h) = HistoryCap
  <2>1. g = SubSeq(Append(h, m), 2, HistoryCap + 1)
    BY <1>0, <1>1, <1>3 DEF LastKept
  <2>2. /\ Len(g) = HistoryCap
        /\ \A i \in 1..HistoryCap : g[i] = Append(h, m)[i + 1]
    BY <1>0, <1>1, <1>3, <2>1
  <2>3. ~(Len(r) + 1 < HistoryCap)
    BY <1>0, <1>3 DEF Latest
  <2>4. ASSUME NEW i \in 1..Len(g)
        PROVE  g[i] = Append(r, m)[Len(r) + 1 - Len(g) + i]
    <3>1. i \in Int /\ i \in 1..HistoryCap /\ i + 1 \in 1..(Len(h) + 1)
      BY <1>0, <1>3, <2>2
    <3>2. g[i] = Append(r, m)[Len(r) - Len(h) + (i + 1)]
      BY <1>2, <2>2, <3>1
    <3>3. Len(r) - Len(h) + (i + 1) = Len(r) + 1 - Len(h) + i
      BY <1>0, <3>1, Shift
    <3>4. Len(g) = Len(h)
      BY <1>3, <2>2
    <3> QED
      BY <3>2, <3>3, <3>4, Zenon
  <2>5. Len(Append(r, m)) = Len(r) + 1 /\ Len(g) = HistoryCap
    BY <1>1, <2>2
  <2> HIDE DEF g
  <2>6. Latest(g, Append(r, m))
    <3>1. Len(g) = IF Len(Append(r, m)) < HistoryCap
                   THEN Len(Append(r, m)) ELSE HistoryCap
      BY <2>3, <2>5
    <3>2. ASSUME NEW i \in 1..Len(g)
          PROVE  g[i] = Append(r, m)[Len(Append(r, m)) - Len(g) + i]
      <4>1. g[i] = Append(r, m)[Len(r) + 1 - Len(g) + i]
        BY <2>4, <3>2
      <4>2. Len(r) + 1 - Len(g) + i = Len(Append(r, m)) - Len(g) + i
        BY <2>5
      <4> QED
        BY <4>1, <4>2, Zenon
    <3> QED
      BY <3>1, <3>2, Zenon DEF Latest
  <2> QED
    BY <2>6 DEF g
<1>4. CASE Len(h) < HistoryCap
  <2>1. Len(h) = Len(r) /\ Len(h) + 1 <= HistoryCap
    BY <1>0, <1>4 DEF Latest
  <2>2. g = Append(h, m)
    <3>1. ~(Len(Append(h, m)) > HistoryCap)
      BY <1>0, <1>1, <2>1
    <3> QED
      BY <3>1 DEF LastKept
  <2>3. Len(g) = Len(r) + 1 /\ Len(g) = Len(h) + 1
    BY <1>1, <2>1, <2>2
  <2>4. Len(g) = IF Len(r) + 1 < HistoryCap THEN Len(r) + 1 ELSE HistoryCap
    BY <1>0, <2>1, <2>3
  <2>5. ASSUME NEW i \in 1..Len(g)
        PROVE  g[i] = Append(r, m)[Len(r) + 1 - Len(g) + i]
    <3>1. i \in Int /\ i \in 1..(Len(h) + 1)
      BY <1>0, <2>3
    <3>2. g[i] = Append(r, m)[Len(r) - Len(h) + i]
      BY <1>2, <2>2, <3>1
    <3>3. Len(r) - Len(h) + i = Len(r) + 1 - (Len(h) + 1) + i
      BY <1>0, <3>1, Shift
    <3> QED
      BY <2>3, <3>2, <3>3, Zenon
  <2>6. Len(Append(r, m)) = Len(r) + 1
    BY <1>1
  <2> HIDE DEF g
  <2>7. Latest(g, Append(r, m))
    <3>1. Len(g) = IF Len(Append(r, m)) < HistoryCap
                   THEN Len(Append(r, m)) ELSE HistoryCap
      BY <2>4, <2>6
    <3>2. ASSUME NEW i \in 1..Len(g)
          PROVE  g[i] = Append(r, m)[Len(Append(r, m)) - Len(g) + i]
      <4>1. g[i] = Append(r, m)[Len(r) + 1 - Len(g) + i]
        BY <2>5, <3>2
      <4>2. Len(r) + 1 - Len(g) + i = Len(Append(r, m)) - Len(g) + i
        BY <2>6
      <4> QED
        BY <4>1, <4>2, Zenon
    <3> QED
      BY <3>1, <3>2, Zenon DEF Latest
  <2> QED
    BY <2>7 DEF g
<1> QED
  <2>1. Len(h) = HistoryCap \/ Len(h) < HistoryCap
    BY <1>0 DEF Latest
  <2> QED
    BY <1>3, <1>4, <2>1

LEMMA StepHistory ==
    ASSUME HistoryTypes, HistoryIsLatest, NEW m \in Messages, Keep(m)
    PROVE  HistoryIsLatest'
<1>1. history' = LastKept(Append(history, m)) /\ retained' = Append(retained, m)
  BY DEF Keep
<1>2. Latest(history, retained)
  BY DEF HistoryIsLatest, Latest
<1>3. Latest(history', retained')
  BY <1>1, <1>2, CutStep DEF HistoryTypes
<1> QED
  BY <1>3 DEF HistoryIsLatest, Latest

\* The local history is always the latest of what was retained.
THEOREM HistoryHolds == Spec => []HistoryIsLatest
<1>1. Init => HistoryIsLatest
  BY CapAssumption DEF Init, HistoryIsLatest
<1>2. TypeOK /\ HistoryIsLatest /\ [Next]_vars => HistoryIsLatest'
  <2> SUFFICES ASSUME TypeOK, HistoryIsLatest, [Next]_vars
               PROVE  HistoryIsLatest'
    OBVIOUS
  <2>1. CASE \E m \in Messages : Keep(m)
    BY <2>1, StepHistory DEF TypeOK
  <2>2. CASE UNCHANGED historyVars
    BY <2>2 DEF historyVars, HistoryIsLatest
  <2> QED
    BY <2>1, <2>2
    DEF Next, Call, SubscribeCheck, SubscribeTake, SubscribeEmit,
        SubscribeFail, SubscribeCommit, Unsubscribe, Disconnect,
        ReadSubscribed, UnsubscribeTest, UnsubscribeEmit, UnsubscribeFail,
        UnsubscribeDrop, CloseSocket, Enter, Emit, Fail, Connect, Break,
        WorkerAccept, WorkerReject, DispatchAck, Handle, Arrive, Look, Load,
        Send, Receive, vars
<1> QED
  BY <1>1, <1>2, TypesHold, PTL DEF Spec
=============================================================================
