--------------------------- MODULE HeartbeatProofs ---------------------------
(***************************************************************************)
(* Proofs about Heartbeat, for any callers and any number of starts.       *)
(***************************************************************************)
EXTENDS Heartbeat, Integers, TLAPS

LEMMA TypesInit == Init => TypeOK
<1> SUFFICES ASSUME Init PROVE TypeOK
  OBVIOUS
<1> USE DEF Init
<1>1. starts \in 0 .. MaxStarts /\ ticker \in 0 .. tickers
  BY MaxStartsAssumption
<1>2. pc \in [Callers -> Pcs] /\ hpc \in [Heartbeats -> LoopPcs]
  BY DEF Pcs, LoopPcs
<1>3. overlapped \in BOOLEAN /\ cancelled \in BOOLEAN
  OBVIOUS
<1> QED
  BY <1>1, <1>2, <1>3 DEF TypeOK

\* Every step of a caller keeps the types.
LEMMA CallerTypes ==
    ASSUME TypeOK, NEW p \in Callers, Start(p) \/ Stop(p) \/ Step(p)
    PROVE  TypeOK'
<1> USE DEF TypeOK, Pcs, LoopPcs, Goto, callVars, clientVars, loopVars
<1>1. CASE Start(p)
  <2> USE <1>1 DEF Start, Enter
  <2>1. overlapped' \in BOOLEAN
    BY DEF Quiet
  <2>2. starts' \in 0 .. MaxStarts
    BY MaxStartsAssumption
  <2> QED
    BY <2>1, <2>2
<1>2. CASE Stop(p)
  <2> USE <1>2 DEF Stop, Enter
  <2>1. overlapped' \in BOOLEAN
    BY DEF Quiet
  <2>2. starts' \in 0 .. MaxStarts
    BY MaxStartsAssumption
  <2> QED
    BY <2>1, <2>2
<1>3. CASE StartTest(p)
  BY <1>3 DEF StartTest
<1>4. CASE MakeTicker(p)
  <2> USE <1>4 DEF MakeTicker
  <2>1. tickers' \in Nat /\ ticker' \in 0 .. tickers'
    OBVIOUS
  <2>2. running' \subseteq 1 .. tickers' /\ ticks' \subseteq 1 .. tickers'
    OBVIOUS
  <2> QED
    BY <2>1, <2>2
<1>5. CASE Spawn(p)
  <2> USE <1>5 DEF Spawn
  <2>1. hpc' \in [Heartbeats -> LoopPcs]
    OBVIOUS
  <2>2. pc' \in [Callers -> Pcs]
    OBVIOUS
  <2> QED
    BY <2>1, <2>2
<1>6. CASE StopTest(p)
  BY <1>6 DEF StopTest
<1>7. CASE Halt(p)
  BY <1>7 DEF Halt
<1>8. CASE Forget(p)
  BY <1>8 DEF Forget
<1>9. CASE CloseDone(p)
  BY <1>9 DEF CloseDone
<1>10. CASE Renew(p)
  <2> USE <1>10 DEF Renew
  <2>1. done' \in Nat /\ closed' \subseteq 0 .. done'
    OBVIOUS
  <2> QED
    BY <2>1
<1> QED
  BY <1>1, <1>2, <1>3, <1>4, <1>5, <1>6, <1>7, <1>8, <1>9, <1>10 DEF Step

\* Every step of a heartbeat goroutine keeps the types.
LEMMA LoopTypes ==
    ASSUME TypeOK, NEW h \in Heartbeats, Turn(h) \/ Receive(h)
    PROVE  TypeOK'
<1> USE DEF TypeOK, LoopPcs, HeartbeatGoto, callVars, clientVars
<1>1. CASE EvalTicker(h)
  BY <1>1 DEF EvalTicker
<1>2. CASE EvalDone(h)
  BY <1>2 DEF EvalDone
<1>3. CASE Beat(h)
  BY <1>3 DEF Beat
<1>4. CASE EndStopped(h)
  BY <1>4 DEF EndStopped
<1>5. CASE EndCancelled(h)
  BY <1>5 DEF EndCancelled
<1> QED
  BY <1>1, <1>2, <1>3, <1>4, <1>5 DEF Turn, Receive

LEMMA TypesStep == TypeOK /\ [Next]_vars => TypeOK'
<1> SUFFICES ASSUME TypeOK, [Next]_vars PROVE TypeOK'
  OBVIOUS
<1>1. ASSUME NEW p \in Callers, Start(p) \/ Stop(p) \/ Step(p) PROVE TypeOK'
  BY <1>1, CallerTypes
<1>2. ASSUME NEW h \in Heartbeats, Turn(h) \/ Receive(h) PROVE TypeOK'
  BY <1>2, LoopTypes
<1>3. CASE Cancel
  BY <1>3 DEF Cancel, TypeOK, callVars, loopVars
<1>4. ASSUME NEW t \in running, Fire(t) PROVE TypeOK'
  BY <1>4 DEF Fire, TypeOK, callVars, clientVars, loopVars
<1>5. CASE UNCHANGED vars
  BY <1>5 DEF TypeOK, vars, callVars, clientVars, loopVars
<1> QED
  BY <1>1, <1>2, <1>3, <1>4, <1>5 DEF Next

\* The types of Heartbeat: tickers and done channels in use are ones that were
\* made, whatever calls overlap.
THEOREM TypesHold == Spec => []TypeOK
<1>1. TypeOK /\ [Next]_vars => TypeOK'
  BY TypesStep
<1> QED
  BY TypesInit, <1>1, PTL DEF Spec

-----------------------------------------------------------------------------
(* The done channel.                                                       *)

\* One caller at a time is between closing the done channel and renewing it:
\* a second one would have panicked.
RenewInv ==
    \A p \in Callers : pc[p] = "renew" =>
        done \in closed /\ \A q \in Callers \ {p} : pc[q] # "renew"

\* A goroutine waits on a closed channel or on the present one.
ReachInv ==
    \A h \in Heartbeats :
        hpc[h] = "select" => hdone[h] \in closed \cup {done}

WaitInv == RenewInv /\ ReachInv

LEMMA WaitInit == Init => WaitInv
  BY DEF Init, WaitInv, RenewInv, ReachInv

LEMMA WaitStep == TypeOK /\ WaitInv /\ [Next]_vars => WaitInv'
<1> SUFFICES ASSUME TypeOK, WaitInv, [Next]_vars PROVE WaitInv'
  OBVIOUS
<1> USE DEF TypeOK, WaitInv, RenewInv, ReachInv
<1>1. ASSUME NEW p \in Callers, Start(p) \/ Stop(p) PROVE WaitInv'
  BY <1>1 DEF Start, Stop, Enter, Goto, clientVars, loopVars
<1>2. ASSUME NEW p \in Callers, Step(p) PROVE WaitInv'
  <2> USE DEF Goto, clientVars, loopVars
  <2>1. CASE StartTest(p)
    BY <2>1 DEF StartTest
  <2>2. CASE MakeTicker(p)
    BY <2>2 DEF MakeTicker
  <2>3. CASE Spawn(p)
    BY <2>3 DEF Spawn
  <2>4. CASE StopTest(p)
    BY <2>4 DEF StopTest
  <2>5. CASE Halt(p)
    BY <2>5 DEF Halt
  <2>6. CASE Forget(p)
    BY <2>6 DEF Forget
  <2>7. CASE CloseDone(p)
    BY <2>7 DEF CloseDone
  <2>8. CASE Renew(p)
    BY <2>8 DEF Renew
  <2> QED
    BY <1>2, <2>1, <2>2, <2>3, <2>4, <2>5, <2>6, <2>7, <2>8 DEF Step
<1>3. ASSUME NEW h \in Heartbeats, Turn(h) \/ Receive(h) PROVE WaitInv'
  <2> USE DEF HeartbeatGoto, callVars, clientVars
  <2>1. CASE EvalTicker(h)
    BY <2>1 DEF EvalTicker
  <2>2. CASE EvalDone(h)
    BY <2>2 DEF EvalDone
  <2>3. CASE Beat(h)
    BY <2>3 DEF Beat
  <2>4. CASE EndStopped(h)
    BY <2>4 DEF EndStopped
  <2>5. CASE EndCancelled(h)
    BY <2>5 DEF EndCancelled
  <2> QED
    BY <1>3, <2>1, <2>2, <2>3, <2>4, <2>5 DEF Turn, Receive
<1>4. CASE Cancel
  BY <1>4 DEF Cancel, callVars, loopVars
<1>5. ASSUME NEW t \in running, Fire(t) PROVE WaitInv'
  BY <1>5 DEF Fire, callVars, clientVars, loopVars
<1>6. CASE UNCHANGED vars
  BY <1>6 DEF vars, callVars, clientVars, loopVars
<1> QED
  BY <1>1, <1>2, <1>3, <1>4, <1>5, <1>6 DEF Next

\* Only Renew replaces the done channel, which is closed by then.
LEMMA RenewReleases ==
    ASSUME TypeOK, WaitInv, [Next]_vars, done' # done
    PROVE  \A h \in Heartbeats : hpc[h] = "select" => hdone[h] \in closed
<1>1. PICK p \in Callers : Renew(p)
  BY DEF Next, vars, callVars, clientVars, Start, Stop, Enter, Step, StartTest,
     MakeTicker, Spawn, StopTest, Halt, Forget, CloseDone, Cancel, Turn,
     Receive, EvalTicker, EvalDone, Beat, EndStopped, EndCancelled, Fire
<1>2. done \in closed
  BY <1>1 DEF Renew, Goto, WaitInv, RenewInv
<1> QED
  BY <1>2 DEF WaitInv, ReachInv

\* A stop that goes through releases every goroutine in its select, although
\* calls may overlap and nothing is locked: a second close panics before a
\* channel can be replaced unclosed.
THEOREM StopsReleaseWaiters == Spec => StopReleasesWaiters
<1>1. /\ TypeOK /\ WaitInv /\ [Next]_vars
      => [done' # done =>
            \A h \in Heartbeats : hpc[h] = "select" => hdone[h] \in closed]_vars
  BY RenewReleases
<1> QED
  BY TypesHold, WaitInit, WaitStep, <1>1, PTL DEF Spec, StopReleasesWaiters

-----------------------------------------------------------------------------
(* Calls that do not overlap.                                              *)

\* What a caller's program point says of the ticker.
PointInv(p) ==
    /\ pc[p] \in {"make", "close", "renew"} => ticker = 0
    /\ pc[p] \in {"spawn", "halt", "forget"} => ticker # 0
    /\ pc[p] # "panic"

\* One caller is inside at most.
Alone == \A p, q \in Callers : pc[p] # "idle" /\ pc[q] # "idle" => p = q

\* The done channel is open except just before it is renewed.
OpenInv == done \in closed => \E p \in Callers : pc[p] = "renew"

SerialInv == ~overlapped => Alone /\ OpenInv /\ \A p \in Callers : PointInv(p)

LEMMA SerialInit == Init => SerialInv
  BY DEF Init, SerialInv, Alone, OpenInv, PointInv

LEMMA SerialStep == TypeOK /\ SerialInv /\ [Next]_vars => SerialInv'
<1> SUFFICES ASSUME TypeOK, SerialInv, [Next]_vars, ~overlapped'
             PROVE  (Alone /\ OpenInv /\ \A p \in Callers : PointInv(p))'
  BY DEF SerialInv
<1> DEFINE Goal == (Alone /\ OpenInv /\ \A p \in Callers : PointInv(p))'
<1>0. ~overlapped
  BY DEF Next, vars, Start, Stop, Enter, Step, StartTest, MakeTicker, Spawn,
     StopTest, Halt, Forget, CloseDone, Renew, Cancel, Turn, Receive,
     EvalTicker, EvalDone, Beat, EndStopped, EndCancelled, Fire, callVars
<1> USE <1>0 DEF TypeOK, SerialInv, Alone, OpenInv, PointInv
<1>1. ASSUME NEW p \in Callers, Start(p) PROVE Goal
  BY <1>1 DEF Start, Enter, Goto, Quiet, clientVars
<1>2. ASSUME NEW p \in Callers, Stop(p) PROVE Goal
  BY <1>2 DEF Stop, Enter, Goto, Quiet, clientVars
<1>3. ASSUME NEW p \in Callers, Step(p) PROVE Goal
  <2> USE DEF Goto, clientVars
  <2>1. CASE StartTest(p)
    BY <2>1 DEF StartTest
  <2>2. CASE MakeTicker(p)
    BY <2>2 DEF MakeTicker
  <2>3. CASE Spawn(p)
    BY <2>3 DEF Spawn
  <2>4. CASE StopTest(p)
    BY <2>4 DEF StopTest
  <2>5. CASE Halt(p)
    BY <2>5 DEF Halt
  <2>6. CASE Forget(p)
    BY <2>6 DEF Forget
  <2>7. CASE CloseDone(p)
    BY <2>7 DEF CloseDone
  <2>8. CASE Renew(p)
    BY <2>8 DEF Renew
  <2> QED
    BY <1>3, <2>1, <2>2, <2>3, <2>4, <2>5, <2>6, <2>7, <2>8 DEF Step
<1>4. ASSUME NEW h \in Heartbeats, Turn(h) \/ Receive(h) PROVE Goal
  BY <1>4 DEF Turn, Receive, EvalTicker, EvalDone, Beat, EndStopped,
     EndCancelled, callVars, clientVars
<1>5. CASE Cancel
  BY <1>5 DEF Cancel, callVars
<1>6. ASSUME NEW t \in running, Fire(t) PROVE Goal
  BY <1>6 DEF Fire, callVars, clientVars
<1>7. CASE UNCHANGED vars
  BY <1>7 DEF vars, callVars, clientVars
<1> QED
  BY <1>1, <1>2, <1>3, <1>4, <1>5, <1>6, <1>7 DEF Next

LEMMA SerialHolds == Spec => []SerialInv
  BY TypesHold, SerialInit, SerialStep, PTL DEF Spec

\* As long as no two calls have been inside together, stopHeartbeat finds the
\* ticker it has tested and a channel that is open.
THEOREM StopPanicsTakeOverlap == Spec => []StopPanicTakesOverlap
<1>1. SerialInv => StopPanicTakesOverlap
  BY DEF SerialInv, PointInv, StopPanicTakesOverlap
<1> QED
  BY SerialHolds, <1>1, PTL

-----------------------------------------------------------------------------
(* The goroutine of the ticker.                                            *)

\* h beats on the ticker the client holds.
Serves(h) ==
    \/ hpc[h] = "turn"
    \/ hpc[h] = "turnDone" /\ hticker[h] = ticker
    \/ hpc[h] = "select" /\ hticker[h] = ticker /\ hdone[h] \notin closed

\* TickerIsServed, with a caller inside too, unless it is about to spawn.
ServedInv ==
    /\ ~overlapped /\ ~cancelled /\ ticker # 0
    /\ \A p \in Callers : pc[p] # "spawn"
    => \E h \in Heartbeats : Serves(h)

LEMMA ServedInit == Init => ServedInv
  BY DEF Init, ServedInv

LEMMA ServedStep ==
    TypeOK /\ SerialInv /\ ServedInv /\ [Next]_vars => ServedInv'
<1> SUFFICES ASSUME TypeOK, SerialInv, ServedInv, [Next]_vars,
                    ~overlapped', ~cancelled', ticker' # 0,
                    \A p \in Callers : pc'[p] # "spawn"
             PROVE  \E h \in Heartbeats : Serves(h)'
  BY DEF ServedInv
<1> DEFINE Goal == \E h \in Heartbeats : Serves(h)'
<1>0. ~overlapped /\ ~cancelled
  <2>1. ~overlapped
    BY DEF Next, vars, Start, Stop, Enter, Step, StartTest, MakeTicker, Spawn,
       StopTest, Halt, Forget, CloseDone, Renew, Cancel, Turn, Receive,
       EvalTicker, EvalDone, Beat, EndStopped, EndCancelled, Fire, callVars
  <2>2. ~cancelled
    BY DEF Next, vars, Start, Stop, Enter, Step, StartTest, MakeTicker, Spawn,
       StopTest, Halt, Forget, CloseDone, Renew, Cancel, Turn, Receive,
       EvalTicker, EvalDone, Beat, EndStopped, EndCancelled, Fire, clientVars
  <2> QED
    BY <2>1, <2>2
<1>1. ASSUME UNCHANGED <<ticker, closed, loopVars>>,
             \A p \in Callers : pc[p] # "spawn"
      PROVE  Goal
  BY <1>0, <1>1 DEF ServedInv, Serves, loopVars
<1>2. ASSUME NEW p \in Callers, Start(p) \/ Stop(p) PROVE Goal
  <2>1. \A q \in Callers : pc[q] # "spawn"
    BY <1>2 DEF Start, Stop, Enter, Goto, TypeOK
  <2> QED
    BY <1>1, <1>2, <2>1 DEF Start, Stop, Enter, clientVars
<1>3. ASSUME NEW p \in Callers, Step(p) PROVE Goal
  <2>1. ASSUME pc[p] # "spawn" PROVE \A q \in Callers : pc[q] # "spawn"
    BY <1>0, <1>3, <2>1 DEF Step, StartTest, MakeTicker, Spawn, StopTest,
       Halt, Forget, CloseDone, Renew, Goto, TypeOK, SerialInv, Alone
  <2>2. CASE StartTest(p)
    BY <1>1, <2>1, <2>2 DEF StartTest, Goto, clientVars
  <2>3. CASE MakeTicker(p)
    BY <2>3 DEF MakeTicker, Goto, TypeOK
  <2>4. CASE Spawn(p)
    <3>1. PICK h \in Heartbeats : hpc' = [hpc EXCEPT ![h] = "turn"]
      BY <2>4 DEF Spawn
    <3>2. hpc'[h] = "turn"
      BY <3>1 DEF TypeOK
    <3> QED
      BY <3>2 DEF Serves
  <2>5. CASE StopTest(p)
    BY <1>1, <2>1, <2>5 DEF StopTest, Goto, clientVars
  <2>6. CASE Halt(p)
    BY <1>1, <2>1, <2>6 DEF Halt, Goto
  <2>7. CASE Forget(p)
    BY <2>7 DEF Forget
  <2>8. CASE CloseDone(p)
    BY <1>0, <2>8 DEF CloseDone, Goto, SerialInv, PointInv
  <2>9. CASE Renew(p)
    BY <1>0, <2>9 DEF Renew, Goto, SerialInv, PointInv
  <2> QED
    BY <1>3, <2>2, <2>3, <2>4, <2>5, <2>6, <2>7, <2>8, <2>9 DEF Step
<1>4. ASSUME NEW h \in Heartbeats, Turn(h) \/ Receive(h) PROVE Goal
  <2> USE DEF HeartbeatGoto, callVars, clientVars, TypeOK
  <2>1. UNCHANGED <<ticker, closed, done, pc>>
    BY <1>4 DEF Turn, Receive, EvalTicker, EvalDone, Beat, EndStopped,
       EndCancelled
  <2>2. PICK g \in Heartbeats : Serves(g)
    BY <1>0, <2>1 DEF ServedInv
  <2>3. done \notin closed
    BY <1>0, <2>1 DEF SerialInv, OpenInv, PointInv
  <2>4. CASE EvalTicker(h)
    BY <2>1, <2>2, <2>4 DEF EvalTicker, Serves
  <2>5. CASE EvalDone(h)
    BY <2>1, <2>2, <2>3, <2>5 DEF EvalDone, Serves
  <2>6. CASE Beat(h)
    BY <2>6 DEF Beat, Serves
  <2>7. CASE EndStopped(h)
    BY <2>1, <2>2, <2>7 DEF EndStopped, Serves
  <2>8. CASE EndCancelled(h)
    BY <1>0, <2>8 DEF EndCancelled
  <2> QED
    BY <1>4, <2>4, <2>5, <2>6, <2>7, <2>8 DEF Turn, Receive
<1>5. CASE Cancel
  BY <1>5 DEF Cancel
<1>6. ASSUME NEW t \in running, Fire(t) PROVE Goal
  BY <1>1, <1>6 DEF Fire, callVars, clientVars
<1>7. CASE UNCHANGED vars
  BY <1>1, <1>7 DEF vars, callVars, clientVars
<1> QED
  BY <1>2, <1>3, <1>4, <1>5, <1>6, <1>7 DEF Next

\* As long as no two calls have been inside together, a ticker that is set has
\* a goroutine that beats on it: startHeartbeat may well do nothing then.
THEOREM TickersAreServed == Spec => []TickerIsServed
<1>1. ServedInv => TickerIsServed
  BY DEF ServedInv, Serves, TickerIsServed, Quiet
<1> QED
  BY TypesHold, SerialHolds, ServedInit, ServedStep, <1>1, PTL DEF Spec
=============================================================================
