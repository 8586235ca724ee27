------------------------ MODULE ClientLifecycleProofs ------------------------
(***************************************************************************)
(* Proofs about ClientLifecycle, for any sets of goroutines and sockets    *)
(* and any retry budget.                                                   *)
(***************************************************************************)
EXTENDS ClientLifecycle, TLAPS

-----------------------------------------------------------------------------
(* Any interleaving.                                                       *)

\* The backing of the transient states is inductive together with the types.
FreeInv == TypeOK /\ PendingIsBacked

\* Every action of any goroutine keeps the types.
LEMMA TypeStep == TypeOK /\ [Next]_vars => TypeOK'
<1> SUFFICES ASSUME TypeOK, [Next]_vars PROVE TypeOK'
    OBVIOUS
<1> USE MaxCallsAssumption
<1> USE DEF TypeOK, Goto, Goroutines, Pcs, ConnectPcs, DisconnectPcs,
            ConnectionState, Events, SocketStatus, history, Watch
<1>1. ASSUME NEW p \in Goroutines, Start(p) PROVE TypeOK'
  <2>1. CASE CallConnect(p)
    BY <2>1 DEF CallConnect
  <2>2. CASE CallDisconnect(p)
    BY <2>2 DEF CallDisconnect
  <2>3. CASE CallClose(p)
    BY <2>3 DEF CallClose
  <2>4. CASE Wake(p)
    BY <2>4 DEF Wake
  <2> QED
    BY <1>1, <2>1, <2>2, <2>3, <2>4 DEF Start
<1>2. ASSUME NEW p \in Goroutines, Step(p) PROVE TypeOK'
  <2>1. CASE CheckConnected(p)
    BY <2>1 DEF CheckConnected
  <2>2. CASE CheckConnecting(p)
    BY <2>2 DEF CheckConnecting
  <2>3. CASE Begin(p)
    BY <2>3 DEF Begin
  <2>4. CASE Assign(p)
    BY <2>4 DEF Assign
  <2>5. CASE Dial(p)
    BY <2>5 DEF Dial
  <2>6. CASE Install(p)
    BY <2>6 DEF Install
  <2>7. CASE StartHeartbeat(p)
    BY <2>7 DEF StartHeartbeat
  <2>8. CASE Commit(p)
    BY <2>8 DEF Commit
  <2>9. CASE Fail(p)
    BY <2>9 DEF Fail
  <2>10. CASE Decide(p)
    BY <2>10 DEF Decide
  <2>11. CASE SchedCheck(p)
    BY <2>11 DEF SchedCheck
  <2>12. CASE SchedSet(p)
    BY <2>12 DEF SchedSet
  <2>13. CASE SchedSpawn(p)
    BY <2>13 DEF SchedSpawn
  <2>14. CASE DisconnectCheck(p)
    BY <2>14 DEF DisconnectCheck
  <2>15. CASE StopHeartbeat(p)
    BY <2>15 DEF StopHeartbeat
  <2>16. CASE TestSocket(p)
    BY <2>16 DEF TestSocket
  <2>17. CASE CloseSocket(p)
    BY <2>17 DEF CloseSocket
  <2>18. CASE ForgetSocket(p)
    BY <2>18 DEF ForgetSocket
  <2>19. CASE DisconnectDone(p)
    BY <2>19 DEF DisconnectDone
  <2> QED
    BY <1>2, <2>1, <2>2, <2>3, <2>4, <2>5, <2>6, <2>7, <2>8, <2>9, <2>10,
       <2>11, <2>12, <2>13, <2>14, <2>15, <2>16, <2>17, <2>18, <2>19 DEF Step
<1>3. ASSUME NEW s \in Sockets, WorkerDrop(s) PROVE TypeOK'
  BY <1>3 DEF WorkerDrop
<1>4. CASE UNCHANGED vars
  BY <1>4 DEF vars
<1> QED
  BY <1>1, <1>2, <1>3, <1>4 DEF Next

\* A new client has the types of TypeOK.
LEMMA TypeInit == Init => TypeOK
<1> SUFFICES ASSUME Init PROVE TypeOK
    OBVIOUS
<1> USE DEF Init
<1>1. /\ state \in ConnectionState /\ reconnectCount \in Nat
      /\ socket \in Sockets \cup {NoSocket} /\ heartbeat \in BOOLEAN
      /\ cancelled \in BOOLEAN /\ event \in Events
      /\ mixed \in BOOLEAN /\ overlapped \in BOOLEAN
  BY DEF ConnectionState, Events
<1>2. calls \in 0 .. MaxCalls
  BY MaxCallsAssumption
<1>3. sockets \in [Sockets -> SocketStatus] /\ pc \in [Goroutines -> Pcs]
  BY DEF SocketStatus, Pcs
<1>4. /\ cur \in [Goroutines -> Sockets \cup {NoSocket}]
      /\ seen \in [Goroutines -> Nat]
  OBVIOUS
<1> QED
  BY <1>1, <1>2, <1>3, <1>4 DEF TypeOK

\* The state is Connecting or Reconnecting only while some goroutine is on its
\* way to change it, whatever the goroutines do to one another.
THEOREM PendingBacked == Spec => []PendingIsBacked
<1>1. Init => FreeInv
  <2> SUFFICES ASSUME Init PROVE PendingIsBacked
    BY TypeInit DEF FreeInv
  <2> QED
    BY DEF Init, PendingIsBacked
<1>2. FreeInv /\ [Next]_vars => FreeInv'
  <2> SUFFICES ASSUME FreeInv, [Next]_vars PROVE PendingIsBacked'
    BY TypeStep DEF FreeInv
  <2> USE DEF FreeInv, TypeOK, PendingIsBacked, AttemptPcs, Goto
  <2>1. ASSUME NEW p \in Goroutines, Start(p) PROVE PendingIsBacked'
    BY <2>1 DEF Start, CallConnect, CallDisconnect, CallClose, Wake
  <2>2. ASSUME NEW p \in Goroutines, Step(p) PROVE PendingIsBacked'
    <3>1. CASE CheckConnected(p) \/ CheckConnecting(p)
      BY <3>1 DEF CheckConnected, CheckConnecting
    <3>2. CASE Begin(p) \/ Assign(p) \/ Dial(p) \/ Install(p)
      BY <3>2 DEF Begin, Assign, Dial, Install
    <3>3. CASE StartHeartbeat(p) \/ Commit(p) \/ Fail(p) \/ Decide(p)
      BY <3>3 DEF StartHeartbeat, Commit, Fail, Decide
    <3>4. CASE SchedCheck(p) \/ SchedSet(p)
      BY <3>4 DEF SchedCheck, SchedSet
    <3>5. CASE SchedSpawn(p)
      BY <3>5 DEF SchedSpawn, Goroutines
    <3>6. CASE \/ DisconnectCheck(p) \/ StopHeartbeat(p) \/ TestSocket(p)
               \/ CloseSocket(p) \/ ForgetSocket(p) \/ DisconnectDone(p)
      BY <3>6 DEF DisconnectCheck, StopHeartbeat, TestSocket, CloseSocket,
                  ForgetSocket, DisconnectDone
    <3> QED
      BY <2>2, <3>1, <3>2, <3>3, <3>4, <3>5, <3>6 DEF Step
  <2>3. ASSUME NEW s \in Sockets, WorkerDrop(s) PROVE PendingIsBacked'
    BY <2>3 DEF WorkerDrop
  <2>4. CASE UNCHANGED vars
    BY <2>4 DEF vars
  <2> QED
    BY <2>1, <2>2, <2>3, <2>4 DEF Next
<1>3. FreeInv => PendingIsBacked
  BY DEF FreeInv
<1> QED
  BY <1>1, <1>2, <1>3, PTL DEF Spec

\* No step inside the client touches the history.
LEMMA StepWatches ==
    ASSUME NEW p \in Goroutines, Step(p)
    PROVE  mixed' = mixed /\ overlapped' = overlapped
BY DEF Step, CheckConnected, CheckConnecting, Begin, Assign, Dial, Install,
       StartHeartbeat, Commit, Fail, Decide, SchedCheck, SchedSet, SchedSpawn,
       DisconnectCheck, StopHeartbeat, TestSocket, CloseSocket, ForgetSocket,
       DisconnectDone, history

\* Which goroutines disconnect, one at a time while calls do not overlap, and
\* what they and an installation hold.
HeldInv ==
    /\ TypeOK
    /\ ~overlapped =>
          /\ \A p, q \in Callers : Busy(p) /\ Busy(q) => p = q
          /\ \A p \in Goroutines :
                /\ pc[p] \in DisconnectPcs => p \in Callers
                /\ pc[p] = "install" => cur[p] \in Sockets
                /\ pc[p] = "dClose" => socket # NoSocket
                /\ pc[p] # "panicked"

\* Whatever reconnections run beside the calls of the application, it takes two
\* calls at a time to make the client panic: only a second Disconnect can take
\* the socket away between the test and the close.
THEOREM PanicsTakeOverlap == Spec => []PanicTakesOverlap
<1>1. Init => HeldInv
  <2> SUFFICES ASSUME Init PROVE HeldInv
    OBVIOUS
  <2>1. \A p \in Goroutines : pc[p] = "idle"
    BY DEF Init
  <2> QED
    BY <2>1, TypeInit DEF HeldInv, DisconnectPcs, Busy, Goroutines
<1>2. HeldInv /\ [Next]_vars => HeldInv'
  <2> SUFFICES ASSUME HeldInv, [Next]_vars PROVE HeldInv'
    OBVIOUS
  <2>0. TypeOK'
    BY TypeStep DEF HeldInv
  <2> USE DEF HeldInv, TypeOK, Goto, DisconnectPcs, Busy, Goroutines
  <2>1. ASSUME NEW p \in Goroutines, Start(p) PROVE HeldInv'
    <3>1. CASE CallConnect(p)
      BY <2>0, <3>1 DEF CallConnect, Watch
    <3>2. CASE CallDisconnect(p) \/ CallClose(p)
      BY <2>0, <3>2 DEF CallDisconnect, CallClose, Watch
    <3>3. CASE Wake(p)
      BY <2>0, <3>3, GoroutinesAssumption DEF Wake, Watch
    <3> QED
      BY <2>1, <3>1, <3>2, <3>3 DEF Start
  <2>2. ASSUME NEW p \in Goroutines, Step(p) PROVE HeldInv'
    <3>0. overlapped' = overlapped
      BY <2>2, StepWatches
    <3>1. CASE CheckConnected(p) \/ CheckConnecting(p) \/ Begin(p)
      BY <2>0, <3>0, <3>1 DEF CheckConnected, CheckConnecting, Begin
    <3>2. CASE Assign(p) \/ Dial(p)
      BY <2>0, <3>0, <3>2 DEF Assign, Dial
    <3>3. CASE Install(p)
      BY <2>0, <3>0, <3>3, NoSocketAssumption DEF Install
    <3>4. CASE StartHeartbeat(p) \/ Commit(p) \/ Fail(p) \/ Decide(p)
      BY <2>0, <3>0, <3>4 DEF StartHeartbeat, Commit, Fail, Decide
    <3>5. CASE SchedCheck(p) \/ SchedSet(p) \/ SchedSpawn(p)
      BY <2>0, <3>0, <3>5 DEF SchedCheck, SchedSet, SchedSpawn
    <3>6. CASE DisconnectCheck(p) \/ StopHeartbeat(p) \/ DisconnectDone(p)
      BY <2>0, <3>0, <3>6 DEF DisconnectCheck, StopHeartbeat, DisconnectDone
    <3>7. CASE TestSocket(p)
      BY <2>0, <3>0, <3>7 DEF TestSocket
    <3>8. CASE CloseSocket(p)
      BY <2>0, <3>0, <3>8 DEF CloseSocket
    <3>9. CASE ForgetSocket(p)
      BY <2>0, <3>0, <3>9 DEF ForgetSocket
    <3> QED
      BY <2>2, <3>1, <3>2, <3>3, <3>4, <3>5, <3>6, <3>7, <3>8, <3>9 DEF Step
  <2>3. ASSUME NEW s \in Sockets, WorkerDrop(s) PROVE HeldInv'
    BY <2>0, <2>3 DEF WorkerDrop, history
  <2>4. CASE UNCHANGED vars
    BY <2>0, <2>4 DEF vars, history
  <2> QED
    BY <2>1, <2>2, <2>3, <2>4 DEF Next
<1>3. HeldInv => PanicTakesOverlap
  BY DEF HeldInv, PanicTakesOverlap
<1> QED
  BY <1>1, <1>2, <1>3, PTL DEF Spec

-----------------------------------------------------------------------------
(* As long as nobody has entered while another was inside.                 *)

\* At most one goroutine is inside the client.
OneInside ==
    \A p, q \in Goroutines : Busy(p) /\ Busy(q) => p = q

Down == socket = NoSocket /\ ~heartbeat

\* What StateAgrees says, whether or not the client is quiet.
Agreed ==
    /\ state # "Connecting"
    /\ (state = "Connected") = (socket # NoSocket)
    /\ (state = "Connected") = heartbeat
    /\ (state = "Connected") = (event = "connected")
    /\ (state = "Reconnecting") = (event = "reconnecting")

\* Where a goroutine is inside Connect tells the state.
InsideConnect(p) ==
    /\ pc[p] = "checkConnected" => Agreed
    /\ pc[p] = "checkConnecting" => Agreed /\ state # "Connected"
    /\ pc[p] = "begin" => Down /\ state \in {"Disconnected", "Reconnecting"}
    /\ pc[p] \in {"assign", "dial", "install", "fail"} =>
          Down /\ state = "Connecting"
    /\ pc[p] = "install" => cur[p] \in Sockets
    /\ pc[p] = "heartbeat" =>
          socket # NoSocket /\ ~heartbeat /\ state = "Connecting"
    /\ pc[p] = "commit" =>
          socket # NoSocket /\ heartbeat /\ state = "Connecting"
    /\ pc[p] \in {"decide", "schedCheck", "schedSet"} =>
          Down /\ state = "Disconnected" /\ event = "error"
    /\ pc[p] \in {"schedCheck", "schedSet"} => reconnectCount < MaxAttempts
    /\ pc[p] = "schedSpawn" =>
          /\ Down /\ state = "Reconnecting"
          /\ seen[p] = reconnectCount /\ reconnectCount < MaxAttempts

InsideDisconnect(p) ==
    /\ pc[p] = "dCheck" => Agreed
    /\ pc[p] \in DisconnectPcs \ {"dCheck"} =>
          state \in {"Connected", "Reconnecting"}
    /\ pc[p] \in {"dTest", "dClose", "dNil"} => ~heartbeat
    /\ pc[p] = "dClose" => socket # NoSocket /\ cur[p] = socket
    /\ pc[p] = "dNil" =>
          socket # NoSocket /\ sockets[socket] = "closed"
    /\ pc[p] = "dFinal" => Down

\* What NoOrphanSocket says of the sockets.
Owned ==
    \A s \in Sockets :
        sockets[s] = "open" =>
            \/ socket = s
            \/ \E p \in Goroutines : pc[p] = "install" /\ cur[p] = s

\* The strengthening: it ties the place of the one goroutine that is inside to
\* the state, the socket, the heartbeat and the count.  StateAgrees alone says
\* nothing of the steps in between, and NoOrphanSocket is not inductive without
\* Down before an installation.
Discipline ==
    /\ OneInside
    /\ Quiet => Agreed
    /\ \A p \in Goroutines :
          /\ pc[p] # "panicked"
          /\ InsideConnect(p)
          /\ InsideDisconnect(p)
    /\ Owned
    /\ reconnectCount <= MaxAttempts

SerialInv == TypeOK /\ (~mixed => Discipline)

\* Every step of the goroutine that is inside keeps the discipline.
LEMMA StepKeepsDiscipline ==
    ASSUME TypeOK, Discipline, NEW p \in Goroutines, Step(p)
    PROVE  Discipline'
<1> USE DEF Discipline, OneInside, Busy, Quiet, Agreed, Down, InsideConnect,
            InsideDisconnect, Owned, TypeOK, Goto, Goroutines, ConnectPcs,
            DisconnectPcs, AttemptPcs
<1> USE MaxAttemptsAssumption, NoSocketAssumption
<1>1. CASE CheckConnected(p)
  BY <1>1 DEF CheckConnected
<1>2. CASE CheckConnecting(p)
  <2>1. CASE state = "Connecting"
    BY <1>2, <2>1 DEF CheckConnecting
  <2>2. CASE state # "Connecting"
    BY <1>2, <2>2 DEF CheckConnecting, ConnectionState
  <2> QED
    BY <2>1, <2>2
<1>3. CASE Begin(p)
  BY <1>3 DEF Begin
<1>4. CASE Assign(p)
  BY <1>4 DEF Assign
<1>5. CASE Dial(p)
  BY <1>5 DEF Dial
<1>6. CASE Install(p)
  BY <1>6 DEF Install
<1>7. CASE StartHeartbeat(p)
  BY <1>7 DEF StartHeartbeat
<1>8. CASE Commit(p)
  BY <1>8 DEF Commit
<1>9. CASE Fail(p)
  BY <1>9 DEF Fail
<1>10. CASE Decide(p)
  <2>1. CASE AttemptsLeft(reconnectCount)
    BY <1>10, <2>1 DEF Decide, AttemptsLeft
  <2>2. CASE ~AttemptsLeft(reconnectCount)
    BY <1>10, <2>2 DEF Decide
  <2> QED
    BY <2>1, <2>2
<1>11. CASE SchedCheck(p)
  BY <1>11 DEF SchedCheck
<1>12. CASE SchedSet(p)
  BY <1>12 DEF SchedSet
<1>13. CASE SchedSpawn(p)
  BY <1>13 DEF SchedSpawn
<1>14. CASE DisconnectCheck(p)
  <2>1. CASE state = "Disconnected"
    BY <1>14, <2>1 DEF DisconnectCheck
  <2>2. CASE state # "Disconnected"
    BY <1>14, <2>2 DEF DisconnectCheck, ConnectionState
  <2> QED
    BY <2>1, <2>2
<1>15. CASE StopHeartbeat(p)
  BY <1>15 DEF StopHeartbeat
<1>16. CASE TestSocket(p)
  BY <1>16 DEF TestSocket
<1>17. CASE CloseSocket(p)
  BY <1>17 DEF CloseSocket
<1>18. CASE ForgetSocket(p)
  BY <1>18 DEF ForgetSocket
<1>19. CASE DisconnectDone(p)
  BY <1>19 DEF DisconnectDone
<1> QED
  BY <1>1, <1>2, <1>3, <1>4, <1>5, <1>6, <1>7, <1>8, <1>9, <1>10, <1>11,
     <1>12, <1>13, <1>14, <1>15, <1>16, <1>17, <1>18, <1>19
  DEF Step

\* A goroutine that enters a quiet client, or looks at the state and does not
\* enter, keeps the discipline.
LEMMA StartKeepsDiscipline ==
    ASSUME TypeOK, Discipline, NEW p \in Goroutines, Start(p), ~mixed'
    PROVE  Discipline'
<1> USE DEF Discipline, OneInside, Busy, Quiet, Agreed, Down, InsideConnect,
            InsideDisconnect, Owned, TypeOK, Goto, Goroutines, ConnectPcs,
            DisconnectPcs, Watch
<1>1. CASE CallConnect(p)
  BY <1>1 DEF CallConnect
<1>2. CASE CallDisconnect(p)
  BY <1>2 DEF CallDisconnect
<1>3. CASE CallClose(p)
  BY <1>3 DEF CallClose
<1>4. CASE Wake(p)
  <2>1. CASE state = "Reconnecting"
    BY <1>4, <2>1 DEF Wake
  <2>2. CASE state # "Reconnecting"
    BY <1>4, <2>2 DEF Wake
  <2> QED
    BY <2>1, <2>2
<1> QED
  BY <1>1, <1>2, <1>3, <1>4 DEF Start

\* History is not unwritten.
LEMMA MixedStays == [Next]_vars /\ mixed => mixed'
BY StepWatches
DEF Next, Start, CallConnect, CallDisconnect, CallClose, Wake, Watch,
    WorkerDrop, vars, history

\* The strengthened invariant is inductive.
LEMMA SerialStep == SerialInv /\ [Next]_vars => SerialInv'
<1> SUFFICES ASSUME SerialInv, [Next]_vars PROVE SerialInv'
    OBVIOUS
<1> USE DEF SerialInv
<1>1. TypeOK'
  BY TypeStep
<1>2. ASSUME ~mixed' PROVE Discipline'
  <2>0. Discipline
    BY <1>2, MixedStays
  <2>1. ASSUME NEW p \in Goroutines, Start(p) \/ Step(p) PROVE Discipline'
    BY <1>2, <2>0, <2>1, StepKeepsDiscipline, StartKeepsDiscipline
  <2>2. ASSUME NEW s \in Sockets, WorkerDrop(s) PROVE Discipline'
    BY <2>0, <2>2
    DEF WorkerDrop, Discipline, OneInside, Busy, Quiet, Agreed, Down,
        InsideConnect, InsideDisconnect, Owned, TypeOK
  <2>3. CASE UNCHANGED vars
    BY <2>0, <2>3
    DEF vars, Discipline, OneInside, Busy, Quiet, Agreed, Down, InsideConnect,
        InsideDisconnect, Owned
  <2> QED
    BY <2>1, <2>2, <2>3 DEF Next
<1> QED
  BY <1>1, <1>2

\* A new client is disciplined.
LEMMA SerialInit == Init => SerialInv
<1> SUFFICES ASSUME Init PROVE Discipline
    BY TypeInit DEF SerialInv
<1>1. \A p \in Goroutines : pc[p] = "idle"
  BY DEF Init
<1>2. OneInside /\ Owned
  BY <1>1 DEF Init, OneInside, Busy, Owned
<1>3. Agreed
  BY DEF Init, Agreed
<1>4. reconnectCount <= MaxAttempts
  BY MaxAttemptsAssumption DEF Init
<1>5. ASSUME NEW p \in Goroutines
      PROVE  InsideConnect(p) /\ InsideDisconnect(p)
  BY <1>1 DEF InsideConnect, InsideDisconnect, DisconnectPcs
<1> QED
  BY <1>1, <1>2, <1>3, <1>4, <1>5 DEF Discipline

\* The client keeps its strengthened invariant.
LEMMA SerialAlways == Spec => []SerialInv
BY SerialInit, SerialStep, PTL DEF Spec

\* Type correctness.
THEOREM TypesHold == Spec => []TypeOK
<1>1. SerialInv => TypeOK
  BY DEF SerialInv
<1> QED
  BY <1>1, SerialAlways, PTL

\* No connection is ever open without the client, or an attempt, holding it,
\* however many goroutines enter one after the other.
THEOREM NoOrphans == Spec => []NoOrphanSocket
<1>1. SerialInv => NoOrphanSocket
  BY DEF SerialInv, Discipline, Owned, NoOrphanSocket
<1> QED
  BY <1>1, SerialAlways, PTL

\* Between calls the state, the socket, the heartbeat and the last event agree.
THEOREM StatesAgree == Spec => []StateAgrees
<1>1. SerialInv => StateAgrees
  BY DEF SerialInv, Discipline, Agreed, StateAgrees
<1> QED
  BY <1>1, SerialAlways, PTL

\* The retry budget is not exceeded.
THEOREM RetriesBudgeted == Spec => []RetryBudget
<1>1. SerialInv => RetryBudget
  BY DEF SerialInv, Discipline, RetryBudget
<1> QED
  BY <1>1, SerialAlways, PTL

-----------------------------------------------------------------------------
(* The client implements the session.                                      *)

\* A step inside the client is a step of the session, or leaves it as it is.
LEMMA StepImplements ==
    ASSUME TypeOK, Discipline, ~mixed, NEW p \in Goroutines, Step(p)
    PROVE  [Session!SessionNext]_(Session!sessionVars)
<1>0. ~mixed'
  BY StepWatches
<1> USE <1>0 DEF TypeOK, Discipline, OneInside, Busy, Agreed, Down,
            InsideConnect, InsideDisconnect, Goto, SessionPhase, SessionTries,
            SessionLink, AttemptPcs, AftermathPcs, ConnectionState,
            DisconnectPcs
<1>1. CASE CheckConnected(p)
  BY <1>1 DEF CheckConnected, Session!SessionNext, Session!sessionVars
<1>2. CASE CheckConnecting(p)
  BY <1>2 DEF CheckConnecting, Session!SessionNext, Session!sessionVars
<1>3. CASE Begin(p)
  BY <1>3 DEF Begin, Session!SessionNext, Session!sessionVars, Session!Try
<1>4. CASE Assign(p)
  BY <1>4 DEF Assign, Session!SessionNext, Session!sessionVars
<1>5. CASE Dial(p)
  BY <1>5 DEF Dial, Session!SessionNext, Session!sessionVars
<1>6. CASE Install(p)
  BY <1>6 DEF Install, Session!SessionNext, Session!sessionVars
<1>7. CASE StartHeartbeat(p)
  BY <1>7 DEF StartHeartbeat, Session!SessionNext, Session!sessionVars
<1>8. CASE Commit(p)
  BY <1>8 DEF Commit, Session!SessionNext, Session!sessionVars, Session!Succeed
<1>9. CASE Fail(p)
  BY <1>9 DEF Fail, Session!SessionNext, Session!sessionVars
<1>10. CASE Decide(p)
  <2>1. CASE AttemptsLeft(reconnectCount)
    BY <1>10, <2>1 DEF Decide, Session!sessionVars
  <2>2. CASE ~AttemptsLeft(reconnectCount)
    BY <1>10, <2>2, MaxAttemptsAssumption
    DEF Decide, AttemptsLeft, Session!SessionNext, Session!GiveUp
  <2> QED
    BY <2>1, <2>2
<1>11. CASE SchedCheck(p)
  BY <1>11 DEF SchedCheck, Session!SessionNext, Session!sessionVars
<1>12. CASE SchedSet(p)
  BY <1>12 DEF SchedSet, Session!SessionNext, Session!sessionVars
<1>13. CASE SchedSpawn(p)
  <2>1. SessionPhase = "trying"
    BY <1>13 DEF SchedSpawn
  <2>2. SessionPhase' = "waiting" /\ reconnectCount' = reconnectCount + 1
    BY <1>13 DEF SchedSpawn
  <2>3. ~SessionLink /\ ~SessionLink'
    BY <1>13 DEF SchedSpawn
  <2>4. reconnectCount < MaxAttempts
    BY <1>13 DEF SchedSpawn
  <2> QED
    BY <2>1, <2>2, <2>3, <2>4 DEF Session!SessionNext, Session!Postpone
<1>14. CASE DisconnectCheck(p)
  BY <1>14 DEF DisconnectCheck, Session!SessionNext, Session!sessionVars
<1>15. CASE StopHeartbeat(p)
  BY <1>15 DEF StopHeartbeat, Session!SessionNext, Session!sessionVars
<1>16. CASE TestSocket(p)
  BY <1>16
  DEF TestSocket, Session!SessionNext, Session!sessionVars, Session!Shut
<1>17. CASE CloseSocket(p)
  BY <1>17 DEF CloseSocket, Session!SessionNext, Session!sessionVars
<1>18. CASE ForgetSocket(p)
  BY <1>18
  DEF ForgetSocket, Session!SessionNext, Session!sessionVars, Session!Shut
<1>19. CASE DisconnectDone(p)
  BY <1>19 DEF DisconnectDone, Session!SessionNext, Session!sessionVars
<1> QED
  BY <1>1, <1>2, <1>3, <1>4, <1>5, <1>6, <1>7, <1>8, <1>9, <1>10, <1>11,
     <1>12, <1>13, <1>14, <1>15, <1>16, <1>17, <1>18, <1>19
  DEF Step

\* Entering a quiet client, or not entering, changes nothing the session shows.
LEMMA StartImplements ==
    ASSUME TypeOK, ~mixed, NEW p \in Goroutines, Start(p), ~mixed'
    PROVE  UNCHANGED Session!sessionVars
<1>1. ASSUME NEW q \in Goroutines
      PROVE  /\ pc'[q] \in AttemptPcs <=> pc[q] \in AttemptPcs
             /\ pc'[q] \in AftermathPcs <=> pc[q] \in AftermathPcs
             /\ pc'[q] = "dFinal" <=> pc[q] = "dFinal"
  BY DEF TypeOK, Start, CallConnect, CallDisconnect, CallClose, Wake, Goto,
         AttemptPcs, AftermathPcs
<1>2. UNCHANGED <<state, reconnectCount, socket>>
  BY DEF Start, CallConnect, CallDisconnect, CallClose, Wake
<1>3. UNCHANGED SessionPhase
  <2> DEFINE Trying == \E q \in Goroutines :
                           pc[q] \in AttemptPcs \cup AftermathPcs
             Downed == \E q \in Goroutines : pc[q] = "dFinal"
             Of(s)  == CASE s = "Disconnected" -> "down"
                         [] s = "Connecting"   -> "trying"
                         [] s = "Connected"    -> "up"
                         [] s = "Reconnecting" -> "waiting"
  <2>1. Trying' = Trying /\ Downed' = Downed
    BY <1>1
  <2>2. SessionPhase = IF Trying THEN "trying"
                       ELSE IF Downed THEN "down" ELSE Of(state)
    BY DEF SessionPhase
  <2>3. SessionPhase' = IF Trying' THEN "trying"
                        ELSE IF Downed' THEN "down" ELSE Of(state')
    BY DEF SessionPhase
  <2> HIDE DEF Trying, Downed, Of
  <2> QED
    BY <1>2, <2>1, <2>2, <2>3
<1>4. UNCHANGED SessionLink
  BY <1>1, <1>2 DEF SessionLink
<1>5. UNCHANGED SessionTries
  BY <1>2 DEF SessionTries
<1> QED
  BY <1>3, <1>4, <1>5 DEF Session!sessionVars

\* The lifecycle implements the session: a new client is a session that is
\* down, and each step of a goroutine or of the worker is a step of the session
\* or leaves it as it is; where a goroutine enters while another is inside, the
\* session is contended from then on.  (Its progress is model-checked.)
THEOREM LifecycleIsSession == Spec => Session!SessionSafety
<1>1. Init => Session!SessionInit
  <2> SUFFICES ASSUME Init PROVE Session!SessionInit
    OBVIOUS
  <2>1. \A p \in Goroutines : pc[p] = "idle"
    BY DEF Init
  <2>2. SessionPhase = "down" /\ SessionLink = FALSE /\ SessionTries = 0
    BY <2>1 DEF Init, SessionPhase, SessionLink, SessionTries, AttemptPcs,
                AftermathPcs
  <2> QED
    BY <2>2 DEF Session!SessionInit
<1>2. SerialInv /\ [Next]_vars => [Session!SessionNext]_(Session!sessionVars)
  <2> SUFFICES ASSUME SerialInv, [Next]_vars
               PROVE  [Session!SessionNext]_(Session!sessionVars)
    OBVIOUS
  <2>1. CASE mixed'
    <3>1. /\ SessionPhase' = "contended" /\ SessionTries' = 0
          /\ SessionLink' = FALSE
      BY <2>1 DEF SessionPhase, SessionTries, SessionLink
    <3> QED
      BY <3>1 DEF Session!SessionNext, Session!Contend
  <2>2. CASE ~mixed'
    <3>1. ~mixed /\ TypeOK /\ Discipline
      BY <2>2, MixedStays DEF SerialInv
    <3>2. CASE \E p \in Goroutines : Start(p) \/ Step(p)
      BY <2>2, <3>1, <3>2, StepImplements, StartImplements
    <3>3. CASE (\E s \in Sockets : WorkerDrop(s)) \/ UNCHANGED vars
      <4>1. UNCHANGED <<state, reconnectCount, socket, pc, mixed>>
        BY <3>3 DEF WorkerDrop, vars, history
      <4>2. UNCHANGED <<SessionPhase, SessionTries, SessionLink>>
        BY <4>1 DEF SessionPhase, SessionTries, SessionLink
      <4> QED
        BY <4>2 DEF Session!sessionVars
    <3> QED
      BY <3>2, <3>3 DEF Next
  <2> QED
    BY <2>1, <2>2
<1> QED
  BY <1>1, <1>2, SerialAlways, PTL DEF Spec, Session!SessionSafety
=============================================================================
