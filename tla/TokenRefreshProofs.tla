-------------------------- MODULE TokenRefreshProofs --------------------------
(***************************************************************************)
(* Proofs about TokenRefresh, for any timers, tokens and bounds.           *)
(***************************************************************************)
EXTENDS TokenRefresh, Integers, TLAPS

\* The steps that only the application takes, and those only a timer takes.
AppStep ==
    Connect \/ Disconnect \/ Dial \/ Commit \/ HaltTimer \/ DropSocket \/ Down

TimerStep(t) == Fire(t) \/ Check(t) \/ TestSocket(t) \/ Update(t)

\* The steps there are.
LEMMA StepCases ==
    ASSUME [Next]_vars, NEW G,
           \A a \in Actors : Shared(a) => G,
           AppStep => G,
           \A t \in Timers : TimerStep(t) => G,
           UNCHANGED vars => G
    PROVE  G
  BY Zenon DEF Next, Call, Callback, Actors, AppStep, TimerStep

-----------------------------------------------------------------------------
(* The types.                                                              *)

\* What a step leaves of a program counter.
PcTypes ==
    /\ pc \in [Actors -> AppPcs \cup TimerPcs]
    /\ pc[App] \in AppPcs /\ \A t \in Timers : pc[t] \in TimerPcs

DataTypes ==
    /\ got \in [Actors -> Tokens \cup {NoToken}]
    /\ mine \in [Actors -> Timers \cup {NoTimer}]
    /\ due \in [Timers -> Tokens \cup {NoToken}]
    /\ state \in States
    /\ conns \in Nat
    /\ socket \in BOOLEAN
    /\ token \in Tokens \cup {NoToken}
    /\ stored \in Timers \cup {NoTimer}

HistoryTypes == lost \subseteq Reasons /\ mixed \in BOOLEAN

LEMMA TypesSplit == TypeOK <=> PcTypes /\ DataTypes /\ HistoryTypes
  BY DEF TypeOK, PcTypes, DataTypes, HistoryTypes

LEMMA TypesJoin == PcTypes' /\ DataTypes' /\ HistoryTypes' => TypeOK'
  BY DEF TypeOK, PcTypes, DataTypes, HistoryTypes

LEMMA TypesInit == Init => TypeOK
<1> SUFFICES ASSUME Init PROVE TypeOK
  OBVIOUS
<1> USE ActorAssumption DEF Init
<1>1. PcTypes
  BY DEF PcTypes, Actors, AppPcs, TimerPcs, SharedPcs
<1>2. DataTypes
  BY DEF DataTypes, States
<1>3. HistoryTypes
  BY DEF HistoryTypes
<1> QED
  BY <1>1, <1>2, <1>3, TypesSplit

\* Stopping the stored timer turns it from armed to at rest.
LEMMA StoppedTypes ==
    ASSUME TypeOK
    PROVE  /\ Stopped \in [Actors -> AppPcs \cup TimerPcs]
           /\ Stopped[App] = pc[App]
           /\ \A t \in Timers :
                 Stopped[t] = IF t = stored /\ pc[t] = "armed" THEN "rest"
                              ELSE pc[t]
  BY ActorAssumption
     DEF Stopped, TypeOK, Actors, AppPcs, TimerPcs, SharedPcs

LEMMA SharedTypes ==
    ASSUME TypeOK, NEW a \in Actors, Shared(a)
    PROVE  TypeOK'
<1> USE ActorAssumption
    DEF Goto, Failed, Actors, AppPcs, TimerPcs, SharedPcs, After, localVars,
        clientVars
<1>1. CASE MintFails(a)
  <2> USE <1>1 DEF MintFails
  <2>1. PcTypes'
    BY DEF PcTypes, TypeOK
  <2>2. DataTypes'
    BY DEF DataTypes, TypeOK, States
  <2>3. HistoryTypes'
    BY DEF HistoryTypes, TypeOK, Reasons
  <2> QED
    BY <2>1, <2>2, <2>3, TypesJoin
<1>2. CASE Mint(a)
  <2> USE <1>2 DEF Mint
  <2>1. PcTypes'
    BY DEF PcTypes, TypeOK
  <2>2. DataTypes'
    BY DEF DataTypes, TypeOK, States
  <2>3. HistoryTypes'
    BY DEF HistoryTypes, TypeOK, Reasons
  <2> QED
    BY <2>1, <2>2, <2>3, TypesJoin
<1>3. CASE Cache(a)
  <2> USE <1>3 DEF Cache
  <2>1. PcTypes'
    BY DEF PcTypes, TypeOK
  <2>2. DataTypes'
    BY DEF DataTypes, TypeOK, States
  <2>3. HistoryTypes'
    BY DEF HistoryTypes, TypeOK, Reasons
  <2> QED
    BY <2>1, <2>2, <2>3, TypesJoin
<1>4. CASE StopOld(a)
  <2> USE <1>4 DEF StopOld
  <2>1. PcTypes'
    BY StoppedTypes DEF PcTypes, TypeOK
  <2>2. DataTypes'
    BY DEF DataTypes, TypeOK, States
  <2>3. HistoryTypes'
    BY DEF HistoryTypes, TypeOK, Reasons
  <2> QED
    BY <2>1, <2>2, <2>3, TypesJoin
<1>5. CASE Arm(a)
  <2> USE <1>5 DEF Arm
  <2>1. PcTypes'
    BY DEF PcTypes, TypeOK
  <2>2. DataTypes'
    BY DEF DataTypes, TypeOK, States
  <2>3. HistoryTypes'
    BY DEF HistoryTypes, TypeOK, Reasons
  <2> QED
    BY <2>1, <2>2, <2>3, TypesJoin
<1>6. CASE Store(a)
  <2> USE <1>6 DEF Store
  <2>1. PcTypes'
    BY DEF PcTypes, TypeOK
  <2>2. DataTypes'
    BY DEF DataTypes, TypeOK, States
  <2>3. HistoryTypes'
    BY DEF HistoryTypes, TypeOK, Reasons
  <2> QED
    BY <2>1, <2>2, <2>3, TypesJoin
<1> QED
  BY <1>1, <1>2, <1>3, <1>4, <1>5, <1>6 DEF Shared

LEMMA AppTypes ==
    ASSUME TypeOK, AppStep
    PROVE  TypeOK'
<1> USE ActorAssumption
    DEF Goto, Failed, Actors, AppPcs, TimerPcs, SharedPcs, After, localVars,
        clientVars
<1>1. CASE Connect
  <2> USE <1>1 DEF Connect
  <2>1. PcTypes'
    BY DEF PcTypes, TypeOK
  <2>2. DataTypes'
    BY DEF DataTypes, TypeOK, States
  <2>3. HistoryTypes'
    BY DEF HistoryTypes, TypeOK, Reasons
  <2> QED
    BY <2>1, <2>2, <2>3, TypesJoin
<1>2. CASE Disconnect
  <2> USE <1>2 DEF Disconnect
  <2>1. PcTypes'
    BY DEF PcTypes, TypeOK
  <2>2. DataTypes'
    BY DEF DataTypes, TypeOK, States
  <2>3. HistoryTypes'
    BY DEF HistoryTypes, TypeOK, Reasons
  <2> QED
    BY <2>1, <2>2, <2>3, TypesJoin
<1>3. CASE Dial
  <2> USE <1>3 DEF Dial
  <2>1. PcTypes'
    BY DEF PcTypes, TypeOK
  <2>2. DataTypes'
    <3>1. state' \in States
      BY DEF TypeOK, States
    <3>2. conns' \in Nat /\ socket' \in BOOLEAN
      <4>1. CASE socket' = TRUE /\ conns' = conns + 1
        BY <4>1 DEF TypeOK
      <4>2. CASE UNCHANGED <<socket, conns>>
        BY <4>2 DEF TypeOK
      <4> QED
        BY <4>1, <4>2
    <3> QED
      BY <3>1, <3>2 DEF DataTypes, TypeOK
  <2>3. HistoryTypes'
    BY DEF HistoryTypes, TypeOK, Reasons
  <2> QED
    BY <2>1, <2>2, <2>3, TypesJoin
<1>4. CASE Commit
  <2> USE <1>4 DEF Commit
  <2>1. PcTypes'
    BY DEF PcTypes, TypeOK
  <2>2. DataTypes'
    BY DEF DataTypes, TypeOK, States
  <2>3. HistoryTypes'
    BY DEF HistoryTypes, TypeOK, Reasons
  <2> QED
    BY <2>1, <2>2, <2>3, TypesJoin
<1>5. CASE HaltTimer
  <2> USE <1>5 DEF HaltTimer
  <2>1. PcTypes'
    BY StoppedTypes DEF PcTypes, TypeOK
  <2>2. DataTypes'
    BY DEF DataTypes, TypeOK, States
  <2>3. HistoryTypes'
    BY DEF HistoryTypes, TypeOK, Reasons
  <2> QED
    BY <2>1, <2>2, <2>3, TypesJoin
<1>6. CASE DropSocket
  <2> USE <1>6 DEF DropSocket
  <2>1. PcTypes'
    BY DEF PcTypes, TypeOK
  <2>2. DataTypes'
    BY DEF DataTypes, TypeOK, States
  <2>3. HistoryTypes'
    BY DEF HistoryTypes, TypeOK, Reasons
  <2> QED
    BY <2>1, <2>2, <2>3, TypesJoin
<1>7. CASE Down
  <2> USE <1>7 DEF Down
  <2>1. PcTypes'
    BY DEF PcTypes, TypeOK
  <2>2. DataTypes'
    BY DEF DataTypes, TypeOK, States
  <2>3. HistoryTypes'
    BY DEF HistoryTypes, TypeOK, Reasons
  <2> QED
    BY <2>1, <2>2, <2>3, TypesJoin
<1> QED
  BY <1>1, <1>2, <1>3, <1>4, <1>5, <1>6, <1>7 DEF AppStep

LEMMA TimerTypes ==
    ASSUME TypeOK, NEW t \in Timers, TimerStep(t)
    PROVE  TypeOK'
<1> USE ActorAssumption
    DEF Goto, Failed, Actors, AppPcs, TimerPcs, SharedPcs, After, localVars,
        clientVars
<1>1. CASE Fire(t)
  <2> USE <1>1 DEF Fire
  <2>1. PcTypes'
    BY DEF PcTypes, TypeOK
  <2>2. DataTypes'
    BY DEF DataTypes, TypeOK, States
  <2>3. HistoryTypes'
    BY DEF HistoryTypes, TypeOK, Reasons
  <2> QED
    BY <2>1, <2>2, <2>3, TypesJoin
<1>2. CASE Check(t)
  <2> USE <1>2 DEF Check
  <2>1. PcTypes'
    BY DEF PcTypes, TypeOK
  <2>2. DataTypes'
    BY DEF DataTypes, TypeOK, States
  <2>3. HistoryTypes'
    BY DEF HistoryTypes, TypeOK, Reasons
  <2> QED
    BY <2>1, <2>2, <2>3, TypesJoin
<1>3. CASE TestSocket(t)
  <2> USE <1>3 DEF TestSocket
  <2>1. PcTypes'
    BY DEF PcTypes, TypeOK
  <2>2. DataTypes'
    BY DEF DataTypes, TypeOK, States
  <2>3. HistoryTypes'
    BY DEF HistoryTypes, TypeOK, Reasons
  <2> QED
    BY <2>1, <2>2, <2>3, TypesJoin
<1>4. CASE Update(t)
  <2> USE <1>4 DEF Update
  <2>1. PcTypes'
    BY DEF PcTypes, TypeOK
  <2>2. DataTypes'
    BY DEF DataTypes, TypeOK, States
  <2>3. HistoryTypes'
    BY DEF HistoryTypes, TypeOK, Reasons
  <2> QED
    BY <2>1, <2>2, <2>3, TypesJoin
<1> QED
  BY <1>1, <1>2, <1>3, <1>4 DEF TimerStep

LEMMA TypesStep == TypeOK /\ [Next]_vars => TypeOK'
<1> SUFFICES ASSUME TypeOK, [Next]_vars PROVE TypeOK'
  OBVIOUS
<1>1. UNCHANGED vars => TypeOK'
  BY DEF vars, localVars, clientVars, TypeOK
<1> QED
  BY <1>1, SharedTypes, AppTypes, TimerTypes, StepCases

\* The types of TokenRefresh: neither the application nor a timer leaves its own
\* program, and what is stored and armed are timers.
THEOREM TypesHold == Spec => []TypeOK
  BY TypesInit, TypesStep, PTL DEF Spec

-----------------------------------------------------------------------------
(* Renewals.                                                               *)

\* The program points from the first critical section of scheduleTokenRefresh
\* on.
Scheduled == {"arm", "store", "commit"}

\* The state at each program point of the application.
ConnInv ==
    /\ pc[App] = "rest" => state # "Connecting"
    /\ pc[App] \in {"mint", "cache", "dial", "stopOld"} \cup Scheduled
         => state = "Connecting"
    /\ pc[App] \in {"halt", "drop", "down"}
         => state \in {"Connected", "Reconnecting"}

\* The application may be the one about to arm the timer.
Carries(a) ==
    \/ pc[a] = "arm" /\ got[a] = token
    \/ a \in Timers /\ Renews(a)

\* The first half of RenewalIsBacked, from the moment a Connect has read the
\* expiry.
TimedInv ==
    \/ pc[App] \in Scheduled
    \/ pc[App] = "rest" /\ state = "Connected"
    => lost # {} \/ \E a \in Actors : Carries(a)

BackedInv == ConnInv /\ TimedInv

LEMMA BackedInit == Init => BackedInv
  BY DEF Init, BackedInv, ConnInv, TimedInv, Scheduled, Actors

LEMMA BackedStep == TypeOK /\ BackedInv /\ [Next]_vars => BackedInv'
<1> SUFFICES ASSUME TypeOK, BackedInv, [Next]_vars PROVE BackedInv'
  OBVIOUS
<1> USE ActorAssumption
    DEF BackedInv, Goto, Failed, Actors, After, localVars, clientVars
<1>1. ASSUME NEW a \in Actors, Shared(a) PROVE BackedInv'
  <2>1. CASE MintFails(a)
    <3> USE <2>1 DEF MintFails
    <3>1. ConnInv'
      BY DEF ConnInv, Scheduled, TypeOK, States
    <3>2. TimedInv'
      BY DEF TimedInv, Carries, Renews, ConnInv, Scheduled, TypeOK
    <3> QED
      BY <3>1, <3>2
  <2>2. CASE Mint(a)
    <3> USE <2>2 DEF Mint
    <3>1. ConnInv'
      BY DEF ConnInv, Scheduled, TypeOK, States
    <3>2. TimedInv'
      BY DEF TimedInv, Carries, Renews, ConnInv, Scheduled, TypeOK
    <3> QED
      BY <3>1, <3>2
  <2>3. CASE Cache(a)
    <3> USE <2>3 DEF Cache
    <3>1. ConnInv'
      BY DEF ConnInv, Scheduled, TypeOK, States
    <3>2. TimedInv'
      BY DEF TimedInv, Carries, Renews, ConnInv, Scheduled, TypeOK
    <3> QED
      BY <3>1, <3>2
  <2>4. CASE StopOld(a)
    <3> USE <2>4 DEF StopOld
    <3>1. ConnInv'
      BY StoppedTypes DEF ConnInv, Scheduled, TypeOK, States
    <3>2. TimedInv'
      BY StoppedTypes DEF TimedInv, Carries, Renews, ConnInv, Scheduled, TypeOK
    <3> QED
      BY <3>1, <3>2
  <2>5. CASE Arm(a)
    <3> USE <2>5 DEF Arm
    <3>1. ConnInv'
      BY DEF ConnInv, Scheduled, TypeOK, States
    <3>2. TimedInv'
      <4>1. PICK t \in Timers :
              /\ pc[t] = "rest"
              /\ pc' = [pc EXCEPT ![a] = "store", ![t] = "armed"]
              /\ due' = [due EXCEPT ![t] = got[a]]
        BY DEF Free
      <4>2. pc'[t] = "armed" /\ due'[t] = got[a] /\ t # a
        BY <4>1 DEF TypeOK
      <4>3. \A b \in Actors \ {a, t} : pc'[b] = pc[b] /\ got'[b] = got[b]
        BY <4>1 DEF TypeOK
      <4>4. \A u \in Timers \ {t} : due'[u] = due[u]
        BY <4>1 DEF TypeOK
      <4>5. ASSUME NEW b \in Actors, Carries(b)
            PROVE  \E c \in Actors : Carries(c)'
        <5>1. CASE b = a
          BY <4>2, <4>5, <5>1 DEF Carries, Renews
        <5>2. CASE b # a
          <6>1. b # t
            BY <4>1, <4>5 DEF Carries, Renews
          <6> QED
            BY <4>3, <4>4, <4>5, <5>2, <6>1 DEF Carries, Renews
        <5> QED
          BY <5>1, <5>2
      <4>6. pc'[App] = pc[App] \/ pc[App] = "arm"
        BY <4>1 DEF TypeOK
      <4> QED
        BY <4>5, <4>6 DEF TimedInv, Scheduled, TypeOK
    <3> QED
      BY <3>1, <3>2
  <2>6. CASE Store(a)
    <3> USE <2>6 DEF Store
    <3>1. ConnInv'
      BY DEF ConnInv, Scheduled, TypeOK, States
    <3>2. TimedInv'
      BY DEF TimedInv, Carries, Renews, ConnInv, Scheduled, TypeOK
    <3> QED
      BY <3>1, <3>2
  <2> QED
    BY <1>1, <2>1, <2>2, <2>3, <2>4, <2>5, <2>6 DEF Shared
<1>2. CASE AppStep
  <2>1. CASE Connect
    <3> USE <2>1 DEF Connect
    <3>1. ConnInv'
      BY DEF ConnInv, Scheduled, TypeOK, States
    <3>2. TimedInv'
      BY DEF TimedInv, Carries, Renews, ConnInv, Scheduled, TypeOK
    <3> QED
      BY <3>1, <3>2
  <2>2. CASE Disconnect
    <3> USE <2>2 DEF Disconnect
    <3>1. ConnInv'
      BY DEF ConnInv, Scheduled, TypeOK, States
    <3>2. TimedInv'
      BY DEF TimedInv, Carries, Renews, ConnInv, Scheduled, TypeOK
    <3> QED
      BY <3>1, <3>2
  <2>3. CASE Dial
    <3> USE <2>3 DEF Dial
    <3>1. ConnInv'
      BY DEF ConnInv, Scheduled, TypeOK, States
    <3>2. TimedInv'
      BY DEF TimedInv, Carries, Renews, ConnInv, Scheduled, TypeOK
    <3> QED
      BY <3>1, <3>2
  <2>4. CASE Commit
    <3> USE <2>4 DEF Commit
    <3>1. ConnInv'
      BY DEF ConnInv, Scheduled, TypeOK, States
    <3>2. TimedInv'
      BY DEF TimedInv, Carries, Renews, ConnInv, Scheduled, TypeOK
    <3> QED
      BY <3>1, <3>2
  <2>5. CASE HaltTimer
    <3> USE <2>5 DEF HaltTimer
    <3>1. ConnInv'
      BY StoppedTypes DEF ConnInv, Scheduled, TypeOK, States
    <3>2. TimedInv'
      BY StoppedTypes DEF TimedInv, Carries, Renews, ConnInv, Scheduled, TypeOK
    <3> QED
      BY <3>1, <3>2
  <2>6. CASE DropSocket
    <3> USE <2>6 DEF DropSocket
    <3>1. ConnInv'
      BY DEF ConnInv, Scheduled, TypeOK, States
    <3>2. TimedInv'
      BY DEF TimedInv, Carries, Renews, ConnInv, Scheduled, TypeOK
    <3> QED
      BY <3>1, <3>2
  <2>7. CASE Down
    <3> USE <2>7 DEF Down
    <3>1. ConnInv'
      BY DEF ConnInv, Scheduled, TypeOK, States
    <3>2. TimedInv'
      BY DEF TimedInv, Carries, Renews, ConnInv, Scheduled, TypeOK
    <3> QED
      BY <3>1, <3>2
  <2> QED
    BY <1>2, <2>1, <2>2, <2>3, <2>4, <2>5, <2>6, <2>7 DEF AppStep
<1>3. ASSUME NEW t \in Timers, TimerStep(t) PROVE BackedInv'
  <2>1. CASE Fire(t)
    <3> USE <2>1 DEF Fire
    <3>1. ConnInv'
      BY DEF ConnInv, Scheduled, TypeOK, States
    <3>2. TimedInv'
      BY DEF TimedInv, Carries, Renews, ConnInv, Scheduled, TypeOK
    <3> QED
      BY <3>1, <3>2
  <2>2. CASE Check(t)
    <3> USE <2>2 DEF Check
    <3>1. ConnInv'
      BY DEF ConnInv, Scheduled, TypeOK, States
    <3>2. TimedInv'
      BY DEF TimedInv, Carries, Renews, ConnInv, Scheduled, TypeOK
    <3> QED
      BY <3>1, <3>2
  <2>3. CASE TestSocket(t)
    <3> USE <2>3 DEF TestSocket
    <3>1. ConnInv'
      BY DEF ConnInv, Scheduled, TypeOK, States
    <3>2. TimedInv'
      BY DEF TimedInv, Carries, Renews, ConnInv, Scheduled, TypeOK
    <3> QED
      BY <3>1, <3>2
  <2>4. CASE Update(t)
    <3> USE <2>4 DEF Update
    <3>1. ConnInv'
      BY DEF ConnInv, Scheduled, TypeOK, States
    <3>2. TimedInv'
      BY DEF TimedInv, Carries, Renews, ConnInv, Scheduled, TypeOK
    <3> QED
      BY <3>1, <3>2
  <2> QED
    BY <1>3, <2>1, <2>2, <2>3, <2>4 DEF TimerStep
<1>4. CASE UNCHANGED vars
  BY <1>4 DEF vars, ConnInv, TimedInv, Carries, Renews
<1> QED
  BY <1>1, <1>2, <1>3, <1>4, StepCases

LEMMA BackedHolds == Spec => []BackedInv
  BY TypesHold, BackedInit, BackedStep, PTL DEF Spec

-----------------------------------------------------------------------------
(* Callbacks that have the client to themselves.                           *)

Active(a) == pc[a] \notin {"rest", "armed"}

Solo == \A a, b \in Actors : Active(a) /\ Active(b) => a = b

\* A timer that is armed is the one about to be stored, or else the one stored;
\* and there is none when one is about to be armed.
ArmedInv ==
    \A t \in Timers : pc[t] = "armed" =>
        /\ stored = t \/ \E a \in Actors : pc[a] = "store"
        /\ \A a \in Actors :
              /\ pc[a] # "arm"
              /\ pc[a] = "store" => mine[a] = t

\* A callback past its check has a connected client, and one that has tested
\* the socket still has it.
CallbackInv ==
    \A t \in Timers :
        /\ pc[t] \notin {"rest", "armed", "check"} => state = "Connected"
        /\ pc[t] = "update" => socket

SoloInv == ~mixed => Solo /\ ArmedInv /\ CallbackInv

LEMMA SoloInit == Init => SoloInv
  BY DEF Init, SoloInv, Solo, Active, ArmedInv, CallbackInv, Actors

\* A step that leaves mixed false starts from a state where it was.
LEMMA MixedStays == ASSUME [Next]_vars, ~mixed' PROVE ~mixed
<1>1. ASSUME NEW a \in Actors, Shared(a) PROVE ~mixed
  BY <1>1 DEF Shared, MintFails, Mint, Cache, StopOld, Arm, Store
<1>2. CASE AppStep
  BY <1>2 DEF AppStep, Connect, Disconnect, Dial, Commit, HaltTimer, DropSocket,
     Down
<1>3. ASSUME NEW t \in Timers, TimerStep(t) PROVE ~mixed
  BY <1>3 DEF TimerStep, Fire, Check, TestSocket, Update
<1>4. CASE UNCHANGED vars
  BY <1>4 DEF vars
<1> QED
  BY <1>1, <1>2, <1>3, <1>4, StepCases

LEMMA SoloStep == TypeOK /\ BackedInv /\ SoloInv /\ [Next]_vars => SoloInv'
<1> SUFFICES ASSUME TypeOK, BackedInv, SoloInv, [Next]_vars, ~mixed'
             PROVE  (Solo /\ ArmedInv /\ CallbackInv)'
  BY DEF SoloInv
<1> DEFINE Goal == (Solo /\ ArmedInv /\ CallbackInv)'
<1>0. Solo /\ ArmedInv /\ CallbackInv /\ ConnInv
  BY MixedStays DEF SoloInv, BackedInv
<1> USE ActorAssumption
    DEF Goto, Failed, Actors, After, localVars, clientVars, Active
<1>1. ASSUME NEW a \in Actors, Shared(a) PROVE Goal
  <2>1. CASE MintFails(a)
    <3> USE <2>1 DEF MintFails
    <3>1. Solo'
      BY <1>0 DEF Solo, TypeOK
    <3>2. ArmedInv'
      BY <1>0 DEF Solo, ArmedInv, TypeOK
    <3>3. CallbackInv'
      BY <1>0 DEF Solo, CallbackInv, ConnInv, TypeOK
    <3> QED
      BY <3>1, <3>2, <3>3
  <2>2. CASE Mint(a)
    <3> USE <2>2 DEF Mint
    <3>1. Solo'
      BY <1>0 DEF Solo, TypeOK
    <3>2. ArmedInv'
      BY <1>0 DEF Solo, ArmedInv, TypeOK
    <3>3. CallbackInv'
      BY <1>0 DEF Solo, CallbackInv, ConnInv, TypeOK
    <3> QED
      BY <3>1, <3>2, <3>3
  <2>3. CASE Cache(a)
    <3> USE <2>3 DEF Cache
    <3>1. Solo'
      BY <1>0 DEF Solo, TypeOK
    <3>2. ArmedInv'
      BY <1>0 DEF Solo, ArmedInv, TypeOK
    <3>3. CallbackInv'
      BY <1>0 DEF Solo, CallbackInv, ConnInv, TypeOK
    <3> QED
      BY <3>1, <3>2, <3>3
  <2>4. CASE StopOld(a)
    <3> USE <2>4 DEF StopOld
    <3>1. Solo'
      BY <1>0, StoppedTypes DEF Solo, TypeOK
    <3>2. ArmedInv'
      BY <1>0, StoppedTypes DEF Solo, ArmedInv, TypeOK
    <3>3. CallbackInv'
      BY <1>0, StoppedTypes DEF Solo, CallbackInv, ConnInv, TypeOK
    <3> QED
      BY <3>1, <3>2, <3>3
  <2>5. CASE Arm(a)
    <3> USE <2>5 DEF Arm, Free
    <3>1. Solo'
      BY <1>0 DEF Solo, TypeOK
    <3>2. ArmedInv'
      <4>1. PICK t \in Timers :
              /\ pc[t] = "rest"
              /\ pc' = [pc EXCEPT ![a] = "store", ![t] = "armed"]
              /\ mine' = [mine EXCEPT ![a] = t]
        OBVIOUS
      <4>2. pc'[a] = "store" /\ mine'[a] = t
        BY <4>1 DEF TypeOK
      <4>3. \A u \in Timers : pc[u] # "armed"
        BY <1>0, <1>1 DEF ArmedInv
      <4>4. \A u \in Timers : pc'[u] = "armed" => u = t
        BY <4>1, <4>3 DEF TypeOK
      <4>5. \A b \in Actors : pc'[b] # "arm" /\ (pc'[b] = "store" => b = a)
        BY <1>0, <4>1 DEF Solo, TypeOK
      <4> QED
        BY <4>2, <4>4, <4>5 DEF ArmedInv
    <3>3. CallbackInv'
      BY <1>0 DEF Solo, CallbackInv, ConnInv, TypeOK
    <3> QED
      BY <3>1, <3>2, <3>3
  <2>6. CASE Store(a)
    <3> USE <2>6 DEF Store
    <3>1. Solo'
      BY <1>0 DEF Solo, TypeOK
    <3>2. ArmedInv'
      BY <1>0 DEF Solo, ArmedInv, TypeOK
    <3>3. CallbackInv'
      BY <1>0 DEF Solo, CallbackInv, ConnInv, TypeOK
    <3> QED
      BY <3>1, <3>2, <3>3
  <2> QED
    BY <1>1, <2>1, <2>2, <2>3, <2>4, <2>5, <2>6 DEF Shared
<1>2. CASE AppStep
  <2>1. CASE Connect
    <3> USE <2>1 DEF Connect, Quiet, Running
    <3>1. Solo'
      BY <1>0 DEF Solo, TypeOK
    <3>2. ArmedInv'
      BY <1>0 DEF Solo, ArmedInv, TypeOK
    <3>3. CallbackInv'
      BY <1>0 DEF Solo, CallbackInv, ConnInv, TypeOK
    <3> QED
      BY <3>1, <3>2, <3>3
  <2>2. CASE Disconnect
    <3> USE <2>2 DEF Disconnect, Quiet, Running
    <3>1. Solo'
      BY <1>0 DEF Solo, TypeOK
    <3>2. ArmedInv'
      BY <1>0 DEF Solo, ArmedInv, TypeOK
    <3>3. CallbackInv'
      BY <1>0 DEF Solo, CallbackInv, ConnInv, TypeOK
    <3> QED
      BY <3>1, <3>2, <3>3
  <2>3. CASE Dial
    <3> USE <2>3 DEF Dial
    <3>1. Solo'
      BY <1>0 DEF Solo, TypeOK
    <3>2. ArmedInv'
      BY <1>0 DEF Solo, ArmedInv, TypeOK
    <3>3. CallbackInv'
      BY <1>0 DEF Solo, CallbackInv, ConnInv, TypeOK
    <3> QED
      BY <3>1, <3>2, <3>3
  <2>4. CASE Commit
    <3> USE <2>4 DEF Commit
    <3>1. Solo'
      BY <1>0 DEF Solo, TypeOK
    <3>2. ArmedInv'
      BY <1>0 DEF Solo, ArmedInv, TypeOK
    <3>3. CallbackInv'
      BY <1>0 DEF Solo, CallbackInv, ConnInv, TypeOK
    <3> QED
      BY <3>1, <3>2, <3>3
  <2>5. CASE HaltTimer
    <3> USE <2>5 DEF HaltTimer
    <3>1. Solo'
      BY <1>0, StoppedTypes DEF Solo, TypeOK
    <3>2. ArmedInv'
      BY <1>0, StoppedTypes DEF Solo, ArmedInv, TypeOK
    <3>3. CallbackInv'
      BY <1>0, StoppedTypes DEF Solo, CallbackInv, ConnInv, TypeOK
    <3> QED
      BY <3>1, <3>2, <3>3
  <2>6. CASE DropSocket
    <3> USE <2>6 DEF DropSocket
    <3>1. Solo'
      BY <1>0 DEF Solo, TypeOK
    <3>2. ArmedInv'
      BY <1>0 DEF Solo, ArmedInv, TypeOK
    <3>3. CallbackInv'
      BY <1>0 DEF Solo, CallbackInv, ConnInv, TypeOK
    <3> QED
      BY <3>1, <3>2, <3>3
  <2>7. CASE Down
    <3> USE <2>7 DEF Down
    <3>1. Solo'
      BY <1>0 DEF Solo, TypeOK
    <3>2. ArmedInv'
      BY <1>0 DEF Solo, ArmedInv, TypeOK
    <3>3. CallbackInv'
      BY <1>0 DEF Solo, CallbackInv, ConnInv, TypeOK
    <3> QED
      BY <3>1, <3>2, <3>3
  <2> QED
    BY <1>2, <2>1, <2>2, <2>3, <2>4, <2>5, <2>6, <2>7 DEF AppStep
<1>3. ASSUME NEW t \in Timers, TimerStep(t) PROVE Goal
  <2>1. CASE Fire(t)
    <3> USE <2>1 DEF Fire, Quiet, Running
    <3>1. Solo'
      BY <1>0 DEF Solo, TypeOK
    <3>2. ArmedInv'
      BY <1>0 DEF Solo, ArmedInv, TypeOK
    <3>3. CallbackInv'
      BY <1>0 DEF Solo, CallbackInv, ConnInv, TypeOK
    <3> QED
      BY <3>1, <3>2, <3>3
  <2>2. CASE Check(t)
    <3> USE <2>2 DEF Check
    <3>1. Solo'
      BY <1>0 DEF Solo, TypeOK
    <3>2. ArmedInv'
      BY <1>0 DEF Solo, ArmedInv, TypeOK
    <3>3. CallbackInv'
      BY <1>0 DEF Solo, CallbackInv, ConnInv, TypeOK
    <3> QED
      BY <3>1, <3>2, <3>3
  <2>3. CASE TestSocket(t)
    <3> USE <2>3 DEF TestSocket
    <3>1. Solo'
      BY <1>0 DEF Solo, TypeOK
    <3>2. ArmedInv'
      BY <1>0 DEF Solo, ArmedInv, TypeOK
    <3>3. CallbackInv'
      BY <1>0 DEF Solo, CallbackInv, ConnInv, TypeOK
    <3> QED
      BY <3>1, <3>2, <3>3
  <2>4. CASE Update(t)
    <3> USE <2>4 DEF Update
    <3>1. Solo'
      BY <1>0 DEF Solo, TypeOK
    <3>2. ArmedInv'
      BY <1>0 DEF Solo, ArmedInv, TypeOK
    <3>3. CallbackInv'
      BY <1>0 DEF Solo, CallbackInv, ConnInv, TypeOK
    <3> QED
      BY <3>1, <3>2, <3>3
  <2> QED
    BY <1>3, <2>1, <2>2, <2>3, <2>4 DEF TimerStep
<1>4. CASE UNCHANGED vars
  BY <1>0, <1>4 DEF vars, Solo, ArmedInv, CallbackInv
<1> HIDE DEF Goal
<1> QED
  BY <1>1, <1>2, <1>3, <1>4, StepCases DEF Goal

LEMMA SoloHolds == Spec => []SoloInv
  BY TypesHold, BackedHolds, SoloInit, SoloStep, PTL DEF Spec

\* While no callback has run beside a call or another callback, every timer that
\* is armed can be stopped by Disconnect.
THEOREM ArmedAreStored == Spec => []ArmedIsStored
<1>1. SoloInv => ArmedIsStored
  BY DEF SoloInv, ArmedInv, ArmedIsStored
<1> QED
  BY SoloHolds, <1>1, PTL

-----------------------------------------------------------------------------
(* What can end the renewals.                                              *)

\* A callback that has the client to itself never finds it connecting, nor the
\* socket gone.
EndInv ==
    /\ "early" \in lost => mixed
    /\ \A t \in Timers : pc[t] = "panic" => mixed

LEMMA EndInit == Init => EndInv
  BY ActorAssumption DEF Init, EndInv, Actors

\* A step that moves no callback to "panic", and adds no "early".
LEMMA EndKept ==
    ASSUME TypeOK, EndInv, "early" \in lost' => "early" \in lost,
           mixed => mixed',
           \A t \in Timers : pc'[t] = "panic" => pc[t] = "panic"
    PROVE  EndInv'
  BY DEF EndInv

LEMMA EndStep ==
    TypeOK /\ BackedInv /\ SoloInv /\ EndInv /\ [Next]_vars => EndInv'
<1> SUFFICES ASSUME TypeOK, BackedInv, SoloInv, EndInv, [Next]_vars
             PROVE  EndInv'
  OBVIOUS
<1> USE ActorAssumption DEF Goto, Actors, After, localVars, clientVars
<1>1. ASSUME NEW a \in Actors, Shared(a) PROVE EndInv'
  <2>1. CASE MintFails(a) \/ Mint(a)
    BY <2>1, EndKept DEF MintFails, Mint, TypeOK
  <2>2. CASE Cache(a)
    BY <2>2, EndKept DEF Cache, TypeOK
  <2>3. CASE StopOld(a)
    BY <2>3, EndKept, StoppedTypes DEF StopOld, TypeOK
  <2>4. CASE Arm(a)
    BY <2>4, EndKept DEF Arm, TypeOK
  <2>5. CASE Store(a)
    BY <2>5, EndKept DEF Store, TypeOK
  <2> QED
    BY <1>1, <2>1, <2>2, <2>3, <2>4, <2>5 DEF Shared
<1>2. CASE AppStep
  <2>1. CASE Connect \/ Disconnect
    BY <2>1, EndKept DEF Connect, Disconnect, TypeOK
  <2>2. CASE Dial \/ Commit
    BY <2>2, EndKept DEF Dial, Commit, TypeOK
  <2>3. CASE HaltTimer
    BY <2>3, EndKept, StoppedTypes DEF HaltTimer, TypeOK
  <2>4. CASE DropSocket \/ Down
    BY <2>4, EndKept DEF DropSocket, Down, TypeOK
  <2> QED
    BY <1>2, <2>1, <2>2, <2>3, <2>4 DEF AppStep
<1>3. ASSUME NEW t \in Timers, TimerStep(t) PROVE EndInv'
  <2>1. CASE Fire(t)
    BY <2>1, EndKept DEF Fire, TypeOK
  \* The application is at rest, so the state is not Connecting.
  <2>2. CASE Check(t)
    <3>1. ~mixed => state # "Connecting"
      <4> SUFFICES ASSUME ~mixed PROVE state # "Connecting"
        OBVIOUS
      <4>1. Solo /\ Active(t)
        BY <2>2 DEF SoloInv, Check, Active
      <4>2. pc[App] \in {"rest", "armed"}
        BY <4>1 DEF Solo, Active
      <4>3. pc[App] = "rest"
        BY <4>2 DEF TypeOK, AppPcs, SharedPcs
      <4> QED
        BY <4>3 DEF BackedInv, ConnInv
    <3> QED
      BY <2>2, <3>1 DEF Check, EndInv, TypeOK
  <2>3. CASE TestSocket(t)
    BY <2>3, EndKept DEF TestSocket, TypeOK
  \* The socket that was tested is still there.
  <2>4. CASE Update(t)
    <3>1. ~mixed => socket
      BY <2>4 DEF Update, SoloInv, CallbackInv
    <3>2. /\ pc'[t] = "panic" => ~socket
          /\ \A u \in Timers \ {t} : pc'[u] = pc[u]
      BY <2>4 DEF Update, TypeOK
    <3>3. UNCHANGED <<lost, mixed>>
      BY <2>4 DEF Update
    <3> QED
      BY <3>1, <3>2, <3>3 DEF EndInv
  <2> QED
    BY <1>3, <2>1, <2>2, <2>3, <2>4 DEF TimerStep
<1>4. CASE UNCHANGED vars
  BY <1>4 DEF vars, EndInv
<1> QED
  BY <1>1, <1>2, <1>3, <1>4, StepCases

LEMMA EndHolds == Spec => []EndInv
  BY TypesHold, BackedHolds, SoloHolds, EndInit, EndStep, PTL DEF Spec

\* However callbacks interfere with calls and with each other, a connected
\* client has a timer for the expiry of the token it holds, or a callback on its
\* way to arm one, unless the provider, an unknown expiry or a callback that
\* came too early has ended its renewals; and a callback comes too early, or
\* panics, only where callbacks overlap calls.
THEOREM RenewalsAreBacked == Spec => []RenewalIsBacked
<1>1. ASSUME BackedInv, pc[App] = "rest", state = "Connected", lost = {}
      PROVE  \E t \in Timers : Renews(t)
  BY <1>1, ActorAssumption DEF BackedInv, TimedInv, Carries, Renews, Actors
<1>2. BackedInv /\ EndInv => RenewalIsBacked
  BY <1>1 DEF EndInv, RenewalIsBacked, Quiet, Crashed
<1> QED
  BY BackedHolds, EndHolds, <1>2, PTL
=============================================================================
